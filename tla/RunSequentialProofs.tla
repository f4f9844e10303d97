-------------------------- MODULE RunSequentialProofs --------------------------
(* Theorems about commands of one run that do not overlap, what a user who    *)
(* waits for each command may rely on: any number of commands in any order,   *)
(* of edits, and of processes that die at any point.                          *)
EXTENDS RunLifecycleProofs

-----------------------------------------------------------------------------
(* One command at a time *)

Idle == {"off", "done", "dead"}

\* At most one command has been started and has not ended.
Alone == \A p, q \in Procs : Live(p) /\ Live(q) => p = q

\* A step is one of a live process, starts one, or is one of an agent without.
LEMMA StepsAreLive ==
    ASSUME NEW p \in Procs, AnyStep(p), ~Start(p), ~Orphaned(p)
    PROVE  Live(p)
<1> USE DEF At, Live
<1>1. CASE Planning(p) \/ Implementing(p)
  BY <1>1 DEF Planning, Discover, StartPlanning, PlannerTurn, UserAnswers,
              PlanDecision, Classify, Implementing, CreateWorktree,
              StartImplementing, EndImplementing
<1>2. CASE Editing(p)
  BY <1>2 DEF Editing, TakeWriterLock, Edit, EndEdit, ReleaseWriterLock,
              AgentFailed, EditStages
<1>3. CASE Checking(p)
  BY <1>3 DEF Checking, VerifyPasses, VerifyFails, Repaired, BeginReview,
              ReviewApproves, ReviewObjects, FixDone, AfterReview,
              ReverifyPasses, ReverifyFails, Decide
<1>4. CASE Merging(p)
  BY <1>4 DEF Merging, ConfirmMerge, LockWriterForMerge, SkipMerge, CommitRun,
              Pick, RecordMerge, RemoveMerged, DeleteMergedBranch, Close
<1>5. CASE Resuming(p)
  BY <1>5 DEF Resuming, Recover, Dispatch, OpenTree, LookAtDiff, RecreateTree,
              RecreateBranch, Restart
<1>6. CASE \/ Cleaning(p) \/ LosesTree(p) \/ Crash(p) \/ Leave(p)
           \/ ReleaseBetweenPhases(p)
  BY <1>6 DEF Cleaning, ListRuns, CheckTree, JudgeTree, CleanupTree,
              CleanupBranch, LosesTree, NeedsTree, EditStages, Crash, Leave,
              ReleaseBetweenPhases
<1>7. CASE Acquiring(p)
  BY <1>7 DEF Acquiring, Examine, UnlinkRunLock, CreateRunLock,
              UnlinkWriterLock, CreateWriterLock, ReleaseCleared,
              AcquiresRunLock, ClearsWriterLock
<1>8. QED
  BY <1>1, <1>2, <1>3, <1>4, <1>5, <1>6, <1>7 DEF AnyStep

\* What an agent does that has outlived its process: it may write to the
\* worktree, and that is known.
LEMMA OrphanStep ==
    ASSUME GitOK, NEW p \in Procs, Orphaned(p)
    PROVE  /\ UNCHANGED <<pc, seen, dbVars, landed, verified, reviewed, approved>>
           /\ stray \subseteq stray'
           /\ \/ UNCHANGED tree
              \/ /\ tree.exists
                 /\ tree'.exists
                 /\ tree'.head = tree.head
                 /\ tree'.files \in stray'
<1>1. CASE OrphanEdits(p)
  <2>1. tree' = [tree EXCEPT !.files = edits + 1]
    BY <1>1, Zenon DEF OrphanEdits, write
  <2>2. tree.exists /\ edits + 1 \in stray' /\ stray \subseteq stray'
    BY <1>1 DEF OrphanEdits, write
  <2>3. tree'.exists /\ tree'.head = tree.head /\ tree'.files = edits + 1
    BY <2>1, <2>2 DEF GitOK, Trees
  <2>4. UNCHANGED <<pc, seen, dbVars, landed, verified, reviewed, approved>>
    BY <1>1 DEF OrphanEdits, write, procVars, procData
  <2>5. QED
    BY <2>2, <2>3, <2>4
<1>2. CASE OrphanEnds(p)
  BY <1>2 DEF OrphanEnds, gitVars, history, accidents
<1>3. QED
  BY <1>1, <1>2 DEF Orphaned

\* p goes from phase to phase, nobody else does.
LEMMA StepMoves ==
    ASSUME PcTypeOK, NEW p \in Procs, AnyStep(p)
    PROVE  UNCHANGED pc \/ \E phase \in Phases : pc' = [pc EXCEPT ![p] = phase]
<1>1. LockShape(p)
  BY StepShape
<1>2. QED
  BY <1>1 DEF LockShape, MovesOn, TakesRunLock, GivesRunLock, BreaksRunLock

\* Whoever takes a step is alone, and so is whoever it leaves behind.
LEMMA StepsAlone ==
    ASSUME Overlap = FALSE, PcTypeOK, Alone, NEW p \in Procs, AnyStep(p),
           ~Orphaned(p)
    PROVE  /\ \A q \in Procs \ {p} : pc[q] \in Idle /\ pc'[q] = pc[q]
           /\ Alone'
<1>1. \A q \in Procs \ {p} : ~Live(q)
  <2>1. CASE Start(p)
    BY <2>1 DEF Start, StartComplete, StartResume, StartMerge, StartCleanup,
                MayStart
  <2>2. CASE ~Start(p)
    BY <2>2, StepsAreLive DEF Alone
  <2>3. QED
    BY <2>1, <2>2
<1>2. \A q \in Procs \ {p} : pc'[q] = pc[q]
  BY StepMoves DEF PcTypeOK
<1>3. Alone'
  BY <1>1, <1>2 DEF Alone, Live
<1>4. QED
  BY <1>1, <1>2, <1>3 DEF Live, Idle

-----------------------------------------------------------------------------
(* The state of the run is the one the command thinks it is in *)

\* States of a run that has begun and has not ended, and those in which it has a
\* classified task.
Unfinished == WorkflowState \ (TERMINAL_STATES \cup {"NEW"})
PastPlanning == Unfinished \ PLANNING_ONLY_STATES

MergePhases == Idle \cup {"preflight", "lock_merge", "lock_writer", "commit",
                          "pick", "record", "remove", "delete_branch", "leave"}
CleanupPhases == Idle \cup {"clear_lock", "cleared", "list", "check",
                            "clear_check", "cleared_check", "judge", "cleanup",
                            "cleanup_branch", "leave"}

\* What the run's state is while a command that is alone is in a phase; early is
\* the state the command has read at its start.
Legal(phase, command, st, early) ==
    /\ phase \in Phases \ {"invalid"}
    /\ command = "merge" => phase \in MergePhases
    /\ command = "cleanup" => phase \in CleanupPhases
    /\ phase \in WorkflowState => st = phase
    /\ phase = "NEW" => command = "complete"
    /\ phase = "lock" =>
          \/ command = "complete" /\ st = "NEW"
          \/ command = "resume" /\ st = early /\ st \in Unfinished
    /\ phase = "recover" => command = "resume" /\ st = "BLOCKED"
    /\ phase = "dispatch" => st = early /\ st \in Unfinished
    /\ phase \in {"open_tree", "clear_writer", "cleared_writer", "diff",
                  "recreate", "recreate_branch", "restart"}
          => st \in PastPlanning
    /\ phase \in {"created", "lock_implement"} => st = "TASK_CLASSIFIED"
    /\ phase = "agent_failed"
          => st \in {"REPAIRING", "REVIEW_FIXING", "DOCUMENTING"}
    /\ phase = "repaired" => st = "REPAIRING"
    /\ phase = "fixed" => st = "REVIEW_FIXING"
    /\ phase = "documented" => st = "DOCUMENTING"
    /\ phase \in {"reverify", "lock_review", "verified"} => st = "VERIFYING"
    /\ phase \in {"preflight", "lock_merge", "lock_writer"}
          => command = "merge" /\ st = "COMPLETED"
    /\ phase \in {"commit", "pick", "record", "remove", "delete_branch"}
          => st = IF command = "merge" THEN "COMPLETED"
                                       ELSE "READY_FOR_APPROVAL"
    /\ phase = "close" => st = "READY_FOR_APPROVAL"

LegalAt(p) == Legal(pc[p], Command[p], state, seen[p])

\* The run is new until its `complete` has been started.
Fresh == (\A p \in Procs : Command[p] = "complete" => At(p, "off"))
            => state = "NEW"

\* An idle process and one that is about to end ask nothing of the state.
LEMMA IdleIsLegal ==
    ASSUME NEW phase \in Idle \cup {"leave"}, NEW command, NEW st, NEW early
    PROVE  Legal(phase, command, st, early)
BY DEF Legal, Idle, Phases, WorkflowState, MergePhases, CleanupPhases

\* The transitions the commands make.
LEMMA Transitions ==
    /\ Valid("NEW", "PROJECT_READY")
    /\ Valid("PROJECT_READY", "PLANNING")
    /\ \A to \in {"BLOCKED", "WAITING_FOR_USER", "PLAN_READY"} :
          Valid("PLANNING", to)
    /\ Valid("WAITING_FOR_USER", "PLANNING")
    /\ \A to \in {"CANCELLED", "PLANNING", "PLAN_APPROVED"} :
          Valid("PLAN_READY", to)
    /\ Valid("PLAN_APPROVED", "TASK_CLASSIFIED")
    /\ Valid("TASK_CLASSIFIED", "WORKTREE_READY")
    /\ Valid("WORKTREE_READY", "IMPLEMENTING")
    /\ Valid("IMPLEMENTING", "VERIFYING")
    /\ \A to \in {"REPAIRING", "REVIEWING"} : Valid("VERIFYING", to)
    /\ Valid("REPAIRING", "VERIFYING")
    /\ \A to \in {"REVIEW_FIXING", "REVIEW_APPROVED"} : Valid("REVIEWING", to)
    /\ Valid("REVIEW_FIXING", "VERIFYING")
    /\ \A to \in {"DOCUMENTING", "READY_FOR_APPROVAL"} :
          Valid("REVIEW_APPROVED", to)
    /\ Valid("DOCUMENTING", "READY_FOR_APPROVAL")
    /\ \A to \in {"COMPLETED", "CANCELLED"} : Valid("READY_FOR_APPROVAL", to)
    /\ \A from \in PastPlanning \ {"NEW"} : Valid(from, "BLOCKED")
BY DEF Valid, ALLOWED_TRANSITIONS, PastPlanning, Unfinished, WorkflowState,
       TERMINAL_STATES, PLANNING_ONLY_STATES

\* A legal transition leads to the state and the phase it is meant to.
LEMMA EnterLegally ==
    ASSUME PcTypeOK, NEW p \in Procs, NEW to, NEW phase,
           Valid(state, to), Enter(p, to, phase)
    PROVE  state' = to /\ pc'[p] = phase
BY DEF PcTypeOK, Enter, update_run_state, GoTo

\* `complete` and `resume` work: what they do from now on is checked stage by
\* stage.
Works(p) == Command[p] \notin {"merge", "cleanup"}

LEMMA WorksWhere ==
    ASSUME NEW p, LegalAt(p), pc[p] \notin MergePhases \cup CleanupPhases
    PROVE  Works(p)
BY DEF LegalAt, Legal, Works

\* A stage, in the state that has its name, is legal.
LEMMA StageIsLegal ==
    ASSUME NEW phase \in WorkflowState \ {"NEW"}, NEW command, NEW early,
           command \notin {"merge", "cleanup"}
    PROVE  Legal(phase, command, phase, early)
BY DEF Legal, Phases, WorkflowState

LEMMA PlanningLegal ==
    ASSUME PcTypeOK, NEW p \in Procs, LegalAt(p), Planning(p)
    PROVE  LegalAt(p)'
<1> USE DEF At
<1>0. Works(p) /\ state = pc[p]
  BY WorksWhere
     DEF Planning, Discover, StartPlanning, PlannerTurn, UserAnswers,
         PlanDecision, Classify, LegalAt, Legal, MergePhases, CleanupPhases,
         Idle, WorkflowState
<1>1. CASE ~Classify(p)
  <2>1. \/ pc'[p] = "leave"
        \/ pc'[p] \in WorkflowState \ {"NEW"} /\ state' = pc'[p]
    BY <1>0, <1>1, EnterLegally, Transitions
       DEF Planning, Discover, StartPlanning, PlannerTurn, UserAnswers,
           PlanDecision, Block, WorkflowState
  <2>2. QED
    BY <1>0, <2>1, IdleIsLegal, StageIsLegal DEF LegalAt, Works
<1>2. CASE Classify(p)
  <2>1. /\ state' = "TASK_CLASSIFIED"
        /\ pc'[p] \in {"open_tree", "lock_implement"}
    BY <1>0, <1>2, EnterLegally, Transitions DEF Classify
  <2>2. "TASK_CLASSIFIED" \in PastPlanning
    BY DEF PastPlanning, Unfinished, WorkflowState, TERMINAL_STATES,
           PLANNING_ONLY_STATES
  <2>3. QED
    BY <1>0, <2>1, <2>2 DEF LegalAt, Legal, Works, Phases, WorkflowState
<1>3. QED
  BY <1>1, <1>2

LEMMA ImplementingLegal ==
    ASSUME PcTypeOK, NEW p \in Procs, LegalAt(p), Implementing(p)
    PROVE  LegalAt(p)'
<1> USE DEF At
<1>0. Works(p)
  BY WorksWhere DEF Implementing, CreateWorktree, StartImplementing,
                    EndImplementing, MergePhases, CleanupPhases, Idle
<1>1. CASE CreateWorktree(p)
  <2>1. state = "TASK_CLASSIFIED" /\ state \in PastPlanning
    BY <1>1 DEF CreateWorktree, LegalAt, Legal, PastPlanning, Unfinished,
                WorkflowState, TERMINAL_STATES, PLANNING_ONLY_STATES
  <2>2. \/ pc'[p] = "leave"
        \/ pc'[p] = "created" /\ state' = state
    BY <1>1, <2>1, EnterLegally, Transitions
       DEF CreateWorktree, Block, GoTo, dbVars, PcTypeOK
  <2>3. QED
    BY <1>0, <2>1, <2>2, IdleIsLegal
       DEF LegalAt, Legal, Works, Phases, WorkflowState
<1>2. CASE StartImplementing(p) \/ EndImplementing(p)
  <2>1. state = IF pc[p] = "created" THEN "TASK_CLASSIFIED" ELSE pc[p]
    BY <1>2 DEF StartImplementing, EndImplementing, LegalAt, Legal,
                WorkflowState
  <2>2. pc[p] = "IMPLEMENTING" => state \in PastPlanning
    BY <2>1 DEF PastPlanning, Unfinished, WorkflowState, TERMINAL_STATES,
                PLANNING_ONLY_STATES
  <2>3. \/ pc'[p] = "leave"
        \/ /\ pc'[p] \in {"WORKTREE_READY", "IMPLEMENTING", "VERIFYING"}
           /\ state' = pc'[p]
    BY <1>2, <2>1, <2>2, EnterLegally, Transitions
       DEF StartImplementing, EndImplementing, Block
  <2>4. QED
    BY <1>0, <2>3, IdleIsLegal, StageIsLegal DEF LegalAt, Works, WorkflowState
<1>3. QED
  BY <1>1, <1>2 DEF Implementing

LEMMA EditingLegal ==
    ASSUME PcTypeOK, NEW p \in Procs, LegalAt(p), Editing(p)
    PROVE  LegalAt(p)'
<1> USE DEF At
<1>0. Works(p)
  BY WorksWhere DEF Editing, TakeWriterLock, Edit, EndEdit, ReleaseWriterLock,
                    AgentFailed, EditStages, MergePhases, CleanupPhases, Idle
<1>1. CASE Edit(p) \/ ReleaseWriterLock(p)
  BY <1>1 DEF Edit, ReleaseWriterLock, dbVars, procVars, procData, LegalAt
<1>2. CASE TakeWriterLock(p)
  <2>1. pc[p] \in EditStages /\ state = pc[p] /\ state \in PastPlanning
    BY <1>2 DEF TakeWriterLock, EditStages, LegalAt, Legal, WorkflowState,
                PastPlanning, Unfinished, TERMINAL_STATES, PLANNING_ONLY_STATES
  <2>2. pc'[p] = "leave" \/ UNCHANGED <<pc, state, seen>>
    BY <1>2, <2>1, EnterLegally, Transitions
       DEF TakeWriterLock, Block, GoTo, dbVars, PcTypeOK, EditStages
  <2>3. QED
    BY <2>2, IdleIsLegal DEF LegalAt
<1>3. CASE EndEdit(p)
  <2>1. pc[p] \in EditStages \ {"IMPLEMENTING"} /\ state = pc[p]
    BY <1>3 DEF EndEdit, EditStages, LegalAt, Legal, WorkflowState
  <2>2. state' = state
    BY <1>3 DEF EndEdit, dbVars
  <2>3. \/ pc'[p] = "agent_failed"
        \/ pc'[p] = "repaired" /\ state = "REPAIRING"
        \/ pc'[p] = "fixed" /\ state = "REVIEW_FIXING"
        \/ pc'[p] = "documented" /\ state = "DOCUMENTING"
    BY <1>3, <2>1 DEF EndEdit, GoTo, PcTypeOK, EditStages
  <2>4. QED
    BY <1>0, <2>1, <2>2, <2>3
       DEF LegalAt, Legal, Works, Phases, WorkflowState, EditStages
<1>4. CASE AgentFailed(p)
  <2>1. state \in PastPlanning
    BY <1>4 DEF AgentFailed, LegalAt, Legal, WorkflowState, PastPlanning,
                Unfinished, TERMINAL_STATES, PLANNING_ONLY_STATES
  <2>2. pc'[p] = "leave"
    BY <1>4, <2>1, EnterLegally, Transitions
       DEF AgentFailed, Block, PastPlanning, Unfinished
  <2>3. QED
    BY <2>2, IdleIsLegal DEF LegalAt
<1>5. QED
  BY <1>1, <1>2, <1>3, <1>4 DEF Editing

LEMMA CheckingLegal ==
    ASSUME PcTypeOK, NEW p \in Procs, LegalAt(p), Checking(p)
    PROVE  LegalAt(p)'
<1> USE DEF At
<1>0. Works(p)
  BY WorksWhere DEF Checking, VerifyPasses, VerifyFails, Repaired, BeginReview,
                    ReviewApproves, ReviewObjects, FixDone, AfterReview,
                    ReverifyPasses, ReverifyFails, Decide, MergePhases,
                    CleanupPhases, Idle
<1>1. /\ pc[p] \in {"VERIFYING", "REVIEWING", "REVIEW_APPROVED",
                    "READY_FOR_APPROVAL"} => state = pc[p]
      /\ pc[p] \in {"verified", "reverify"} => state = "VERIFYING"
      /\ pc[p] = "repaired" => state = "REPAIRING"
      /\ pc[p] = "fixed" => state = "REVIEW_FIXING"
      /\ pc[p] = "documented" => state = "DOCUMENTING"
  BY DEF LegalAt, Legal, WorkflowState
<1>2. {"VERIFYING", "REVIEWING", "DOCUMENTING"} \subseteq PastPlanning \ {"NEW"}
  BY DEF PastPlanning, Unfinished, WorkflowState, TERMINAL_STATES,
         PLANNING_ONLY_STATES
<1>3. CASE VerifyPasses(p)
  <2>1. state' = "VERIFYING" /\ pc'[p] \in {"verified", "lock_review"}
    BY <1>1, <1>3 DEF VerifyPasses, dbVars, GoTo, PcTypeOK
  <2>2. QED
    BY <1>0, <2>1 DEF LegalAt, Legal, Works, Phases, WorkflowState
<1>4. CASE FixDone(p)
  <2>1. state' = "VERIFYING" /\ pc'[p] = "reverify"
    BY <1>1, <1>4, EnterLegally, Transitions DEF FixDone
  <2>2. QED
    BY <1>0, <2>1 DEF LegalAt, Legal, Works, Phases, WorkflowState
<1>5. CASE Repaired(p)
  <2>1. state' = "VERIFYING" /\ pc'[p] = "VERIFYING"
    BY <1>1, <1>5, EnterLegally, Transitions DEF Repaired
  <2>2. QED
    BY <1>0, <2>1, StageIsLegal DEF LegalAt, Works, WorkflowState
<1>6. CASE Decide(p)
  <2>1. state = "READY_FOR_APPROVAL"
    BY <1>1, <1>6 DEF Decide
  <2>2. \/ pc'[p] = "leave"
        \/ pc'[p] = "commit" /\ state' = "READY_FOR_APPROVAL"
    BY <1>6, <2>1, EnterLegally, Transitions DEF Decide, dbVars, GoTo, PcTypeOK
  <2>3. QED
    BY <1>0, <2>2, IdleIsLegal DEF LegalAt, Legal, Works, Phases, WorkflowState
<1>7. CASE \/ VerifyFails(p) \/ BeginReview(p) \/ ReviewApproves(p)
           \/ ReviewObjects(p) \/ AfterReview(p) \/ ReverifyPasses(p)
           \/ ReverifyFails(p)
  <2>1. \/ pc'[p] = "leave"
        \/ pc'[p] \in WorkflowState \ {"NEW"} /\ state' = pc'[p]
    BY <1>1, <1>2, <1>7, EnterLegally, Transitions
       DEF VerifyFails, BeginReview, ReviewApproves, ReviewObjects, AfterReview,
           ReverifyPasses, ReverifyFails, Block, WorkflowState
  <2>2. QED
    BY <1>0, <2>1, IdleIsLegal, StageIsLegal DEF LegalAt, Works
<1>8. QED
  BY <1>3, <1>4, <1>5, <1>6, <1>7 DEF Checking

LEMMA MergingLegal ==
    ASSUME PcTypeOK, NEW p \in Procs, LegalAt(p), Merging(p)
    PROVE  LegalAt(p)'
<1> USE DEF At
<1>0. /\ Command[p] # "cleanup"
      /\ pc[p] \in {"preflight", "lock_merge", "lock_writer"}
            => Command[p] = "merge" /\ state = "COMPLETED"
      /\ pc[p] \in {"commit", "pick", "record", "remove", "delete_branch"}
            => state = IF Command[p] = "merge" THEN "COMPLETED"
                                               ELSE "READY_FOR_APPROVAL"
      /\ pc[p] = "close" => Works(p) /\ state = "READY_FOR_APPROVAL"
  <2>1. pc[p] \notin CleanupPhases
    BY DEF Merging, ConfirmMerge, LockWriterForMerge, SkipMerge, CommitRun,
           Pick, RecordMerge, RemoveMerged, DeleteMergedBranch, Close,
           CleanupPhases, Idle
  <2>2. pc[p] = "close" => pc[p] \notin MergePhases
    BY DEF MergePhases, Idle
  <2>3. QED
    BY <2>1, <2>2 DEF LegalAt, Legal, Works
<1>1. CASE ConfirmMerge(p) \/ LockWriterForMerge(p)
  <2>1. state' = state /\ state = "COMPLETED" /\ Command[p] = "merge"
    BY <1>0, <1>1 DEF ConfirmMerge, LockWriterForMerge, dbVars
  <2>2. pc'[p] \in {"leave", "lock_merge", "commit"}
    BY <1>1 DEF ConfirmMerge, LockWriterForMerge, GoTo, PcTypeOK
  <2>3. CASE pc'[p] = "leave"
    BY <2>3, IdleIsLegal DEF LegalAt
  <2>4. CASE pc'[p] \in {"lock_merge", "commit"}
    BY <2>1, <2>4 DEF LegalAt, Legal, Phases, WorkflowState, MergePhases
  <2>5. QED
    BY <2>2, <2>3, <2>4
<1>2. CASE SkipMerge(p) \/ DeleteMergedBranch(p)
  <2>1. /\ state' = state
        /\ pc'[p] = IF Command[p] = "merge" THEN "leave" ELSE "close"
    BY <1>2 DEF SkipMerge, DeleteMergedBranch, dbVars, GoTo, PcTypeOK
  <2>2. CASE Command[p] = "merge"
    BY <2>1, <2>2, IdleIsLegal DEF LegalAt
  <2>3. CASE Command[p] # "merge"
    <3>1. state = "READY_FOR_APPROVAL"
      BY <1>0, <1>2, <2>3 DEF SkipMerge, DeleteMergedBranch
    <3>2. QED
      BY <1>0, <2>1, <2>3, <3>1 DEF LegalAt, Legal, Phases, WorkflowState
  <2>4. QED
    BY <2>2, <2>3
<1>3. CASE CommitRun(p) \/ Pick(p) \/ RecordMerge(p) \/ RemoveMerged(p)
  <2>1. /\ state' = state
        /\ pc[p] \in {"commit", "pick", "record", "remove"}
        /\ pc'[p] \in {"pick", "record", "remove", "delete_branch"}
    BY <1>3 DEF CommitRun, Pick, RecordMerge, RemoveMerged, dbVars, GoTo,
                PcTypeOK
  <2>2. QED
    BY <1>0, <2>1 DEF LegalAt, Legal, Phases, WorkflowState, MergePhases
<1>4. CASE Close(p)
  <2>1. pc'[p] = "leave"
    BY <1>0, <1>4, EnterLegally, Transitions DEF Close
  <2>2. QED
    BY <2>1, IdleIsLegal DEF LegalAt
<1>5. QED
  BY <1>1, <1>2, <1>3, <1>4 DEF Merging

\* A resume begins at the stage it read; a blocked run is one that its history
\* names a stage for.
LEMMA ResumingLegal ==
    ASSUME TypeOK, RecoverInv, NEW p \in Procs, LegalAt(p), Resuming(p)
    PROVE  LegalAt(p)'
<1> USE DEF At
<1>0. PcTypeOK /\ DbOK /\ seen \in [Procs -> WorkflowState]
  BY TypeParts DEF RestOK
<1>1. Works(p)
  BY WorksWhere DEF Resuming, Recover, Dispatch, OpenTree, LookAtDiff,
                    RecreateTree, RecreateBranch, Restart, MergePhases,
                    CleanupPhases, Idle
<1>2. CASE Recover(p)
  <2>1. CASE blockedFrom \in {"none", "NEW"}
    <3>1. pc'[p] = "leave"
      BY <1>0, <1>2, <2>1 DEF Recover, GoTo, PcTypeOK
    <3>2. QED
      BY <3>1, IdleIsLegal DEF LegalAt
  <2>2. CASE blockedFrom \notin {"none", "NEW"}
    <3>1. /\ pc'[p] = "lock"
          /\ state' = blockedFrom
          /\ seen'[p] = blockedFrom
      BY <1>0, <1>2, <2>2 DEF Recover, GoTo, PcTypeOK, update_run_state
    <3>2. blockedFrom \in Unfinished
      BY <1>0, <2>2 DEF RecoverInv, DbOK, Unfinished
    <3>3. Command[p] = "resume"
      BY <1>2 DEF Recover, LegalAt, Legal
    <3>4. QED
      BY <3>1, <3>2, <3>3 DEF LegalAt, Legal, Phases, WorkflowState
  <2>3. QED
    BY <2>1, <2>2
<1>3. CASE Dispatch(p)
  <2>1. state = seen[p] /\ state \in Unfinished
    BY <1>3 DEF Dispatch, LegalAt, Legal
  <2>2. CASE seen[p] \in RECOVERABLE_PLANNING_STATES
    <3>1. pc'[p] = "PLANNING" /\ state' = "PLANNING"
      BY <1>0, <1>3, <2>1, <2>2, EnterLegally, Transitions
         DEF Dispatch, GoTo, PcTypeOK, dbVars, RECOVERABLE_PLANNING_STATES,
             PLANNING_ONLY_STATES
    <3>2. QED
      BY <1>1, <3>1, StageIsLegal DEF LegalAt, Works, WorkflowState
  <2>3. CASE seen[p] = "PLAN_APPROVED"
    <3>1. pc'[p] = "leave"
      BY <1>0, <1>3, <2>3
         DEF Dispatch, GoTo, PcTypeOK, RECOVERABLE_PLANNING_STATES
    <3>2. QED
      BY <3>1, IdleIsLegal DEF LegalAt
  <2>4. CASE seen[p] \notin RECOVERABLE_PLANNING_STATES \cup {"PLAN_APPROVED"}
    <3>1. state \in PastPlanning
      BY <2>1, <2>4 DEF PastPlanning, RECOVERABLE_PLANNING_STATES
    <3>2. pc'[p] = "open_tree" /\ UNCHANGED state
      BY <1>0, <1>3, <2>4
         DEF Dispatch, GoTo, PcTypeOK, dbVars, RECOVERABLE_PLANNING_STATES,
             PLANNING_ONLY_STATES
    <3>3. QED
      BY <1>1, <3>1, <3>2 DEF LegalAt, Legal, Works, Phases, WorkflowState
  <2>5. QED
    BY <2>2, <2>3, <2>4
<1>4. CASE \/ OpenTree(p) \/ LookAtDiff(p) \/ RecreateTree(p)
           \/ RecreateBranch(p) \/ Restart(p)
  <2>1. state \in PastPlanning
    BY <1>4 DEF OpenTree, LookAtDiff, RecreateTree, RecreateBranch, Restart,
                LegalAt, Legal
  <2>2. \/ pc'[p] = "leave"
        \/ /\ pc'[p] \in {"clear_writer", "diff", "recreate",
                          "recreate_branch", "restart"}
           /\ state' = state
        \/ pc'[p] \in {"VERIFYING", "TASK_CLASSIFIED"} /\ state' = pc'[p]
    BY <1>0, <1>4 DEF OpenTree, LookAtDiff, RecreateTree, RecreateBranch,
                      Restart, GoTo, PcTypeOK, dbVars, update_run_state
  <2>3. CASE pc'[p] \in {"leave", "VERIFYING", "TASK_CLASSIFIED"}
    BY <1>1, <2>2, <2>3, IdleIsLegal, StageIsLegal
       DEF LegalAt, Works, WorkflowState
  <2>4. CASE pc'[p] \in {"clear_writer", "diff", "recreate", "recreate_branch",
                         "restart"}
    BY <1>1, <2>1, <2>2, <2>4 DEF LegalAt, Legal, Works, Phases, WorkflowState
  <2>5. QED
    BY <2>2, <2>3, <2>4
<1>5. QED
  BY <1>2, <1>3, <1>4 DEF Resuming

\* Starting a command, cleaning up, and what else ends a phase.
LEMMA StartingLegal ==
    ASSUME TypeOK, Fresh, NEW p \in Procs, Start(p)
    PROVE  LegalAt(p)'
<1>0. PcTypeOK /\ DbOK /\ seen \in [Procs -> WorkflowState]
  BY TypeParts DEF RestOK
<1>1. CASE StartComplete(p)
  <2>1. pc'[p] = "lock" /\ Command[p] = "complete" /\ state' = state
    BY <1>0, <1>1 DEF StartComplete, MayStart, GoTo, PcTypeOK, dbVars
  <2>2. state = "NEW"
    BY <1>1 DEF StartComplete, Fresh
  <2>3. QED
    BY <2>1, <2>2 DEF LegalAt, Legal, Phases, WorkflowState
<1>2. CASE StartResume(p)
  <2>1. /\ Command[p] = "resume"
        /\ state' = state
        /\ seen'[p] = state
        /\ pc'[p] = IF state = "BLOCKED" THEN "recover"
                    ELSE IF state \in TERMINAL_STATES \cup {"NEW"} THEN "leave"
                    ELSE "lock"
    BY <1>0, <1>2 DEF StartResume, MayStart, GoTo, PcTypeOK, dbVars
  <2>2. CASE pc'[p] = "leave"
    BY <2>2, IdleIsLegal DEF LegalAt
  <2>3. CASE pc'[p] = "recover"
    BY <2>1, <2>3 DEF LegalAt, Legal, Phases, WorkflowState
  <2>4. CASE pc'[p] = "lock"
    BY <1>0, <2>1, <2>4
       DEF DbOK, LegalAt, Legal, Phases, WorkflowState, Unfinished
  <2>5. QED
    BY <2>1, <2>2, <2>3, <2>4
<1>3. CASE StartMerge(p)
  <2>1. /\ Command[p] = "merge"
        /\ state' = state
        /\ pc'[p] = IF state = "COMPLETED" THEN "preflight" ELSE "leave"
    BY <1>0, <1>3 DEF StartMerge, MayStart, GoTo, PcTypeOK, dbVars
  <2>2. QED
    BY <2>1, IdleIsLegal DEF LegalAt, Legal, Phases, WorkflowState, MergePhases
<1>4. CASE StartCleanup(p)
  <2>1. Command[p] = "cleanup" /\ pc'[p] \in {"list", "clear_lock"}
    BY <1>0, <1>4 DEF StartCleanup, MayStart, GoTo, PcTypeOK
  <2>2. QED
    BY <2>1 DEF LegalAt, Legal, Phases, WorkflowState, CleanupPhases
<1>5. QED
  BY <1>1, <1>2, <1>3, <1>4 DEF Start

LEMMA CleaningLegal ==
    ASSUME PcTypeOK, NEW p \in Procs, LegalAt(p), Cleaning(p)
    PROVE  LegalAt(p)'
<1>1. Command[p] # "merge"
  BY DEF Cleaning, ListRuns, CheckTree, JudgeTree, CleanupTree, CleanupBranch,
         At, LegalAt, Legal, MergePhases, Idle
<1>2. pc'[p] \in {"check", "clear_check", "judge", "cleanup", "cleanup_branch",
                  "leave"}
  BY DEF Cleaning, ListRuns, CheckTree, JudgeTree, CleanupTree, CleanupBranch,
         GoTo, PcTypeOK
<1>3. QED
  BY <1>1, <1>2, IdleIsLegal
     DEF LegalAt, Legal, Phases, WorkflowState, CleanupPhases

LEMMA RestLegal ==
    ASSUME PcTypeOK, NEW p \in Procs, LegalAt(p),
           \/ LosesTree(p) \/ Crash(p) \/ Leave(p) \/ ReleaseBetweenPhases(p)
    PROVE  LegalAt(p)'
<1>1. CASE LosesTree(p) \/ Crash(p) \/ Leave(p)
  <2>1. pc'[p] \in {"leave", "dead", "done"}
    BY <1>1 DEF LosesTree, Crash, Leave, GoTo, PcTypeOK
  <2>2. QED
    BY <2>1, IdleIsLegal DEF LegalAt, Idle
<1>2. CASE ReleaseBetweenPhases(p)
  BY <1>2 DEF ReleaseBetweenPhases, procVars, procData, dbVars, LegalAt
<1>3. QED
  BY <1>1, <1>2

\* A lock that has been acquired leads on to where it is needed.
LEMMA AcquiringLegal ==
    ASSUME PcTypeOK, NEW p \in Procs, LegalAt(p), Acquiring(p)
    PROVE  LegalAt(p)'
<1> USE DEF At
<1>1. UNCHANGED <<state, seen>>
  BY DEF Acquiring, Examine, UnlinkRunLock, CreateRunLock, UnlinkWriterLock,
         CreateWriterLock, ReleaseCleared, dbVars, procData
<1>2. \/ pc'[p] = pc[p]
      \/ pc'[p] = "leave"
      \/ CreateRunLock(p) /\ pc'[p] = WithRunLock(p)
      \/ pc[p] = "clear_writer" /\ pc'[p] = "cleared_writer"
      \/ pc[p] = "cleared_writer" /\ pc'[p] = "diff"
      \/ pc[p] = "clear_check" /\ pc'[p] = "cleared_check"
      \/ pc[p] = "cleared_check" /\ pc'[p] = "judge"
      \/ pc[p] = "cleared" /\ pc'[p] = "list"
  BY DEF Acquiring, Examine, UnlinkRunLock, CreateRunLock, UnlinkWriterLock,
         CreateWriterLock, ReleaseCleared, ClearsWriterLock, GoTo, PcTypeOK
<1>3. CASE pc'[p] = pc[p]
  BY <1>1, <1>3 DEF LegalAt
<1>4. CASE pc'[p] = "leave"
  BY <1>4, IdleIsLegal DEF LegalAt
<1>5. CASE \/ pc[p] = "clear_writer" /\ pc'[p] = "cleared_writer"
           \/ pc[p] = "cleared_writer" /\ pc'[p] = "diff"
  <2>1. Works(p) /\ state \in PastPlanning
    BY <1>5, WorksWhere DEF LegalAt, Legal, MergePhases, CleanupPhases, Idle
  <2>2. QED
    BY <1>1, <1>5, <2>1 DEF LegalAt, Legal, Works, Phases, WorkflowState
<1>6. CASE \/ pc[p] = "clear_check" /\ pc'[p] = "cleared_check"
           \/ pc[p] = "cleared_check" /\ pc'[p] = "judge"
           \/ pc[p] = "cleared" /\ pc'[p] = "list"
  <2>1. Command[p] # "merge"
    BY <1>6 DEF LegalAt, Legal, MergePhases, Idle
  <2>2. QED
    BY <1>6, <2>1 DEF LegalAt, Legal, Phases, WorkflowState, CleanupPhases
<1>7. CASE CreateRunLock(p) /\ pc'[p] = WithRunLock(p)
  <2>1. CASE pc[p] = "lock"
    <3>1. pc'[p] = IF Command[p] = "complete" THEN "NEW" ELSE "dispatch"
      BY <1>7, <2>1 DEF WithRunLock
    <3>2. \/ Command[p] = "complete" /\ state = "NEW"
          \/ /\ Command[p] = "resume"
             /\ state = seen[p]
             /\ state \in Unfinished
      BY <2>1 DEF LegalAt, Legal
    <3>3. QED
      BY <1>1, <3>1, <3>2 DEF LegalAt, Legal, Phases, WorkflowState
  <2>2. CASE pc[p] \in {"lock_implement", "lock_review"}
    <3>1. pc'[p] = IF pc[p] = "lock_implement" THEN "TASK_CLASSIFIED"
                                               ELSE "verified"
      BY <1>7, <2>2 DEF WithRunLock
    <3>2. /\ Works(p)
          /\ state = IF pc[p] = "lock_implement" THEN "TASK_CLASSIFIED"
                                                 ELSE "VERIFYING"
      BY <2>2, WorksWhere DEF LegalAt, Legal, MergePhases, CleanupPhases, Idle
    <3>3. QED
      BY <1>1, <3>1, <3>2 DEF LegalAt, Legal, Works, Phases, WorkflowState
  <2>3. CASE pc[p] = "lock_merge"
    <3>1. pc'[p] = "lock_writer"
      BY <1>7, <2>3 DEF WithRunLock
    <3>2. Command[p] = "merge" /\ state = "COMPLETED"
      BY <2>3 DEF LegalAt, Legal
    <3>3. QED
      BY <1>1, <3>1, <3>2 DEF LegalAt, Legal, Phases, WorkflowState, MergePhases
  <2>4. CASE pc[p] = "clear_lock"
    <3>1. pc'[p] = "cleared"
      BY <1>7, <2>4 DEF WithRunLock
    <3>2. Command[p] # "merge"
      BY <2>4 DEF LegalAt, Legal, MergePhases, Idle
    <3>3. QED
      BY <3>1, <3>2 DEF LegalAt, Legal, Phases, WorkflowState, CleanupPhases
  <2>5. QED
    BY <1>7, <2>1, <2>2, <2>3, <2>4 DEF CreateRunLock, AcquiresRunLock
<1>8. QED
  BY <1>2, <1>3, <1>4, <1>5, <1>6, <1>7

\* A new run stays new until `complete` is started.
LEMMA NewStays ==
    ASSUME NEW p \in Procs, LegalAt(p), AnyStep(p),
           Command[p] # "complete", state = "NEW"
    PROVE  state' = "NEW"
<1> USE DEF At
<1>1. pc[p] \in CleanupPhases
  BY DEF LegalAt, Legal, Phases, WorkflowState, Unfinished, PastPlanning, Idle,
         CleanupPhases
<1>2. CASE \/ Start(p) \/ Cleaning(p) \/ Crash(p) \/ Leave(p) \/ LosesTree(p)
           \/ ReleaseBetweenPhases(p) \/ Acquiring(p) \/ Orphaned(p)
  BY <1>2 DEF Start, StartComplete, StartResume, StartMerge, StartCleanup,
              Cleaning, ListRuns, CheckTree, JudgeTree, CleanupTree,
              CleanupBranch, Crash, Leave, LosesTree, ReleaseBetweenPhases,
              Acquiring, Examine, UnlinkRunLock, CreateRunLock,
              UnlinkWriterLock, CreateWriterLock, ReleaseCleared, Orphaned,
              OrphanEdits, OrphanEnds, dbVars
<1>3. ~Planning(p) /\ ~Implementing(p) /\ ~Editing(p)
  BY <1>1 DEF Planning, Discover, StartPlanning, PlannerTurn, UserAnswers,
              PlanDecision, Classify, Implementing, CreateWorktree,
              StartImplementing, EndImplementing, Editing, TakeWriterLock, Edit,
              EndEdit, ReleaseWriterLock, AgentFailed, EditStages, Idle,
              CleanupPhases
<1>4. ~Checking(p) /\ ~Merging(p) /\ ~Resuming(p)
  BY <1>1 DEF Checking, VerifyPasses, VerifyFails, Repaired, BeginReview,
              ReviewApproves, ReviewObjects, FixDone, AfterReview,
              ReverifyPasses, ReverifyFails, Decide, Merging, ConfirmMerge,
              LockWriterForMerge, SkipMerge, CommitRun, Pick, RecordMerge,
              RemoveMerged, DeleteMergedBranch, Close, Resuming, Recover,
              Dispatch, OpenTree, LookAtDiff, RecreateTree, RecreateBranch,
              Restart, Idle, CleanupPhases
<1>5. QED
  BY <1>2, <1>3, <1>4 DEF AnyStep

\* Nobody who has been started is "off" again.
LEMMA StepLeavesOff ==
    ASSUME PcTypeOK, NEW p \in Procs, AnyStep(p), pc'[p] = "off"
    PROVE  FALSE
<1> USE DEF At, GoTo, Enter, Block, PcTypeOK
<1>1. ~Planning(p) /\ ~Implementing(p) /\ ~Editing(p)
  BY DEF Planning, Discover, StartPlanning, PlannerTurn, UserAnswers,
         PlanDecision, Classify, Implementing, CreateWorktree,
         StartImplementing, EndImplementing, Editing, TakeWriterLock, Edit,
         EndEdit, ReleaseWriterLock, AgentFailed, EditStages, procVars
<1>2. ~Checking(p) /\ ~Merging(p) /\ ~Resuming(p)
  BY DEF Checking, VerifyPasses, VerifyFails, Repaired, BeginReview,
         ReviewApproves, ReviewObjects, FixDone, AfterReview, ReverifyPasses,
         ReverifyFails, Decide, Merging, ConfirmMerge, LockWriterForMerge,
         SkipMerge, CommitRun, Pick, RecordMerge, RemoveMerged,
         DeleteMergedBranch, Close, Resuming, Recover, Dispatch, OpenTree,
         LookAtDiff, RecreateTree, RecreateBranch, Restart
<1>3. ~Start(p) /\ ~Cleaning(p) /\ ~LosesTree(p) /\ ~Crash(p) /\ ~Leave(p)
  BY DEF Start, StartComplete, StartResume, StartMerge, StartCleanup, Cleaning,
         ListRuns, CheckTree, JudgeTree, CleanupTree, CleanupBranch, LosesTree,
         Crash, Leave
<1>4. ~ReleaseBetweenPhases(p) /\ ~Orphaned(p)
  BY DEF ReleaseBetweenPhases, Orphaned, OrphanEdits, OrphanEnds, Dead, procVars
<1>5. ~Acquiring(p)
  BY DEF Acquiring, Examine, UnlinkRunLock, CreateRunLock, UnlinkWriterLock,
         CreateWriterLock, ReleaseCleared, AcquiresRunLock, ClearsWriterLock,
         WithRunLock
<1>6. QED
  BY <1>1, <1>2, <1>3, <1>4, <1>5 DEF AnyStep

-----------------------------------------------------------------------------
(* No stage is entered from a state that does not lead there *)

\* What is true between any two steps when commands do not overlap.
SerialInv == /\ Alone
             /\ Fresh
             /\ RecoverInv
             /\ \A p \in Procs : LegalAt(p)

LEMMA SerialStep ==
    ASSUME Overlap = FALSE, TypeOK, SerialInv, NEW p \in Procs, AnyStep(p)
    PROVE  SerialInv'
<1> USE DEF SerialInv
<1>0. PcTypeOK /\ DbOK /\ GitOK
  BY TypeParts
<1>1. CASE Orphaned(p)
  <2>1. UNCHANGED <<pc, seen, state, blockedFrom>>
    BY <1>0, <1>1, OrphanStep DEF dbVars
  <2>2. QED
    BY <2>1 DEF Alone, Live, Fresh, At, RecoverInv, TERMINAL_STATES, LegalAt
<1>2. CASE ~Orphaned(p)
  <2>1. Alone' /\ \A q \in Procs \ {p} : pc[q] \in Idle /\ pc'[q] = pc[q]
    BY <1>0, <1>2, StepsAlone
  <2>2. RecoverInv'
    BY <1>0, StepDb, RecoverStep
  <2>3. LegalAt(p)'
    BY <1>0, <1>2, PlanningLegal, ImplementingLegal, EditingLegal,
       CheckingLegal, MergingLegal, ResumingLegal, StartingLegal,
       CleaningLegal, RestLegal, AcquiringLegal DEF AnyStep
  <2>4. \A q \in Procs : LegalAt(q)'
    BY <2>1, <2>3, IdleIsLegal DEF LegalAt
  <2>5. Fresh'
    <3> SUFFICES ASSUME \A q \in Procs :
                           Command[q] = "complete" => pc'[q] = "off"
                 PROVE  state' = "NEW"
      BY DEF Fresh, At
    <3>1. Command[p] # "complete"
      BY <1>0, StepLeavesOff
    <3>2. \A q \in Procs : Command[q] = "complete" => At(q, "off")
      BY <2>1, <3>1 DEF At
    <3>3. QED
      BY <3>1, <3>2, NewStays DEF Fresh
  <2>6. QED
    BY <2>1, <2>2, <2>4, <2>5
<1>3. QED
  BY <1>1, <1>2

\* The state of a run is the one its command thinks it is in, whatever commands
\* came before and wherever they died.
LEMMA Serial ==
    ASSUME Overlap = FALSE
    PROVE  Spec => []SerialInv
<1>1. Init => SerialInv
  <2> SUFFICES ASSUME Init PROVE SerialInv
    OBVIOUS
  <2>1. \A p \in Procs : pc[p] = "off"
    BY DEF Init
  <2>2. \A p \in Procs : LegalAt(p)
    BY <2>1, IdleIsLegal DEF LegalAt, Idle
  <2>3. QED
    BY <2>1, <2>2 DEF Init, StoreInit, SerialInv, Alone, Live, Fresh, RecoverInv
<1>2. TypeOK /\ SerialInv /\ [Next]_vars => SerialInv'
  <2> SUFFICES ASSUME TypeOK, SerialInv, [Next]_vars
               PROVE  SerialInv'
    OBVIOUS
  <2>1. CASE UNCHANGED vars
    BY <2>1 DEF vars, dbVars, procVars, procData, SerialInv, Alone, Live,
                Fresh, At, RecoverInv, LegalAt
  <2>2. CASE Next
    BY <2>2, SerialStep DEF Next, AnyStep
  <2>3. QED
    BY <2>1, <2>2
<1>3. QED
  BY <1>1, <1>2, TypeCorrect, PTL DEF Spec

\* Commands of one run that do not overlap never raise
\* InvalidStateTransitionError: every stage they are resumed at accepts the
\* transitions they make.
THEOREM StagesFit ==
    ASSUME Overlap = FALSE
    PROVE  Spec => []NoInvalidTransition
<1>1. SerialInv => NoInvalidTransition
  BY DEF SerialInv, LegalAt, Legal, NoInvalidTransition, At
<1>2. QED
  BY <1>1, Serial, PTL

-----------------------------------------------------------------------------
(* A run that has ended stays ended *)

LEMMA EndedStays ==
    ASSUME NEW p \in Procs, LegalAt(p), AnyStep(p), Ended
    PROVE  state' = state
<1> USE DEF At
<1>1. pc[p] \in Idle \cup MergePhases \cup CleanupPhases
                  \cup {"COMPLETED", "CANCELLED"}
  BY DEF LegalAt, Legal, Ended, Phases, WorkflowState, Unfinished,
         TERMINAL_STATES, PastPlanning, MergePhases, CleanupPhases, Idle
<1>2. CASE \/ Start(p) \/ Cleaning(p) \/ Crash(p) \/ Leave(p) \/ LosesTree(p)
           \/ ReleaseBetweenPhases(p) \/ Acquiring(p) \/ Orphaned(p)
  BY <1>2 DEF Start, StartComplete, StartResume, StartMerge, StartCleanup,
              Cleaning, ListRuns, CheckTree, JudgeTree, CleanupTree,
              CleanupBranch, Crash, Leave, LosesTree, ReleaseBetweenPhases,
              Acquiring, Examine, UnlinkRunLock, CreateRunLock,
              UnlinkWriterLock, CreateWriterLock, ReleaseCleared, Orphaned,
              OrphanEdits, OrphanEnds, dbVars
<1>3. CASE Merging(p)
  BY <1>1, <1>3
     DEF Merging, ConfirmMerge, LockWriterForMerge, SkipMerge, CommitRun, Pick,
         RecordMerge, RemoveMerged, DeleteMergedBranch, Close, dbVars, Idle,
         MergePhases, CleanupPhases
<1>4. ~Planning(p) /\ ~Implementing(p) /\ ~Editing(p)
  BY <1>1 DEF Planning, Discover, StartPlanning, PlannerTurn, UserAnswers,
              PlanDecision, Classify, Implementing, CreateWorktree,
              StartImplementing, EndImplementing, Editing, TakeWriterLock, Edit,
              EndEdit, ReleaseWriterLock, AgentFailed, EditStages, Idle,
              MergePhases, CleanupPhases
<1>5. ~Checking(p) /\ ~Resuming(p)
  BY <1>1 DEF Checking, VerifyPasses, VerifyFails, Repaired, BeginReview,
              ReviewApproves, ReviewObjects, FixDone, AfterReview,
              ReverifyPasses, ReverifyFails, Decide, Resuming, Recover,
              Dispatch, OpenTree, LookAtDiff, RecreateTree, RecreateBranch,
              Restart, Idle, MergePhases, CleanupPhases
<1>6. QED
  BY <1>2, <1>3, <1>4, <1>5 DEF AnyStep

\* As long as commands do not overlap, a completed or cancelled run is never
\* reopened: no resume, merge or cleanup of it changes its state, however often
\* they are tried.
THEOREM EndedForGood ==
    ASSUME Overlap = FALSE
    PROVE  Spec => TerminalIsFinal
<1>1. SerialInv /\ [Next]_vars => (Ended => state' = state)
  <2> SUFFICES ASSUME SerialInv, [Next]_vars, Ended
               PROVE  state' = state
    OBVIOUS
  <2>1. CASE UNCHANGED vars
    BY <2>1 DEF vars, dbVars
  <2>2. CASE Next
    BY <2>2, EndedStays DEF Next, AnyStep, SerialInv
  <2>3. QED
    BY <2>1, <2>2
<1>2. QED
  BY <1>1, Serial, PTL DEF Spec, TerminalIsFinal

-----------------------------------------------------------------------------
(* What agents have edited is kept until it is merged or given up *)

\* Phases entered only when what the removal they lead to relies on holds.
ListedPhases == {"check", "clear_check", "cleared_check", "judge", "cleanup"}
TidyPhases == {"remove", "recreate"} \cup ListedPhases

\* A worktree is removed once it is merged, when it is empty, or by a cleanup
\* that has looked at the run as it still is; only an agent without a process
\* may have written into it since.
TidyAt(p) ==
    /\ At(p, "remove") => merged
    /\ At(p, "recreate") => DiffIsEmpty \/ tree.files \in stray
    /\ pc[p] \in ListedPhases => seen[p] = state
    /\ At(p, "cleanup")
          => /\ state \in TERMINAL_STATES
             /\ state = "COMPLETED" => ~HasUnmergedWork \/ tree.files \in stray

TidyInv == \A p \in Procs : TidyAt(p)

\* The steps that enter these phases.
EntersTidy(p) == \/ RecordMerge(p)
                 \/ LookAtDiff(p)
                 \/ ListRuns(p)
                 \/ CheckTree(p)
                 \/ JudgeTree(p)
                 \/ Acquiring(p)

LEMMA OthersNotTidy ==
    ASSUME PcTypeOK, NEW p \in Procs, AnyStep(p), ~Orphaned(p),
           ~EntersTidy(p)
    PROVE  pc'[p] \notin TidyPhases
<1> USE DEF At, GoTo, Enter, Block, PcTypeOK, EntersTidy, TidyPhases,
            ListedPhases
<1>1. CASE Planning(p) \/ Implementing(p)
  BY <1>1 DEF Planning, Discover, StartPlanning, PlannerTurn, UserAnswers,
              PlanDecision, Classify, Implementing, CreateWorktree,
              StartImplementing, EndImplementing
<1>2. CASE Editing(p)
  BY <1>2 DEF Editing, TakeWriterLock, Edit, EndEdit, ReleaseWriterLock,
              AgentFailed, EditStages, procVars
<1>3. CASE Checking(p)
  BY <1>3 DEF Checking, VerifyPasses, VerifyFails, Repaired, BeginReview,
              ReviewApproves, ReviewObjects, FixDone, AfterReview,
              ReverifyPasses, ReverifyFails, Decide
<1>4. CASE Merging(p)
  BY <1>4 DEF Merging, ConfirmMerge, LockWriterForMerge, SkipMerge, CommitRun,
              Pick, RemoveMerged, DeleteMergedBranch, Close
<1>5. CASE Resuming(p)
  BY <1>5 DEF Resuming, Recover, Dispatch, OpenTree, RecreateTree,
              RecreateBranch, Restart
<1>6. CASE Cleaning(p) \/ Start(p)
  BY <1>6 DEF Cleaning, CleanupTree, CleanupBranch, Start, StartComplete,
              StartResume, StartMerge, StartCleanup
<1>7. CASE LosesTree(p) \/ Crash(p) \/ Leave(p) \/ ReleaseBetweenPhases(p)
  BY <1>7 DEF LosesTree, Crash, Leave, ReleaseBetweenPhases, procVars
<1>8. QED
  BY <1>1, <1>2, <1>3, <1>4, <1>5, <1>6, <1>7 DEF AnyStep

\* ... and these do so in order.
LEMMA EntersTidily ==
    ASSUME TypeOK, NEW p \in Procs, TidyAt(p), EntersTidy(p)
    PROVE  TidyAt(p)'
<1> USE DEF At, GoTo, PcTypeOK, ListedPhases
<1>0. PcTypeOK /\ seen \in [Procs -> WorkflowState]
  BY TypeParts DEF RestOK
<1>1. CASE RecordMerge(p)
  BY <1>0, <1>1 DEF RecordMerge, TidyAt
<1>2. CASE LookAtDiff(p)
  <2>1. pc'[p] \in {"recreate", "VERIFYING"}
    BY <1>0, <1>2 DEF LookAtDiff
  <2>2. pc'[p] = "recreate" => DiffIsEmpty /\ UNCHANGED tree
    BY <1>0, <1>2 DEF LookAtDiff, gitVars
  <2>3. QED
    BY <2>1, <2>2 DEF TidyAt, DiffIsEmpty
<1>3. CASE ListRuns(p)
  BY <1>0, <1>3 DEF ListRuns, TidyAt, dbVars
<1>4. CASE CheckTree(p)
  <2>1. /\ pc[p] = "check"
        /\ pc'[p] \in {"judge", "clear_check", "leave"}
        /\ UNCHANGED <<seen, state>>
    BY <1>0, <1>4 DEF CheckTree, dbVars, Frame, procData
  <2>2. QED
    BY <2>1 DEF TidyAt
<1>5. CASE JudgeTree(p)
  <2>1. /\ pc[p] = "judge"
        /\ \/ pc'[p] = "leave"
           \/ /\ pc'[p] = "cleanup"
              /\ seen[p] \in TERMINAL_STATES
              /\ seen[p] = "COMPLETED" => ~HasUnmergedWork
        /\ UNCHANGED <<seen, state, merged, tree>>
    BY <1>0, <1>5 DEF JudgeTree, dbVars, gitVars, Frame, procData
  <2>2. QED
    BY <2>1 DEF TidyAt, HasUnmergedWork, DiffIsEmpty, TERMINAL_STATES
<1>6. CASE Acquiring(p)
  <2>1. UNCHANGED <<seen, state>>
    BY <1>6 DEF Acquiring, Examine, UnlinkRunLock, CreateRunLock,
                UnlinkWriterLock, CreateWriterLock, ReleaseCleared, dbVars,
                procData
  <2>2. /\ pc'[p] \notin {"remove", "recreate", "cleanup"}
        /\ pc'[p] \in ListedPhases => pc[p] \in ListedPhases
    BY <1>0, <1>6 DEF Acquiring, Examine, UnlinkRunLock, CreateRunLock,
                      UnlinkWriterLock, CreateWriterLock, ReleaseCleared,
                      AcquiresRunLock, ClearsWriterLock, WithRunLock
  <2>3. QED
    BY <2>1, <2>2 DEF TidyAt
<1>7. QED
  BY <1>1, <1>2, <1>3, <1>4, <1>5, <1>6 DEF EntersTidy

LEMMA Tidy ==
    ASSUME Overlap = FALSE
    PROVE  Spec => []TidyInv
<1>1. Init => TidyInv
  BY DEF Init, TidyInv, TidyAt, At, ListedPhases
<1>2. TypeOK /\ SerialInv /\ TidyInv /\ [Next]_vars => TidyInv'
  <2> SUFFICES ASSUME TypeOK, SerialInv, TidyInv, [Next]_vars, NEW q \in Procs
               PROVE  TidyAt(q)'
    BY DEF TidyInv
  <2>1. CASE UNCHANGED vars
    BY <2>1 DEF vars, dbVars, gitVars, procVars, procData, history, accidents,
                TidyInv, TidyAt, At, DiffIsEmpty, HasUnmergedWork,
                TERMINAL_STATES
  <2>2. CASE Next
    <3>1. PICK p \in Procs : AnyStep(p)
      BY <2>2 DEF Next, AnyStep
    <3>2. PcTypeOK /\ GitOK
      BY TypeParts
    <3>3. CASE Orphaned(p)
      <4>1. UNCHANGED <<pc, seen, state, merged>> /\ stray \subseteq stray'
        BY <3>2, <3>3, OrphanStep DEF dbVars
      <4>2. UNCHANGED tree \/ tree'.files \in stray'
        BY <3>2, <3>3, OrphanStep
      <4>3. QED
        BY <4>1, <4>2 DEF TidyInv, TidyAt, At, DiffIsEmpty, HasUnmergedWork,
                          TERMINAL_STATES
    <3>4. CASE ~Orphaned(p)
      <4>1. q # p => pc'[q] \notin TidyPhases
        BY <3>1, <3>2, <3>4, StepsAlone
           DEF SerialInv, Idle, TidyPhases, ListedPhases
      <4>2. pc'[q] \notin TidyPhases => TidyAt(q)'
        BY DEF TidyAt, At, TidyPhases, ListedPhases
      <4>3. QED
        BY <3>1, <3>2, <3>4, <4>1, <4>2, OthersNotTidy, EntersTidily
           DEF TidyInv
    <3>5. QED
      BY <3>3, <3>4
  <2>3. QED
    BY <2>1, <2>2
<1>3. QED
  BY <1>1, <1>2, TypeCorrect, Serial, PTL DEF Spec

\* As long as commands do not overlap, uncommitted edits of a run that is not
\* merged disappear only when the run ended otherwise than by completing: no
\* resume and no cleanup removes a worktree with edits of a run that goes on or
\* that is completed, unless an agent made them that has outlived its process.
THEOREM EditsAreKept ==
    ASSUME Overlap = FALSE
    PROVE  Spec => UnmergedEditsKept
<1>1. TypeOK /\ OwnPhases /\ TidyInv /\ [Next]_vars
      => (~merged /\ tree.exists /\ ~DiffIsEmpty /\ ~tree'.exists
            => \/ state \in TERMINAL_STATES \ {"COMPLETED"}
               \/ tree.files \in stray)
  <2> SUFFICES ASSUME TypeOK, OwnPhases, TidyInv, [Next]_vars,
                      ~merged, tree.exists, ~DiffIsEmpty, ~tree'.exists
               PROVE  \/ state \in TERMINAL_STATES \ {"COMPLETED"}
                      \/ tree.files \in stray
    OBVIOUS
  <2>1. PICK p \in Procs : AnyStep(p)
    BY DEF Next, AnyStep, vars, gitVars
  <2>2. pc[p] \in RemovalPhases
    <3>1. GitOK
      BY TypeParts
    <3>2. CASE GateStep(p)
      BY <3>2 DEF GateStep, TreeStep
    <3>3. CASE Decide(p)
      BY <3>3 DEF Decide, gitVars
    <3>4. CASE CommitRun(p)
      <4>1. tree' = [tree EXCEPT !.head = tree.files, !.commits = 1]
        BY <3>4, Zenon DEF CommitRun, commit
      <4>2. QED
        BY <3>1, <4>1 DEF GitOK, Trees
    <3>5. QED
      BY <2>1, <3>1, <3>2, <3>3, <3>4, PlanningGate, ImplementingGate,
         EditingGate, CheckingGate, MergingGate, ResumingGate, RestGate,
         AcquiringGate, OrphanedGate DEF AnyStep
  <2>3. QED
    BY <2>2 DEF RemovalPhases, TidyInv, TidyAt, At, HasUnmergedWork,
                ListedPhases
<1>2. QED
  BY <1>1, TypeCorrect, GateGuarded, Tidy, PTL DEF Spec, UnmergedEditsKept

-----------------------------------------------------------------------------
(* What lands has passed every gate *)

Landing == {"preflight", "lock_merge", "lock_writer", "commit", "pick",
            "record", "remove", "delete_branch", "close"}

\* Phases in which the files of the worktree have been verified, have been
\* reviewed, and have been shown to the user who chose to merge them, unless an
\* agent without a process wrote to them.
VerifiedPhases == Landing \cup {"lock_review", "verified", "REVIEWING",
                          "REVIEW_APPROVED", "READY_FOR_APPROVAL"}
ReviewedPhases == Landing \cup {"REVIEW_APPROVED", "DOCUMENTING", "documented",
                          "READY_FOR_APPROVAL"}
ApprovedPhases == {"lock_merge", "lock_writer", "commit"}

Gates == (verified \cap reviewed \cap approved) \cup stray

GatedAt(p) ==
    /\ tree.exists =>
          /\ pc[p] \in VerifiedPhases => tree.files \in verified \cup stray
          /\ pc[p] \in ReviewedPhases => tree.files \in reviewed \cup stray
          /\ pc[p] \in ApprovedPhases => tree.files \in approved \cup stray
    /\ At(p, "pick") => tree.head \in Gates

\* What a completed run leaves for `merge` is verified and reviewed.
CompletedGated ==
    state = "COMPLETED" /\ tree.exists
        => tree.files \in (verified \cap reviewed) \cup stray

GatedInv == /\ \A p \in Procs : GatedAt(p)
            /\ CompletedGated
            /\ LandedIsGated

HistoryGrows == /\ verified \subseteq verified'
                /\ reviewed \subseteq reviewed'
                /\ approved \subseteq approved'
                /\ stray \subseteq stray'

\* A step that leaves the worktree as it is, or removes it, and moves p past a
\* gate only when the files have passed it.
PassesGates(p) ==
    /\ UNCHANGED landed
    /\ HistoryGrows
    /\ UNCHANGED tree \/ ~tree'.exists
    /\ tree.exists =>
          /\ pc'[p] \in VerifiedPhases =>
                pc[p] \in VerifiedPhases \/ tree.files \in verified' \cup stray'
          /\ pc'[p] \in ReviewedPhases =>
                pc[p] \in ReviewedPhases \/ tree.files \in reviewed' \cup stray'
          /\ pc'[p] \in ApprovedPhases =>
                pc[p] \in ApprovedPhases \/ tree.files \in approved' \cup stray'
    /\ pc'[p] # "pick"

\* Phases behind no gate.
Ungated == Phases \ (VerifiedPhases \cup ReviewedPhases \cup ApprovedPhases)

LEMMA UngatedPasses ==
    ASSUME NEW p \in Procs, pc'[p] \in Ungated,
           UNCHANGED <<landed, verified, reviewed, approved, stray>>,
           UNCHANGED tree \/ ~tree'.exists
    PROVE  PassesGates(p)
BY DEF Ungated, Landing, VerifiedPhases, ReviewedPhases, ApprovedPhases,
       PassesGates, HistoryGrows

LEMMA PlanningPasses ==
    ASSUME PcTypeOK, NEW p \in Procs, Planning(p)
    PROVE  PassesGates(p)
<1>1. pc'[p] \in Ungated
  BY DEF Planning, Discover, StartPlanning, PlannerTurn, UserAnswers,
         PlanDecision, Classify, Enter, Block, GoTo, PcTypeOK, Ungated, Phases,
         WorkflowState, Landing, VerifiedPhases, ReviewedPhases, ApprovedPhases
<1>2. UNCHANGED <<tree, landed, verified, reviewed, approved, stray>>
  BY DEF Planning, gitVars, Frame, history, accidents
<1>3. QED
  BY <1>1, <1>2, UngatedPasses

\* A new worktree has passed nothing.
CreatesTree(p) == /\ At(p, "TASK_CLASSIFIED")
                  /\ create
                  /\ UNCHANGED history
                  /\ pc'[p] \in Ungated

LEMMA ImplementingPasses ==
    ASSUME PcTypeOK, NEW p \in Procs, Implementing(p)
    PROVE  \/ CreatesTree(p)
           \/ PassesGates(p)
<1> USE DEF Implementing, CreateWorktree, StartImplementing, EndImplementing
<1>1. pc'[p] \in Ungated
  BY DEF Enter, Block, GoTo, PcTypeOK, Ungated, Phases, WorkflowState, Landing,
         VerifiedPhases, ReviewedPhases, ApprovedPhases
<1>2. UNCHANGED history
  BY DEF Frame
<1>3. \/ At(p, "TASK_CLASSIFIED") /\ create
      \/ UNCHANGED <<tree, landed>>
  BY DEF gitVars
<1>4. QED
  BY <1>1, <1>2, <1>3, UngatedPasses DEF history, accidents, CreatesTree

LEMMA EditingPasses ==
    ASSUME PcTypeOK, NEW p \in Procs, Editing(p), ~Edit(p)
    PROVE  PassesGates(p)
<1> USE DEF Editing, TakeWriterLock, EndEdit, ReleaseWriterLock, AgentFailed
<1>1. UNCHANGED <<tree, landed, verified, reviewed, approved, stray>>
  BY DEF gitVars, Frame, history, accidents
<1>2. pc'[p] = "documented" => pc[p] = "DOCUMENTING"
  BY DEF At, Enter, Block, GoTo, PcTypeOK, EditStages, procVars
<1>3. \/ pc'[p] = pc[p] /\ pc[p] # "pick"
      \/ pc'[p] \in Ungated \cup {"documented"}
  BY DEF At, Enter, Block, GoTo, PcTypeOK, EditStages, procVars, Ungated,
         Phases, WorkflowState, Landing, VerifiedPhases, ReviewedPhases,
         ApprovedPhases
<1>4. CASE pc'[p] = "documented"
  BY <1>1, <1>2, <1>4 DEF Landing, VerifiedPhases, ReviewedPhases,
                          ApprovedPhases, PassesGates, HistoryGrows
<1>5. CASE pc'[p] = pc[p] /\ pc[p] # "pick"
  BY <1>1, <1>5 DEF PassesGates, HistoryGrows
<1>6. QED
  BY <1>1, <1>3, <1>4, <1>5, UngatedPasses

LEMMA CheckingPasses ==
    ASSUME PcTypeOK, NEW p \in Procs, Checking(p)
    PROVE  PassesGates(p)
<1> USE DEF At, GoTo, PcTypeOK
<1>1. UNCHANGED <<tree, landed>> /\ HistoryGrows
  BY DEF Checking, VerifyPasses, VerifyFails, Repaired, BeginReview,
         ReviewApproves, ReviewObjects, FixDone, AfterReview, ReverifyPasses,
         ReverifyFails, Decide, gitVars, Frame, history,
         accidents, HistoryGrows
<1>2. CASE VerifyPasses(p) \/ ReverifyPasses(p)
  <2>1. tree.files \in verified'
    BY <1>2 DEF VerifyPasses, ReverifyPasses
  <2>2. \/ pc'[p] \in {"verified", "lock_review", "REVIEWING", "invalid"}
        \/ pc'[p] = "READY_FOR_APPROVAL" /\ pc[p] = "documented"
    BY <1>2 DEF VerifyPasses, ReverifyPasses, Enter
  <2>3. QED
    BY <1>1, <2>1, <2>2 DEF PassesGates, Landing, VerifiedPhases,
                            ReviewedPhases, ApprovedPhases
<1>3. CASE ReviewApproves(p)
  <2>1. /\ tree.files \in reviewed'
        /\ pc[p] = "REVIEWING"
        /\ pc'[p] \in {"REVIEW_APPROVED", "invalid"}
    BY <1>3 DEF ReviewApproves, Enter
  <2>2. QED
    BY <1>1, <2>1 DEF PassesGates, Landing, VerifiedPhases, ReviewedPhases,
                      ApprovedPhases
<1>4. CASE Decide(p)
  <2>1. /\ pc[p] = "READY_FOR_APPROVAL"
        /\ \/ pc'[p] \in {"leave", "invalid"}
           \/ pc'[p] = "commit" /\ tree.files \in approved'
    BY <1>4 DEF Decide, Enter
  <2>2. QED
    BY <1>1, <2>1 DEF PassesGates, Landing, VerifiedPhases, ReviewedPhases,
                      ApprovedPhases
<1>5. CASE BeginReview(p) \/ AfterReview(p)
  <2>1. \/ pc'[p] = "invalid"
        \/ pc[p] = "verified" /\ pc'[p] = "REVIEWING"
        \/ /\ pc[p] = "REVIEW_APPROVED"
           /\ pc'[p] \in {"DOCUMENTING", "READY_FOR_APPROVAL"}
    BY <1>5 DEF BeginReview, AfterReview, Enter
  <2>2. QED
    BY <1>1, <2>1 DEF PassesGates, Landing, VerifiedPhases, ReviewedPhases,
                      ApprovedPhases
<1>6. CASE \/ VerifyFails(p) \/ Repaired(p) \/ ReviewObjects(p) \/ FixDone(p)
           \/ ReverifyFails(p)
  <2>1. pc'[p] \in {"REPAIRING", "leave", "VERIFYING", "REVIEW_FIXING",
                    "reverify", "invalid"}
    BY <1>6 DEF VerifyFails, Repaired, ReviewObjects, FixDone, ReverifyFails,
                Enter, Block
  <2>2. QED
    BY <1>1, <2>1 DEF PassesGates, Landing, VerifiedPhases, ReviewedPhases,
                      ApprovedPhases
<1>7. QED
  BY <1>2, <1>3, <1>4, <1>5, <1>6 DEF Checking

LEMMA MergingPasses ==
    ASSUME TypeOK, NEW p \in Procs, Merging(p), ~CommitRun(p), ~Pick(p)
    PROVE  PassesGates(p)
<1> USE DEF At, GoTo, PcTypeOK
<1>0. PcTypeOK /\ GitOK
  BY TypeParts
<1>1. CASE ConfirmMerge(p)
  <2>1. UNCHANGED <<tree, landed>> /\ HistoryGrows
    BY <1>1 DEF ConfirmMerge, gitVars, accidents, HistoryGrows
  <2>2. /\ pc[p] = "preflight"
        /\ \/ pc'[p] = "leave"
           \/ pc'[p] = "lock_merge" /\ tree.files \in approved'
    BY <1>0, <1>1 DEF ConfirmMerge
  <2>3. QED
    BY <2>1, <2>2 DEF PassesGates, Landing, VerifiedPhases, ReviewedPhases,
                      ApprovedPhases
<1>2. CASE LockWriterForMerge(p)
  <2>1. UNCHANGED <<tree, landed, verified, reviewed, approved, stray>>
    BY <1>2 DEF LockWriterForMerge, gitVars, history, accidents
  <2>2. \/ pc'[p] = "leave"
        \/ pc[p] = "lock_writer" /\ pc'[p] = "commit"
    BY <1>0, <1>2 DEF LockWriterForMerge
  <2>3. QED
    BY <2>1, <2>2 DEF PassesGates, HistoryGrows, Landing, VerifiedPhases,
                      ReviewedPhases, ApprovedPhases
<1>3. CASE \/ SkipMerge(p) \/ RecordMerge(p) \/ RemoveMerged(p)
           \/ DeleteMergedBranch(p) \/ Close(p)
  <2>1. UNCHANGED <<landed, verified, reviewed, approved, stray>>
    BY <1>3 DEF SkipMerge, RecordMerge, RemoveMerged, DeleteMergedBranch, Close,
                remove, delete_branch, gitVars, Frame, history, accidents
  <2>2. UNCHANGED tree \/ remove
    BY <1>3 DEF SkipMerge, RecordMerge, RemoveMerged, DeleteMergedBranch, Close,
                delete_branch, gitVars
  <2>3. UNCHANGED tree \/ ~tree'.exists
    BY <1>0, <2>2, TreeRemoved DEF GitOK, remove
  <2>4. /\ pc[p] \in {"commit", "pick", "record", "remove", "delete_branch",
                      "close"}
        /\ pc'[p] \in {"remove", "delete_branch", "close", "leave", "invalid"}
    BY <1>0, <1>3 DEF SkipMerge, RecordMerge, RemoveMerged, DeleteMergedBranch,
                      Close, Enter
  <2>5. QED
    BY <2>1, <2>3, <2>4 DEF PassesGates, HistoryGrows, Landing, VerifiedPhases,
                            ReviewedPhases, ApprovedPhases
<1>4. QED
  BY <1>1, <1>2, <1>3 DEF Merging

LEMMA RemovingPasses ==
    ASSUME TypeOK, NEW p \in Procs, Resuming(p) \/ Cleaning(p)
    PROVE  PassesGates(p)
<1> USE DEF Resuming, Recover, Dispatch, OpenTree, LookAtDiff, RecreateTree,
            RecreateBranch, Restart, Cleaning, ListRuns, CheckTree, JudgeTree,
            CleanupTree, CleanupBranch
<1>0. PcTypeOK /\ GitOK
  BY TypeParts
<1>1. UNCHANGED <<verified, reviewed, approved, stray>>
  BY DEF Frame, history, accidents
<1>2. UNCHANGED <<tree, landed>> \/ remove
  BY DEF delete_branch, gitVars
<1>3. UNCHANGED landed /\ (UNCHANGED tree \/ ~tree'.exists)
  BY <1>0, <1>2, TreeRemoved DEF GitOK, remove
<1>4. pc'[p] \in Ungated
  BY <1>0 DEF Enter, GoTo, PcTypeOK, Ungated, Phases, WorkflowState, Landing,
              VerifiedPhases, ReviewedPhases, ApprovedPhases
<1>5. QED
  BY <1>1, <1>3, <1>4, UngatedPasses

\* Only a completed run is merged, and that has been checked.
LEMMA StartingPasses ==
    ASSUME PcTypeOK, CompletedGated, NEW p \in Procs, Start(p)
    PROVE  PassesGates(p)
<1>1. UNCHANGED <<tree, landed, verified, reviewed, approved, stray>>
  BY DEF Start, StartComplete, StartResume, StartMerge, StartCleanup, gitVars,
         history, accidents
<1>2. CASE StartMerge(p)
  <2>1. \/ pc'[p] = "leave"
        \/ pc'[p] = "preflight" /\ state = "COMPLETED"
    BY <1>2 DEF StartMerge, GoTo, PcTypeOK
  <2>2. QED
    BY <1>1, <2>1 DEF CompletedGated, PassesGates, HistoryGrows, Landing,
                      VerifiedPhases, ReviewedPhases, ApprovedPhases
<1>3. CASE StartComplete(p) \/ StartResume(p) \/ StartCleanup(p)
  <2>1. pc'[p] \in Ungated
    BY <1>3 DEF StartComplete, StartResume, StartCleanup, GoTo, PcTypeOK,
                Ungated, Phases, WorkflowState, Landing, VerifiedPhases,
                ReviewedPhases, ApprovedPhases
  <2>2. QED
    BY <1>1, <2>1, UngatedPasses
<1>4. QED
  BY <1>2, <1>3 DEF Start

LEMMA RestPasses ==
    ASSUME PcTypeOK, NEW p \in Procs,
           \/ LosesTree(p) \/ Crash(p) \/ Leave(p) \/ ReleaseBetweenPhases(p)
    PROVE  PassesGates(p)
<1> USE DEF LosesTree, Crash, Leave, ReleaseBetweenPhases
<1>1. UNCHANGED <<tree, landed, verified, reviewed, approved, stray>>
  BY DEF gitVars, history, accidents
<1>2. \/ pc'[p] \in Ungated
      \/ pc[p] = "lock_review" /\ pc'[p] = "lock_review"
  BY DEF At, GoTo, PcTypeOK, procVars, Ungated, Phases, WorkflowState, Landing,
         VerifiedPhases, ReviewedPhases, ApprovedPhases
<1>3. CASE pc[p] = "lock_review" /\ pc'[p] = "lock_review"
  BY <1>1, <1>3 DEF PassesGates, HistoryGrows, Landing, VerifiedPhases,
                    ReviewedPhases, ApprovedPhases
<1>4. QED
  BY <1>1, <1>2, <1>3, UngatedPasses

\* The locks are acquired between two gates or before the first one.
LEMMA AcquiringPasses ==
    ASSUME PcTypeOK, NEW p \in Procs, Acquiring(p)
    PROVE  PassesGates(p)
<1> USE DEF Acquiring, Examine, UnlinkRunLock, CreateRunLock, UnlinkWriterLock,
            CreateWriterLock, ReleaseCleared
<1>1. UNCHANGED <<tree, landed, verified, reviewed, approved, stray>>
  BY DEF gitVars, history, accidents
<1>2. \/ pc'[p] = pc[p] /\ pc[p] # "pick"
      \/ pc'[p] \in Ungated
      \/ pc[p] = "lock_review" /\ pc'[p] = "verified"
      \/ pc[p] = "lock_merge" /\ pc'[p] = "lock_writer"
  BY DEF AcquiresRunLock, ClearsWriterLock, WithRunLock, At, GoTo, PcTypeOK,
         Ungated, Phases, WorkflowState, Landing, VerifiedPhases,
         ReviewedPhases, ApprovedPhases
<1>3. CASE pc'[p] = pc[p] /\ pc[p] # "pick"
  BY <1>1, <1>3 DEF PassesGates, HistoryGrows
<1>4. CASE \/ pc[p] = "lock_review" /\ pc'[p] = "verified"
           \/ pc[p] = "lock_merge" /\ pc'[p] = "lock_writer"
  BY <1>1, <1>4 DEF PassesGates, HistoryGrows, Landing, VerifiedPhases,
                    ReviewedPhases, ApprovedPhases
<1>5. QED
  BY <1>1, <1>2, <1>3, <1>4, UngatedPasses

\* The steps that keep to the gates, and those that change the files, their
\* commit or the base branch.
LEMMA StepPasses ==
    ASSUME TypeOK, CompletedGated, NEW p \in Procs, AnyStep(p)
    PROVE  \/ PassesGates(p)
           \/ CreatesTree(p)
           \/ Edit(p)
           \/ Orphaned(p)
           \/ CommitRun(p)
           \/ Pick(p)
BY TypeParts, PlanningPasses, ImplementingPasses, EditingPasses, CheckingPasses,
   MergingPasses, RemovingPasses, StartingPasses, RestPasses,
   AcquiringPasses DEF AnyStep

\* A run is completed from the final gate, asked about or not.
LEMMA BecomesCompleted ==
    ASSUME TypeOK, RecoverInv, NEW p \in Procs, AnyStep(p),
           state # "COMPLETED", state' = "COMPLETED"
    PROVE  pc[p] \in {"READY_FOR_APPROVAL", "close"}
<1> USE DEF At, dbVars, Enter, update_run_state
<1>1. CASE Planning(p) \/ Implementing(p) \/ Editing(p)
  BY <1>1 DEF Planning, Discover, StartPlanning, PlannerTurn, UserAnswers,
              PlanDecision, Classify, Implementing, CreateWorktree,
              StartImplementing, EndImplementing, Editing, TakeWriterLock, Edit,
              EndEdit, ReleaseWriterLock, AgentFailed, Block
<1>2. CASE Checking(p)
  BY <1>2 DEF Checking, VerifyPasses, VerifyFails, Repaired, BeginReview,
              ReviewApproves, ReviewObjects, FixDone, AfterReview,
              ReverifyPasses, ReverifyFails, Decide, Block
<1>3. CASE Merging(p)
  BY <1>3 DEF Merging, ConfirmMerge, LockWriterForMerge, SkipMerge, CommitRun,
              Pick, RecordMerge, RemoveMerged, DeleteMergedBranch, Close
<1>4. CASE Resuming(p)
  BY <1>4 DEF Resuming, Recover, Dispatch, OpenTree, LookAtDiff, RecreateTree,
              RecreateBranch, Restart, RecoverInv, TERMINAL_STATES
<1>5. CASE \/ Cleaning(p) \/ Start(p) \/ LosesTree(p) \/ Crash(p) \/ Leave(p)
           \/ ReleaseBetweenPhases(p) \/ Acquiring(p) \/ Orphaned(p)
  BY <1>5 DEF Cleaning, ListRuns, CheckTree, JudgeTree, CleanupTree,
              CleanupBranch, Start, StartComplete, StartResume, StartMerge,
              StartCleanup, LosesTree, Crash, Leave, ReleaseBetweenPhases,
              Acquiring, Examine, UnlinkRunLock, CreateRunLock,
              UnlinkWriterLock, CreateWriterLock, ReleaseCleared, Orphaned,
              OrphanEdits, OrphanEnds
<1>6. QED
  BY <1>1, <1>2, <1>3, <1>4, <1>5 DEF AnyStep

LEMMA GatedStep ==
    ASSUME Overlap = FALSE, TypeOK, SerialInv, GatedInv,
           NEW p \in Procs, AnyStep(p)
    PROVE  GatedInv'
<1> USE DEF GatedInv
<1>0. PcTypeOK /\ GitOK
  BY TypeParts
<1>a. LegalAt(p) /\ RecoverInv /\ Alone
  BY DEF SerialInv
<1>b. CASE Orphaned(p)
  <2>1. /\ UNCHANGED <<pc, state, landed, verified, reviewed, approved>>
        /\ stray \subseteq stray'
        /\ UNCHANGED tree \/ (tree'.head = tree.head /\ tree'.files \in stray')
        /\ tree'.exists = tree.exists
    BY <1>0, <1>b, OrphanStep DEF dbVars, GitOK, Trees
  <2>2. \A q \in Procs : GatedAt(q)'
    BY <2>1 DEF GatedAt, Gates, At, Landing, VerifiedPhases, ReviewedPhases,
                ApprovedPhases
  <2>3. CompletedGated' /\ LandedIsGated'
    BY <2>1 DEF CompletedGated, LandedIsGated
  <2>4. QED
    BY <2>2, <2>3
<1>1. ASSUME ~Orphaned(p), NEW q \in Procs \ {p}
      PROVE  GatedAt(q)'
  <2>1. pc'[q] \in Idle
    BY <1>0, <1>a, <1>1, StepsAlone
  <2>2. QED
    BY <2>1 DEF Idle, GatedAt, At, Landing, VerifiedPhases, ReviewedPhases,
                ApprovedPhases
<1>2. state # "COMPLETED" /\ state' = "COMPLETED"
        => pc[p] \in {"READY_FOR_APPROVAL", "close"}
  BY <1>a, BecomesCompleted
<1>3. CASE ~Orphaned(p) /\ PassesGates(p)
  <2>1. GatedAt(p)'
    BY <1>3 DEF PassesGates, HistoryGrows, GatedAt, At
  <2>2. CompletedGated'
    <3> SUFFICES ASSUME state' = "COMPLETED", tree'.exists
                 PROVE  tree'.files \in (verified' \cap reviewed') \cup stray'
      BY DEF CompletedGated
    <3>1. UNCHANGED tree
      BY <1>3 DEF PassesGates
    <3>2. tree.files \in (verified \cap reviewed) \cup stray
      BY <1>2, <3>1 DEF CompletedGated, GatedAt, Landing, VerifiedPhases,
                        ReviewedPhases
    <3>3. QED
      BY <1>3, <3>1, <3>2 DEF PassesGates, HistoryGrows
  <2>3. LandedIsGated'
    BY <1>3 DEF PassesGates, HistoryGrows, LandedIsGated
  <2>4. QED
    BY <1>1, <1>3, <2>1, <2>2, <2>3
<1>4. CASE ~Orphaned(p) /\ CreatesTree(p)
  <2>1. GatedAt(p)'
    BY <1>4 DEF CreatesTree, Ungated, Landing, VerifiedPhases, ReviewedPhases,
                ApprovedPhases, GatedAt, At
  <2>2. state' # "COMPLETED"
    BY <1>2, <1>4, <1>a DEF CreatesTree, At, LegalAt, Legal, WorkflowState
  <2>3. CompletedGated' /\ LandedIsGated'
    BY <1>4, <2>2 DEF CreatesTree, create, history, accidents,
                      CompletedGated, LandedIsGated
  <2>4. QED
    BY <1>1, <1>4, <2>1, <2>3
<1>5. CASE ~Orphaned(p) /\ Edit(p)
  <2>1. /\ pc[p] \in EditStages /\ pc' = pc
        /\ state' = state
        /\ UNCHANGED <<landed, verified, approved>>
        /\ reviewed \subseteq reviewed' /\ stray \subseteq stray'
    BY <1>5 DEF Edit, AddsTo, write, procVars, dbVars
  <2>2. pc[p] = "DOCUMENTING" /\ tree.files \in reviewed \cup stray
          => edits + 1 \in reviewed' \cup stray'
    BY <1>5 DEF Edit, AddsTo, At
  <2>3. tree'.files = edits + 1
    <3>1. tree' = [tree EXCEPT !.files = edits + 1]
      BY <1>5, Zenon DEF Edit, write
    <3>2. QED
      BY <1>0, <3>1 DEF GitOK, Trees
  <2>4. tree.exists
    BY <1>5 DEF Edit, write
  <2>5. GatedAt(p)'
    BY <2>1, <2>2, <2>3, <2>4
       DEF EditStages, GatedAt, At, Landing, VerifiedPhases, ReviewedPhases,
           ApprovedPhases
  <2>6. state' # "COMPLETED"
    BY <1>a, <2>1 DEF EditStages, LegalAt, Legal, WorkflowState
  <2>7. CompletedGated' /\ LandedIsGated'
    BY <2>1, <2>6 DEF CompletedGated, LandedIsGated
  <2>8. QED
    BY <1>1, <1>5, <2>5, <2>7
<1>6. CASE ~Orphaned(p) /\ CommitRun(p)
  <2>1. /\ pc[p] = "commit" /\ pc'[p] = "pick"
        /\ tree.exists
        /\ UNCHANGED <<state, landed, verified, reviewed, approved, stray>>
    BY <1>0, <1>6 DEF CommitRun, commit, MergeOffered, At, GoTo, PcTypeOK,
                      dbVars, Frame, history, accidents
  <2>2. /\ tree'.head = tree.files
        /\ tree'.files = tree.files
        /\ tree'.exists = tree.exists
    <3>1. tree' = [tree EXCEPT !.head = tree.files, !.commits = 1]
      BY <1>6, Zenon DEF CommitRun, commit
    <3>2. QED
      BY <1>0, <3>1 DEF GitOK, Trees
  <2>3. tree.files \in Gates
    BY <2>1 DEF GatedAt, Gates, Landing, VerifiedPhases, ReviewedPhases,
                ApprovedPhases
  <2>4. GatedAt(p)'
    BY <2>1, <2>2, <2>3 DEF GatedAt, Gates, At, ApprovedPhases
  <2>5. CompletedGated' /\ LandedIsGated'
    BY <2>1, <2>2 DEF CompletedGated, LandedIsGated
  <2>6. QED
    BY <1>1, <1>6, <2>4, <2>5
<1>7. CASE ~Orphaned(p) /\ Pick(p)
  <2>1. /\ pc[p] = "pick" /\ pc'[p] = "record"
        /\ UNCHANGED <<state, tree, verified, reviewed, approved, stray>>
        /\ landed' = Append(landed, tree.head)
    BY <1>0, <1>7 DEF Pick, cherry_pick, At, GoTo, PcTypeOK, dbVars, Frame,
                      history, accidents
  <2>2. GatedAt(p)'
    BY <2>1 DEF GatedAt, At, Landing, VerifiedPhases, ReviewedPhases,
                ApprovedPhases
  <2>3. CompletedGated'
    BY <2>1 DEF CompletedGated
  <2>4. LandedIsGated'
    <3>1. tree.head \in Gates
      BY <2>1 DEF GatedAt, At
    <3>2. landed \in Seq(Versions) /\ tree.head \in Versions
      BY <1>0 DEF GitOK, Trees
    <3>3. \A i \in DOMAIN landed' : landed'[i] \in Gates
      BY <2>1, <3>1, <3>2 DEF LandedIsGated, Gates
    <3>4. QED
      BY <2>1, <3>3 DEF LandedIsGated, Gates
  <2>5. QED
    BY <1>1, <1>7, <2>2, <2>3, <2>4
<1>8. QED
  BY <1>b, <1>3, <1>4, <1>5, <1>6, <1>7, StepPasses

\* As long as commands do not overlap, every commit on the base branch holds a
\* version that passed verification and review exactly as it is and that the
\* user chose to merge, whatever was repaired, fixed, documented, resumed or
\* left by a dead process on the way; unless the agent of a dead process wrote
\* into it.
THEOREM NothingLandsUngated ==
    ASSUME Overlap = FALSE
    PROVE  Spec => []LandedIsGated
<1>1. Init => GatedInv
  BY DEF Init, StoreInit, GatedInv, GatedAt, At, CompletedGated, LandedIsGated,
         NoTree
<1>2. TypeOK /\ SerialInv /\ GatedInv /\ [Next]_vars => GatedInv'
  <2> SUFFICES ASSUME TypeOK, SerialInv, GatedInv, [Next]_vars
               PROVE  GatedInv'
    OBVIOUS
  <2>1. CASE UNCHANGED vars
    BY <2>1 DEF vars, dbVars, gitVars, procVars, history, accidents, GatedInv,
                GatedAt, At, Gates, CompletedGated, LandedIsGated
  <2>2. CASE Next
    BY <2>2, GatedStep DEF Next, AnyStep
  <2>3. QED
    BY <2>1, <2>2
<1>3. GatedInv => LandedIsGated
  BY DEF GatedInv
<1>4. QED
  BY <1>1, <1>2, <1>3, TypeCorrect, Serial, PTL DEF Spec

=============================================================================
