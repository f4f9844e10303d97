---------------------------- MODULE WorkflowStates ----------------------------
(***************************************************************************)
(* The deterministic state machine of a run (workflow/states.py): the      *)
(* states, the transitions transition_run_state() lets through, and the    *)
(* classes of states the orchestrator distinguishes.                       *)
(***************************************************************************)

WorkflowState == {"NEW", "PROJECT_READY", "PLANNING", "WAITING_FOR_USER",
                  "PLAN_READY", "PLAN_APPROVED", "TASK_CLASSIFIED",
                  "WORKTREE_READY", "IMPLEMENTING", "VERIFYING", "REPAIRING",
                  "REVIEWING", "REVIEW_FIXING", "REVIEW_APPROVED",
                  "DOCUMENTING", "READY_FOR_APPROVAL", "COMPLETED", "BLOCKED",
                  "FAILED", "CANCELLED"}

ALLOWED_TRANSITIONS ==
    [NEW                |-> {"PROJECT_READY", "FAILED", "CANCELLED"},
     PROJECT_READY      |-> {"PLANNING", "FAILED", "CANCELLED"},
     PLANNING           |-> {"WAITING_FOR_USER", "PLAN_READY", "BLOCKED",
                             "FAILED", "CANCELLED"},
     WAITING_FOR_USER   |-> {"PLANNING", "BLOCKED", "CANCELLED"},
     PLAN_READY         |-> {"PLANNING", "PLAN_APPROVED", "BLOCKED",
                             "CANCELLED"},
     PLAN_APPROVED      |-> {"TASK_CLASSIFIED", "FAILED"},
     TASK_CLASSIFIED    |-> {"WORKTREE_READY", "BLOCKED", "FAILED"},
     WORKTREE_READY     |-> {"IMPLEMENTING", "BLOCKED", "FAILED"},
     IMPLEMENTING       |-> {"VERIFYING", "BLOCKED", "FAILED"},
     VERIFYING          |-> {"REPAIRING", "REVIEWING", "BLOCKED", "FAILED"},
     REPAIRING          |-> {"VERIFYING", "BLOCKED", "FAILED"},
     REVIEWING          |-> {"REVIEW_FIXING", "REVIEW_APPROVED", "BLOCKED",
                             "FAILED"},
     REVIEW_FIXING      |-> {"VERIFYING", "BLOCKED", "FAILED"},
     REVIEW_APPROVED    |-> {"DOCUMENTING", "READY_FOR_APPROVAL", "BLOCKED",
                             "FAILED"},
     DOCUMENTING        |-> {"READY_FOR_APPROVAL", "BLOCKED", "FAILED"},
     READY_FOR_APPROVAL |-> {"COMPLETED", "CANCELLED", "BLOCKED", "FAILED"},
     COMPLETED          |-> {},
     BLOCKED            |-> {},
     FAILED             |-> {},
     CANCELLED          |-> {}]

\* application.py: runs in these states are over, though a BLOCKED one can be
\* resumed ...
TERMINAL_STATES == {"COMPLETED", "BLOCKED", "FAILED", "CANCELLED"}
\* ... and in these only planning can continue.
PLANNING_ONLY_STATES == {"PROJECT_READY", "PLANNING", "WAITING_FOR_USER",
                         "PLAN_READY", "PLAN_APPROVED"}
\* planning.py: the states PlanningWorkflow.resume() accepts.
RECOVERABLE_PLANNING_STATES == PLANNING_ONLY_STATES \ {"PLAN_APPROVED"}

\* validate_transition()
Valid(from, to) == to \in ALLOWED_TRANSITIONS[from]
=============================================================================
