------------------------------- MODULE RunStore -------------------------------
(***************************************************************************)
(* What outlives a process: the row of the run in SQLite with its          *)
(* transition history and decisions (persistence/database.py), the run's   *)
(* Git worktree and branch and the base branch it lands on                 *)
(* (git/worktree.py), and the two lock files.  One run is modelled.        *)
(*                                                                         *)
(* The contents of a worktree are a version: 0 is the base the project     *)
(* started from and every edit of an agent makes a new one.                *)
(***************************************************************************)
EXTENDS WorkflowStates, Naturals, Sequences

CONSTANT NoProc   \* nobody holds a lock

VARIABLES
    state,        \* runs.state
    blockedFrom,  \* from_state of the latest transition to BLOCKED, or "none"
    merged,       \* a merged_commit decision is recorded
    tree,         \* the worktree: its files, HEAD and commits; when it is
                  \* gone only the HEAD it had is kept
    branch,       \* the branch agentflow/<run-id> exists
    landed,       \* versions cherry-picked onto the base branch, oldest first
    run_lock,     \* process named in the run lock file
    writer_lock   \* process named in the worktree's writer lock file

dbVars == <<state, blockedFrom, merged>>
gitVars == <<tree, branch, landed>>
lockVars == <<run_lock, writer_lock>>

NoTree == [files |-> 0, head |-> 0, commits |-> 0, exists |-> FALSE]

StoreTypeOK(Procs, Versions) ==
    /\ state \in WorkflowState
    /\ blockedFrom \in WorkflowState \cup {"none"}
    /\ merged \in BOOLEAN
    /\ tree \in [files : Versions, head : Versions, commits : 0..1,
                 exists : BOOLEAN]
    /\ branch \in BOOLEAN
    /\ landed \in Seq(Versions)
    /\ run_lock \in Procs \cup {NoProc}
    /\ writer_lock \in Procs \cup {NoProc}

StoreInit == /\ state = "NEW"
             /\ blockedFrom = "none"
             /\ merged = FALSE
             /\ tree = NoTree
             /\ branch = FALSE
             /\ landed = <<>>
             /\ run_lock = NoProc
             /\ writer_lock = NoProc

-----------------------------------------------------------------------------
(* The database *)

\* Mutant: the history is written from the row after it has been updated.
update_run_state_first(to) ==
    /\ state' = to
    /\ blockedFrom' = IF to = "BLOCKED" THEN to ELSE blockedFrom
    /\ UNCHANGED merged

\* update_run_state(): unvalidated; the history keeps the state it replaces.
update_run_state(to) ==
    /\ state' = to
    /\ blockedFrom' = IF to = "BLOCKED" THEN state ELSE blockedFrom
    /\ UNCHANGED merged

-----------------------------------------------------------------------------
(* The worktree *)

BaseTip == IF landed = <<>> THEN 0 ELSE landed[Len(landed)]

\* capture_changes(): `git diff --cached` compares the files with HEAD.
DiffIsEmpty == tree.files = tree.head

\* create() refuses when the branch or the path is already there.
CanCreate == ~branch /\ ~tree.exists

create ==
    /\ tree' = [files |-> BaseTip, head |-> BaseTip, commits |-> 0,
                exists |-> TRUE]
    /\ branch' = TRUE
    /\ UNCHANGED landed

\* Mutant: a commit left by an earlier attempt is not amended.
commit_anew ==
    /\ tree' = [tree EXCEPT !.head = tree.files, !.commits = tree.commits + 1]
    /\ UNCHANGED <<branch, landed>>

\* commit(): the one run commit, amended when an earlier attempt left it.
commit ==
    /\ tree' = [tree EXCEPT !.head = tree.files, !.commits = 1]
    /\ UNCHANGED <<branch, landed>>

\* cherry_pick() of the run commit; a pick that changes nothing is an error.
CanPick == tree.head # BaseTip
cherry_pick ==
    /\ landed' = Append(landed, tree.head)
    /\ UNCHANGED <<tree, branch>>

\* remove(force=True).  What was committed stays: cherry_pick() is given the
\* commit merge_run() made, whether or not its worktree is still there.
remove ==
    /\ tree' = [NoTree EXCEPT !.head = tree.head]
    /\ UNCHANGED <<branch, landed>>

\* delete_branch(): best effort; Git keeps a branch that is checked out.
delete_branch ==
    /\ branch' = (branch /\ tree.exists)
    /\ UNCHANGED <<tree, landed>>

\* Mutant: a recorded merge does not stop another one.
MergeOfferedAgain == /\ tree.exists
                     /\ ~DiffIsEmpty \/ tree.commits > 0

\* preflight_merge() as far as the run itself decides it; the state of the
\* user's checkout may refuse a merge at any time.
MergeOffered == /\ ~merged
                /\ tree.exists
                /\ ~DiffIsEmpty \/ tree.commits > 0

\* _has_unmerged_work(): a worktree that is not there cannot be inspected.
HasUnmergedWork == /\ ~merged
                   /\ ~tree.exists \/ ~DiffIsEmpty \/ tree.commits > 0
=============================================================================
