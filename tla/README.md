# Verification of agentflow

TLA+ models of `agentflow` (`src/src/agentflow`), an orchestrator that takes a
coding task through planning, implementation by an agent in a Git worktree,
verification, repair, review, documentation and the merge of one commit. The
modules are translated from the code; the README says what each stands for, what
TLC finds about it and what TLAPS proves.

- [The system](#the-system)
- [Modules](#modules)
- [Runs](#runs)
- [What the code does that its documentation excludes](#what-the-code-does-that-its-documentation-excludes)
- [Proofs](#proofs)
- [Abstractions](#abstractions)
- [Not modelled](#not-modelled)
- [Plan](#plan)

## The system

One invocation of `agentflow` is one process with one asyncio task: it awaits
agents, Git and verification commands one after the other. Concurrency is between
processes (two terminals, a scheduler, a crashed command and its successor), and
everything they share is persistent: a SQLite database, the repository, the
worktrees and lock files.

| Component | State it keeps | Operations | What makes it correct |
|---|---|---|---|
| Lock files (`concurrency/lockfile.py`; `run_lock.py`, `git/lock.py`) | a file with owner, pid and time | acquire, break a stale lock, release | one holder; release touches only one's own file; a live owner's lock is never broken |
| State machine (`workflow/states.py`) | `runs.state` | `transition_run_state` | only transitions of `ALLOWED_TRANSITIONS`, whatever sequence of commands |
| Persistence (`persistence/`) | runs, state history, decisions, sessions, events | one transaction per record | a blocked run can be recovered from the history |
| Worktrees (`git/worktree.py`) | worktree, branch, base branch | create, capture_changes, commit, cherry_pick, remove, delete_branch | edits are not lost; a run lands as one commit |
| Application (`application.py`) | none of its own | `complete`, `resume`, `merge`, `cleanup` (and commands that only read) | one driver per run; nothing lands that was not verified, reviewed and approved; ended runs stay ended; crashes are recovered from |
| Planning (`workflow/planning.py`) | decisions, an agent session, two files | turns, user questions, classification, resume | answers survive and reach the planner; a classified run has the approved plan; the conversation ends |
| Implementation (`workflow/implementation.py`) | worktree, writer lock | create the worktree, run the agent | one writer per worktree |
| Verification (`workflow/verification.py`, `verification_scope.py`) | in memory: a snapshot of the worktree, the results of groups | full and incremental pass, reproduction, selection of groups | a success holds for the current files |
| Repair (`workflow/repair.py`) | counters of one loop | classify, repair by tier, reverify | the loop is bounded |
| Review (`workflow/review.py`) | a counter | review, fix, reverify | bounded; what it approves was verified |
| Documentation (`workflow/documentation.py`) | - | edit, reverify | the last edit is verified too |
| Merge and completion (`workflow/merge.py`, `completion.py`) | decisions | commit, cherry-pick, record, remove | recorded merges are final |
| Routing (`routing/`), task profile (`task/`) | pure, one recorded decision per stage | score, match rules, resolve a model | every stage gets a usable model; more risk never gets a weaker one |
| Configuration (`config/`) | `config.yaml` with the retired models, `routing.yaml` | load, validate, `retire`, remove a retirement | retirements never form a cycle |
| Project setup (`project/`) | files | discover, write a default configuration | - |
| Migrations (`persistence/migrations.py`) | `schema_migrations`, the tables | upgrade when a command starts | what is recorded is there; who goes on has the whole schema; an interrupted upgrade can be taken up |
| Processes (`process/executor.py`), agents (`agents/`) | child processes | start a CLI, wait for the end of its output, limit, kill; parse output | a limited call returns; nothing writes after its call, unless it was left behind |
| Observability, UI, CLI | events, prompts | record, print, parse | - |

`complete` drives a run from its creation to the end. It holds the run lock in
each of three phases (planning; implementation with verification; review,
documentation and approval) and gives it back between them. `resume` reads the
state a crashed or blocked run was left in and continues at the stage it calls
for; `merge` lands a completed run that was kept; `cleanup` removes what ended
runs left behind. An agent that edits the worktree runs under the worktree's
writer lock. All of them change the run's state by `transition_run_state`.

What is hard: a resume decides on a state it read before it had the lock; a phase
goes on after a gap in which anybody may have had the lock; a merge is several
steps in Git and one in the database; cleanup acts on a list it made earlier; a
stale lock is judged and removed in two steps; verification reuses results and
must know which edits they survive; the repair loop has three bounds and must meet
one of them whatever fails; planning can die between asking the user and telling the
planner; two editors of one configuration file each write what they read long ago;
an agent outlives the process that started it, or leaves something behind that does;
two commands upgrade the same new database, or one is killed half way through.
`PROJECT.json` lists these hazards with their lines.

## Modules

| Module | Models | State and actions |
|---|---|---|
| `LockFile` | `LockFile.acquire`, `release`, `is_stale`, `_force_remove` | the file (absent, created, written) and where each process is; one action per system call; `Die` at any point; `Breakers` are the processes that may pass `break_stale=True` at an acquire; `AtomicUntilBroken` says how far it implements `AtomicLock` |
| `AtomicLock` | what a lock promises | take it when it is free, give it back |
| `Execution` | `ProcessExecutor.run` as `BaseAgentAdapter.start` and `resume` call it, under the writer lock of `LockFile` (EXTENDS it) | the call of each process, its child, and what the child has started with and without the output pipes; one action per thing `run` waits for; `Crash` takes the call and leaves the child |
| `SchemaVersion` | what is expected of an upgrade | the next version, in one step |
| `Migrations` | `apply_migrations` as `DatabaseManager.initialize` calls it | the statements that have taken effect, the rows of `schema_migrations`, where each process is in the loop; one action per committed step; `Die` between any two; implements `SchemaVersion` |
| `WorkflowStates` | `WorkflowState`, `ALLOWED_TRANSITIONS`, the sets of states `application.py` and `planning.py` decide by | operators only |
| `RunStore` | what outlives a process: the run's row, history and decisions, worktree, branch, base branch, both locks | operations of `DatabaseManager` and `WorktreeManager` that change it |
| `RunLifecycle` | `complete`, `resume`, `merge`, `cleanup` | `pc` of each process (a stage has the name of its state, the other phases stand between two persistent steps), `seen` for the state read early, `acquiring` for the step of `LockFile.acquire` it is at; one action per persistent step (a lock is looked at, unlinked and created in three); `agents`, which outlive the process that started them: `Crash` anywhere leaves the agent, `OrphanEdits` until `OrphanEnds`; `LosesTree` for a process whose worktree is gone |
| `VerificationScope` | `select_groups` and `_validate_verification_overlap` | operators only; paths and groups are sets, what the code reads off names is given by constants |
| `Verification` | `VerificationRunner` | the files, the last snapshot, results by group; `RunPass`, `RunIncremental` |
| `QualityGates` | `RepairWorkflow.run`, `ReviewWorkflow.run`, `DocumentationWorkflow.run` and `_verify_and_repair` over one runner | the gate, the counters; one action per decision of the loops |
| `Planning` | `PlanningWorkflow.run`, `_planning_loop`, `resume` and what classification writes | `pc` of the process that plans, what is persisted (state, inputs, escalation, latest session, artifacts), what the planner's session has been told; one action per persistent step or call of the planner; `Die` anywhere |
| `Routing` | `route` and its rules, `score_complexity`, `ModelsConfig.resolve`, `apply_retirements`, `run_retire`, `remove_retirement`, `_validate_routing_model_aliases` | the retirements in the file and as each process has read them, the models a run has recorded (`session` of its planner, `artifact` of its implementation); `Start` of an editor or a pipeline, `Edit` and one action per decision, those a resumed run takes over (`ResumePlanning`, `Fix`) among them |
| `MCLockFile`, `MCExecution`, `MCMigrations`, `MCRunLifecycle`, `MCQualityGates`, `MCPlanning`, `MCRouting` | instances for TLC | |
| `LockFileProofs`, `ExecutionProofs`, `MigrationsProofs`, `RunLifecycleProofs`, `RunSequentialProofs` (EXTENDS it), `QualityGatesProofs`, `PlanningProofs`, `RoutingProofs` | theorems | |

`RunLifecycle` EXTENDS `RunStore`, which EXTENDS `WorkflowStates`;
`QualityGates` EXTENDS `Verification`, which EXTENDS `VerificationScope`. The two
stacks show the same stages from two sides: `RunLifecycle` has all processes and
crashes, and takes any answer of verification and review and any number of
repairs; `QualityGates` has one process and says how those answers come about.
`RunLifecycle` acquires the run lock in the steps of `LockFile` (`Examine`,
`UnlinkRunLock`, `CreateRunLock`), so two processes that find it stale may both come
to hold it, as in `lock_live_broken`; `broken` records that the run lock of a live
process has been unlinked. The writer lock is never broken when a workflow takes it,
and `LockFile` justifies that taking it is one step (`TakeWriterLock`); where a
resume or a cleanup clears a stale one, the steps are the same as for the run lock.
`Planning` is the inside of the planning phase of
`RunLifecycle`: it rests on that module for there being one process at a time, has
its transitions from `WorkflowStates`, and adds the conversation. `Routing` answers which model
the agent of a stage is; the other modules do not depend on the answer. `Execution` is
the inside of an agent's edit in `RunLifecycle` (`TakeWriterLock` to
`ReleaseWriterLock`) and shows who may be left writing after it; `RunLifecycle` has the
case of a dead agentflow. `Migrations` comes before everything else: each command upgrades the
database before it reads a run.

Definitions marked "Mutant" are faulty variants of the definition that follows or
is named; no specification uses them. Each property is violated when one of them
takes that definition's place, which shows the property watches the code it is
about.

## Runs

| Run | Instance | States | Result |
|---|---|---|---|
| `execution` | 3 processes, 2 of which may break a stale lock and the third has a time limit; agents, what they start, deaths | 343 448 | exclusion, safe release and, as a refinement, `AtomicLock`, each until a live lock has been broken; two agents at once only if one is abandoned; limited calls return |
| `lock_live_broken` | `LockFile` with 3 processes, 2 of them breakers | | violated, see below |
| `migrations` | 2 processes, the 6 migrations of the repository with their 4, 7, 2, 4, 3 and 1 statements, from any earlier release, unbounded restarts and deaths | 38 677 | what is recorded is there, who goes on has the schema, the one in front is never refused, a lone start is refused for one reason only, the upgrade ends; as a refinement, `SchemaVersion` |
| `migrations_torn` | the same | | violated, see below |
| `run_sequential` | complete, resume, merge, cleanup, one after the other in any order; 2 versions, 2 crashes | 590 929 | transitions legal, landed is gated and edits kept but for an orphan agent's, blocked is recoverable, ended stays ended |
| `run_overlap` | complete, resume, merge overlapping; 2 versions, 1 crash | 553 412 | one driver, the gate lands what was approved, merge final, worktree kept under its writer, each until the run lock of a live process is unlinked; lands once without deaths; blocked is recoverable |
| `run_phase_gap`, `run_lands_twice` | complete and resume | | violated, see below |
| `quality_gates` | 3 groups (`backend` covers `module`, `frontend` is claimed by `module`'s file too), 2 files of 2 contents, 1 lightweight and 1 standard repair, 1 review fix | 125 262 | repairs bounded, nothing ready unverified, nobody skipped but for a cover that passed, edited inputs run again, the gates are left |
| `gates_stale` | the same groups without claims, 3 files, one of them in `backend` alone; no review fix | | violated, see below |
| `planning` | 3 providers, one of which cannot resume a session; 2 turns, 1 retry of a malformed answer, 3 inputs of the user, 2 resumptions | 100 436 | what is classified was approved, the planner knows what the user has said, transitions are allowed ones, planning ends |
| `routing` | 2 processes, 4 models of which 1 is excluded, 2 flags, 2 file counts, 2 edits of the retirements; the default `routing.yaml`, one with other bands and weights and with rules left out and repeated, one that is refused | 1 401 366 | retirements never form a cycle, no decision names an excluded model, nor a retired one but for what a resumed run takes over, more risk never gets less |

Why the bounds are enough to be interesting:

- `MaxEdits = 2`: version 0 is the base, so a run can hold a verified version and a
  later unverified one, or two implementations. `MaxCrashes` 1 or 2: a crash, and a
  crash of the resume that follows. One command of each kind: complete after planning and
  resume do the same, so two processes drive the run already. The theorems have no such
  bounds.
- Commands run one at a time in `run_sequential` (`Overlap = FALSE`): the properties
  checked there are what a user who waits for each command may rely on. An agent whose
  process has died works on beside the commands that follow, so `LandedIsGated` and
  `UnmergedEditsKept` except versions it wrote (`stray`): a resume clears the writer lock
  of the dead process, verifies and reviews, and the orphan's edit after the review is in
  the `git add -A` of the commit; or it edits after the resume has found the diff empty,
  and the worktree is recreated. Without the exception TLC finds both.
- With overlap `LandedIsGated` is false even without an orphan (`run_phase_gap`), and so is
  `TerminalIsFinal`: `resume` reads VERIFYING and waits for the lock; the holder ends the
  run; `resume` gets the lock, does not look again, and writes VERIFYING over CANCELLED
  (the instance of `run_phase_gap` shows it too, without a crash).
- `run_overlap`: two versions, so that what is committed can differ from what was asked
  about, and one death, which leaves a stale run lock with two processes to break it and an
  orphan. Merge and resume are the two commands that may land a run `complete` has left.
  The run reaches the states its properties except: without `RunLockIntact` TLC finds two
  drivers in it, and without `stray` a version that lands unapproved.
- A cleanup that overlaps is not in `run_overlap`: it takes no run lock, so it interleaves
  with everything. It lets a worktree vanish under a process: it looks at the writer
  lock, a resume of the blocked run takes it, cleanup removes the worktree.
  `TreeKeptUnderWriter` excepts this step, which `run_cleanup` (application.py:1834) says
  it does not take. With cleanup in place of merge (`ResumedAndCleaned` in
  `MCRunLifecycle`), one version and one crash, the six properties hold in 2.4 million
  states (not among the runs); the theorems have any number of commands of every kind.
- Two resumes of a crashed run are not in a run either (above ten million states). As a
  resume and a merge do in `run_overlap`, they may both break the lock of the dead process,
  the second one that of the first, and then both drive the run.
- `execution`: two writers and a third process are what it takes for a stale lock, its
  two breakers, and an agent that is left behind; each process may call any number of
  times. A limit on one process gives every mixture of calls with and without.
- `migrations`: the list is the repository's, so every script and the one statement that
  cannot be repeated are there; two processes give every overlap of two upgrades, and a
  process starts again as often as it likes.
- Three groups and two files: a cover, a covered group and an independent one; an
  edit that concerns one, the other or both. Limits of 1 separate "none left" from
  "one left" in each tier.
- `planning`: with 2 turns the last is not the first; 3 inputs and 2 resumptions let the
  user answer, a process die, the resumed session fail and the fallback be asked again.
  Every assignment of providers to the two planner models is tried, so a session can
  be carried over to the other model, lost, or never have had an id.
- `routing`: two processes with one edit each are the least that could close a cycle
  of two names unseen by either probe. One flag only adds to the score, the other is a
  hard risk too; with the file counts, in the lowest and the highest band, the scores
  lie on both sides of each threshold of one project or the other. For three flags, six
  counts at the edges of the bands and no edits `RiskNeverLowers` holds as well (not among
  the runs); the theorem has any flags, counts and bands.

Deadlock is not checked: a run ends, and processes that have ended take no step.

Fairness. There are four liveness properties.

- `GatesAreLeft` (`quality_gates`) under `WF_vars(Next)`: the loop is sequential code of
  one process, and the agents and commands it awaits are taken to return. That is an
  assumption on the external programs, not a fact about the code: the workflows give an
  agent no time limit, and verification only what is configured.
- `PlanningEnds` (`planning`) under `WF_vars(Proceed)`: the process goes on, the planner's
  CLI is taken to return (with an answer or an error), and the user answers sooner or
  later; nothing forces anybody to resume a run.
- `UpgradeEnds` (`migrations`) under weak fairness of each process's `Proceed`:
  `apply_migrations` waits for nobody (a database that stays locked for 15 seconds is
  the failure `Die`). Nothing forces a process that was refused or killed to start again.
- `LimitedCallsReturn` (`execution`) under weak fairness of what `run` itself does: it
  notices the end of the output, and its time limit runs out. Nothing is assumed of the
  child or of what it has started; a descendant that keeps the pipes open keeps the call
  from returning, limit or not, which is why the property excepts it.

`RunLifecycle`, `LockFile` and `Routing` have no fairness: a process may stop for ever, as
a killed one does.

## What the code does that its documentation excludes

- `lock_live_broken`. Breaker A reads a stale lock and finds its pid dead; breaker B
  breaks the lock and takes it; A unlinks the path, now B's file, and takes the lock
  too. `LockFile.acquire` says that a live owner's lock is never broken.
- `run_phase_gap`. `complete` verifies, returns the lock before review; a `resume`
  gets it, its verification fails, its repair agent edits, and it dies. `complete`
  takes the lock again and reviews and lands files no verification has passed.
- `run_lands_twice`. A crash after the cherry-pick and before its record. `resume`
  sees an empty diff, implements again, and a second commit lands.
- `gates_stale`. A group that supersedes another stands in for it only in a selection
  that selects both. A file of the backend is implemented and its suite passes; a later
  edit (of the documentation agent in the run, of a review fix or a repair as well)
  touches only a file of the module the backend's suite covers. The incremental pass
  asks `select_groups` about that file alone and forces the module; the whole change
  selects the backend, which suppresses the module. Nothing runs, and the pass succeeds.
  There is a second way without covers: a pass forces the groups an edit concerns, but
  stops at the first failure; a forced group it did not reach keeps its old pass, and
  the next pass, whose edit is elsewhere, reuses it.
- `migrations_torn`. `executescript` commits before it starts and then statement by
  statement, so the `with conn:` around it holds only the row of the version. A process
  killed inside a script leaves part of it. All statements but one say IF NOT EXISTS and
  are repeated by the next start without harm; after `ALTER TABLE runs ADD COLUMN` of
  migration 2 every later start is refused.

Three more are in the models and excepted by name in properties that pass, rather than
shown by runs of their own. A run that has ended is reopened by a resume that waited for
its lock (`TerminalIsFinal` is for commands that do not overlap; QUICKSTART.md:500 says
that resume refuses). A dead process's agent works on beside the agent of the resume that
cleared its lock (`stray`, and `WritersOverlapIfAbandoned` of `Execution`; git/lock.py:3
says that only one may modify a worktree). A run that is resumed goes on with a model
that has been retired since (`TakenOver`; application.py:594 says that the new model takes
its place "from now on").

## Proofs

All theorems hold for every value of the constants that meets the named
assumptions (`ProcsAssumption`, `LifecycleAssumption`, `ScopeAssumption`,
`OverlapAssumption`, `NoGroupAssumption`, `ContentAssumption`, the two
`LimitsAssumption`, `ProvidersAssumption`, `ModelsAssumption`, `ProfilesAssumption`,
`EditsAssumption`, `ProjectsAssumption`, `MigrationsAssumption`, `LimitedAssumption`).

`LockFileProofs`
- `TypeCorrect`, `ExclusionHolds`, `ReleaseSafety`, `PlainExclusion`. The invariant
  ties each process to the file: who is past its creation owns it unless a live lock
  has been broken, and a breaker about to unlink has seen a dead owner.
- `LockIsAtomicUntilBroken`: as long as no live lock has been broken, each step maps to
  a step of `AtomicLock` or a stutter (`StepIsAtomic`). `PlainLockIsAtomic`: without
  breakers this is so for ever.

`ExecutionProofs`
- `ExecutionIsLockFile`: on the lock's variables each behaviour with agents is one of
  `LockFile`, so `WritersExclude`, `WritersReleaseTheirOwn` and `WritersSeeAtomicLock` are
  the theorems above.
- `ExecTypeCorrect`, `OverlapNeedsAbandonment`. `AllAwaited` is the invariant: a child at
  work, or a descendant with its pipes, has its agentflow waiting under the lock or dead.
  It rests on `run` draining the pipes before it answers. With exclusion it leaves no
  two agents that somebody waits for.

`MigrationsProofs`
- `TypeCorrect`, `RecordsAreTrue`, `ReadyAlwaysCurrent`, `RefusedAlwaysOvertaken`,
  `LoneStartAlwaysSucceeds`, from one invariant `IInv`. Versions are recorded and begun in
  order; `Progress` says of a process what of its script is in the database; `Leads`
  names a process at the first unrecorded version which has itself done whatever cannot be
  repeated there, and so is never refused; it exists while nobody has been killed
  (`SomeoneLeads`). Scripts and lists of any length; the least pending version exists as
  the natural numbers are well-founded (`LeastExists`).
- `MigrationsImplementSchema`: under `IInv` a version is installed when its row is, so
  `Record` is an upgrade by one version and every other step a stutter.

`RunLifecycleProofs`, about commands of any number and kind that overlap and die in any
way. Acquiring a lock takes its steps here, and an agent outlives its process; what the
theorems say is limited accordingly. `RunLockIntact` (nobody has died, or no run lock of
a live process has been unlinked) is in the properties that rest on a single holder, and
`stray` (versions written by an agent without its process) in those about what a worktree
holds.
- `OneDriverAlways`. `OneDriver` is not inductive: that no second process is in a
  locked phase rests on the lock. `RunLockHeld` (while `~broken`, who is in a locked phase
  is named in the lock) is, because a dead process is in no locked phase. Every action has one of
  four shapes towards the lock (moves on, takes, gives back, breaks), proved per
  group of actions and preserved once. `BreaksNeedDeath` adds that before the first death
  nobody is about to unlink: a lock is judged stale only when its owner is dead. So without
  deaths there is one driver, whatever overlaps.
- `MergeIsFinal` (`RecordedMergeIsFinal`). Only `Pick` changes the base branch; it is
  reached under the lock through a look at `merged`, so `NothingMergedYet` holds
  between the two until a live lock is broken.
- `TypeCorrect`, among it that a blocked run's history names a state.
- `LandsOnceWithoutCrashes`. While nobody has died, `landed` is longer than the
  record says only between `Pick` and `RecordMerge`, in the one process that holds
  the lock.
- `GateLandsWhatWasApproved` (`GateLandsApproved`). Between the question of the approval
  gate and the commit one process has the run lock, and the only steps of others that
  reach the worktree remove it, which leaves the commit to pick what it was, or are those
  of an orphan, whose version is `stray`. `merge` asks before it has the locks and is not in
  the property: it may land what a resume has made of the run since it asked.
- `WorktreeIsKept` (`TreeKeptUnderWriter`). Who removes a worktree, but for a cleanup, is in
  a locked phase, and so is who edits with a live process (`AgentsAtWork`, `RunLockHeld`).
  An orphan's worktree may be removed under it.
- `BlockedCanResume` (`BlockedIsRecoverable`). With `RecoverInv`: what a blocked run was
  blocked from is never a state that ends it. This one has no limits.

`RunSequentialProofs`, about commands that do not overlap (`Overlap = FALSE` is a
hypothesis of each theorem: the four properties are false otherwise, since `complete`
gives its lock back between its phases and `resume` judges a state it has not locked;
`run_phase_gap` shows it for one of them). Any number of commands and deaths.
- `StagesFit` (`NoInvalidTransition`), from `SerialInv`: at most one command is alive
  (`Alone`); the run is new until its `complete` is started (`Fresh`); and in each
  phase of a command the run is in a state its next transition is allowed from, which
  for `resume` is the one it read at its start (`LegalAt`). With `RecoverInv`, as a
  blocked run goes back to the stage it was blocked from.
- `EndedForGood` (`TerminalIsFinal`) from the same invariant: without overlap what
  `resume` has judged cannot have ended since.
- `EditsAreKept` (`UnmergedEditsKept`). `TidyInv` says of each phase that removes a
  worktree what it has looked at before and relies on: that the work is merged, that
  there is none, or that the run has ended and, if completed, has none unmerged; or that
  an orphan has written since the look (`OrphanStep`) and the version is `stray`.
- `NothingLandsUngated` (`LandedIsGated`). `GatedInv` gives each phase the gates the
  worktree's version has passed by then: from verification to the next edit it is in
  `verified`, from review in `reviewed`, from the decision in `approved`
  (`VerifiedPhases`, `ReviewedPhases`, `ApprovedPhases`), or it is an orphan's (`stray`). What it says of a phase is not
  enough: a completed run that was not merged keeps its worktree for a later `merge`,
  whoever completed it (`CompletedGated`).

`QualityGatesProofs`
- `RepairLoopIsBounded`. The invariant accounts for every repair: by the counter of
  its tier, by the one escalation, or as the attempt in progress, for which there is
  room.
- `NothingReadyUnverified`. From a successful pass to the next edit the files are
  those of the snapshot; `READY_FOR_APPROVAL` is reached only within that span.
- `EditedGroupsRunAgain`. An edited input selects a stand-alone group in
  every set of paths that contains it (`SelectionGrows`, `EditSelects`), so the
  group is forced or, when Git failed on either side, everything selected is; and a
  pass that succeeds has passed all it was to run (`SuccessPassesAll`). `gates_stale`
  shows why the theorem speaks of the pass before and of success.
- `SuppressedIsCovered`, `EveryoneIsAnswered` (`NobodyIsSkipped`). `Covered` is
  transitive (`CoveredIsTransitive`), and as the configuration has no cycle no group
  covers itself (`NobodyCoversItself`); so a cover of a cover has fewer covers of its own
  (`FewerCovers`), and the selected cover with the fewest is suppressed by nobody. A pass
  that succeeds has a pass, new or retained, for all it was to run. That the pass of a
  cover is of the current files is another matter: `gates_stale`.
- `TypeCorrect`. Not inductive alone: that no counter exceeds its limit needs
  `RepairInv`, and that a fix starts only with an attempt left, `GateInv`.

`PlanningProofs`
- `TypeCorrect`: among it that no loop takes more than `max_turns` turns, and none more
  retries of a malformed answer than configured.
- `ClassifiedHasApprovedPlan`. Not inductive by itself: `Writing` says which of the two
  files already hold the approved plan at each place between the approval and the
  classification, and that a run left there by a death cannot be taken up by `Resume`.
- `PlanningKeepsToTheStates` (`TransitionsAllowed`), from the state of the run at each
  place of the workflow (`StateFits`).
- `PlannerIsInformed`. `Informed` says of each place what the session and the prompt
  know together: after an answer of the user the prompt has what the session lacks,
  and the recorded session, whatever it was told, is resumed with all decisions.
  With one provider for both models an escalation keeps the session.

`RoutingProofs`
- `RetirementsAlwaysEnd`. Every reading of the retirements is `Sound` (a function on
  models, well-founded, no replacement excluded), and an accepted edit keeps it so: a
  cycle would go through the new name, and the probe has followed the chain from
  there (`RetireIsSound`). That an editor goes by an old reading does no harm: it
  writes what it read and probed, not a mixture.
- `RoutedIsAlwaysCurrent`. From `Sound` the loop of `apply_retirements` ends at a
  name that is not retired (`LoopEnds`, `LoopReturns`), and the acceptance of
  `routing.yaml` gives every rule an alias; the first matching rule exists as the
  least index (`LeastIndex`). What a run has recorded was decided on in this way, so it is
  not excluded (`RoutedIsUsable`, `TakenIsUsable`), but it may have been retired since: a
  planner session that is resumed goes on with its model (planning.py:337), and the fixes
  of a review with that of `routing-decision.json` (application.py:1330, review.py:462).
  `apply_retirements` is not called for either; the property names the two (`TakenOver`)
  and shows that there is no third.
- `RiskNeverCostsStrength` (`RiskNeverLowers`). The score is a fold over a set, which
  is a recursive function on its subsets; that it exists, does not depend on the order
  and grows with the set and with what it starts from (`SumsExist`, `SumOfAny`,
  `TotalGrows`) is shown by a smallest counterexample, in place of an induction. With
  the bands (`FileScoreGrows`) the score of a riskier task is no less (`ScoreGrows`), it
  does not fall back to the lowest level (`LevelGrows`), and the order of the rules
  agrees (`StrengthGrows`). `Graded` holds what the theorem needs of a
  project: bands that follow one another with the last one open, no negative weight,
  a lowest level that begins at 0 or below, no rule that gives the lightest tier to a
  higher level, no flag that is expected not to be set. The default `routing.yaml`
  is such; the code accepts others, and for those more risk may cost strength (a
  negative weight, or a gap below the lowest level, is enough).
- `TypeCorrect`.

Every safety property the passing runs check is stated by a theorem. Only
model-checked: `GatesAreLeft`, `PlanningEnds`, `UpgradeEnds` and `LimitedCallsReturn`, as
liveness is beyond the prover.

## Abstractions

- `transition_run_state` reads and writes in two calls; here they are one step. All
  but one of its callers hold the run lock (`Recover` does not).
- A worktree's contents are a version in `RunLifecycle`, a content per file in
  `Verification`. Commits count as none or one since the base.
- `base_commit` and `base_branch` are taken to be recorded; the user's branch is
  where the run started, and conflicts of the cherry-pick are an answer of Git.
- A worktree that has been removed keeps the commit its branch is at.
- `Execution`: an agent's processes are its child, whatever has its output pipes, and
  whatever has not, each as one; a descendant appears only while the child runs. Only
  agents run under the writer lock; Git and verification commands use the same `run`.
  Dropping an agent's output and decoding it are left out.
- `Migrations`: a statement is its place in its script, and takes effect or does not;
  making sure of the table `schema_migrations` and reading it are one step (the first
  changes nothing when the table is there). A process stands for one terminal. A
  statement that fails because the disk is full or the database locked is `Die`.
- The `plan` and `implement` commands are `complete` stopped in a gap.
- Giving a lock back is one step in `RunLifecycle`; that comparing and unlinking does not
  hit another's file is shown for `LockFile` (`ReleaseIsSafe`) until a live lock is broken.
  A lock file is created with its payload, whose owner `broken` goes by.
- A dead process's pid is not reused, and no two payloads are equal.
- Verification commands leave the worktree as it is, and a group's commands are one
  step with one outcome. What its output says to `repair.py` is one of four kinds;
  where status and output come from different commands any combination is allowed.
- The key of a reproduction is (group, command, fingerprints) in the code; here it is
  forgotten on any edit, which allows more behaviours, not fewer.
- `run_incremental` without an earlier pass, and a failed result without a failing
  command, do not occur in the pipeline and are left out. A project without a
  verification section has no groups.
- Limits are natural numbers; the code accepts negative ones, which act like 0.

- `Planning`: a prompt is the set of facts it tells, 0 the task and the others the
  inputs of the user in their order; wording, and what a plan says, are left out. A
  provider that resumes sessions reports an id whenever a call succeeds. An
  escalation reported together with a plan takes effect in the next turn, as in the
  code, so the plan put to the user may still be the default model's. Deaths are
  unbounded, resumptions bounded.
- `PlanIsInformed` leaves out two cases in which the planner is not told everything:
  the fallback, whose prompt holds the decisions as they were when `resume` began, and
  an escalation to another provider or with one that cannot resume, whose new
  session gets only the next prompt. A process that dies between the approval and
  the classification leaves a run in PLAN_APPROVED, which `resume` refuses.
- `Routing`: names of models stand for themselves up to case and blanks; the provider of
  a decision stays that of the binding and is left out, and so is the explanation.
  Thresholds, bands and rules are the effective ones, after defaults. `Seen` is the set
  `seen` at the end of the loop, given as a least closed set. A decision changes
  nothing that another reads, so only the last is kept. That one editor's retirement
  is lost by another's save is possible in the model, and no property excludes it.

## Not modelled

The command lines of the agent adapters and the parsing of their output, the removal of
trees, project discovery and setup, observability, UI and CLI. The reasons are with the
components in `PROJECT.json`: they write, format or ask, and nothing that the models
decide by is decided there.

Of what is modelled, these parts are left out:

- application.py: the commands that only read (history, metrics, inspection, doctor) and
  the assembly of objects.
- persistence/database.py: the records of sessions, verification, metrics and events,
  which the workflow writes and does not decide by.
- workflow/review.py: how a reviewer's answer is parsed, and its retries; the answer is
  any of approval, mandatory findings and failure.
- `save_global_config` (config/loader.py:65) opens the file, which truncates it, and writes
  it. `Save` of `Routing` is one step: neither a crash in the middle of it is modelled nor a
  command that starts just then, and takes an empty file for one without retirements or
  fails on a partial one. A part of retirements without a cycle has none, so
  `RetirementsEnd` does not depend on it; a retirement may be lost by it, and the others go
  by what their process has read.
- `Routing` follows one run: that it has a recorded session and artifact is its own doing,
  and whether a provider can resume is left to `Planning`.

## Plan

The order was: locks and run lifecycle, verification and its gates, planning, routing,
migrations, execution. What is left:

1. `ScopeWorklist`: the two worklists of `select_groups` as actions, shown to compute
   `select_groups` of `VerificationScope` on every small configuration.
2. A refinement from `QualityGates` to the stages of `RunLifecycle` seen by one process,
   from `Planning` to its planning states, and from `LockFile` to its lock steps.
3. The retries of the reviewer's answer, as `Planning` has those of the planner's, with
   what each session was told: `_review_once` retries a malformed answer in a new session
   whose prompt has neither the plan nor the diff.
4. Proofs: the refinements of 2, step by step.
