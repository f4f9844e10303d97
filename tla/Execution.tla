------------------------------- MODULE Execution -------------------------------
(***************************************************************************)
(* Agents at work in one worktree: the writer lock of LockFile around the  *)
(* calls of ProcessExecutor.run (process/executor.py) by which the         *)
(* adapters start an agent's CLI (agents/base.py).  The CLI is a child     *)
(* process, which may start further ones.  Those that inherit its output   *)
(* pipes are attached: communicate() returns only when the child has       *)
(* exited and nobody has the pipes open.  A time limit kills the child,    *)
(* not what it has started.  When agentflow itself dies, the child lives   *)
(* on.                                                                     *)
(*                                                                         *)
(* The recovery of `resume` and `cleanup` take over a stale lock, run no   *)
(* agent under it and give it back; a process may do that and then acquire *)
(* the lock as a writer.                                                   *)
(***************************************************************************)
EXTENDS LockFile

CONSTANT Limited    \* the processes whose calls have a time limit

ASSUME LimitedAssumption == Limited \subseteq Procs

VARIABLES
    call,       \* where run() is in the call made by each process
    child,      \* its child process, until run() has collected it
    attached,   \* some descendant of a child has the pipes open
    detached    \* some descendant without the pipes is running

execVars == <<call, child, attached, detached>>
allVars == <<vars, execVars>>

ExecTypeOK ==
    /\ TypeOK
    /\ call \in [Procs -> {"none", "waiting", "draining", "ok", "failed",
                           "timed_out"}]
    /\ child \in [Procs -> {"none", "running", "zero", "nonzero"}]
    /\ attached \in [Procs -> BOOLEAN]
    /\ detached \in [Procs -> BOOLEAN]

ExecInit == /\ Init
            /\ call = [p \in Procs |-> "none"]
            /\ child = [p \in Procs |-> "none"]
            /\ attached = [p \in Procs |-> FALSE]
            /\ detached = [p \in Procs |-> FALSE]

InRun(p) == call[p] \in {"waiting", "draining"}

Answer(p, result) == call' = [call EXCEPT ![p] = result]

-----------------------------------------------------------------------------
(* run() *)

\* The lock was acquired as a writer does, without looking for a stale one.
MayCall(p) == pc[p] = "held" /\ seen[p] = NoProc /\ call[p] = "none"

\* create_subprocess_exec: the agent starts ...
Spawn(p) ==
    /\ MayCall(p)
    /\ Answer(p, "waiting")
    /\ child' = [child EXCEPT ![p] = "running"]
    /\ UNCHANGED <<vars, attached, detached>>

\* ... or there is no such executable (exit code 127) or directory.
SpawnFails(p) ==
    /\ MayCall(p)
    /\ Answer(p, "failed")
    /\ UNCHANGED <<vars, child, attached, detached>>

\* communicate() has read the pipes to their end and has the exit code.
EndOfOutput(p) == child[p] # "running" /\ ~attached[p]

\* Mutant: run() waits for the child alone.
ChildHasExited(p) == child[p] # "running"

Communicated(p) ==
    /\ pc[p] = "held" /\ call[p] = "waiting"
    /\ EndOfOutput(p)
    /\ Answer(p, IF child[p] = "zero" THEN "ok" ELSE "failed")
    /\ child' = [child EXCEPT ![p] = "none"]
    /\ UNCHANGED <<vars, attached, detached>>

\* Mutant: the limit gives up on the child without killing it.
LimitWithoutKill(p) ==
    /\ pc[p] = "held" /\ call[p] = "waiting" /\ p \in Limited
    /\ Answer(p, "draining")
    /\ UNCHANGED <<vars, child, attached, detached>>

\* Mutant: the limit kills the child and answers without draining the pipes.
LimitAnswers(p) ==
    /\ pc[p] = "held" /\ call[p] = "waiting" /\ p \in Limited
    /\ child' = [child EXCEPT ![p] = IF @ = "running" THEN "nonzero" ELSE @]
    /\ Answer(p, "timed_out")
    /\ UNCHANGED <<vars, attached, detached>>

\* The limit is over, be the child still running or just done: proc.kill()
\* hits the child only, and communicate() is awaited again, without a limit.
Limit(p) ==
    /\ pc[p] = "held" /\ call[p] = "waiting" /\ p \in Limited
    /\ child' = [child EXCEPT ![p] = IF @ = "running" THEN "nonzero" ELSE @]
    /\ Answer(p, "draining")
    /\ UNCHANGED <<vars, attached, detached>>

Drained(p) ==
    /\ pc[p] = "held" /\ call[p] = "draining"
    /\ EndOfOutput(p)
    /\ Answer(p, "timed_out")
    /\ child' = [child EXCEPT ![p] = "none"]
    /\ UNCHANGED <<vars, attached, detached>>

-----------------------------------------------------------------------------
(* The agent's processes, whether or not agentflow is still there *)

ChildExits(p) ==
    /\ child[p] = "running"
    /\ \E code \in {"zero", "nonzero"} : child' = [child EXCEPT ![p] = code]
    /\ UNCHANGED <<vars, call, attached, detached>>

ChildForks(p) ==
    /\ child[p] = "running"
    /\ \/ attached' = [attached EXCEPT ![p] = TRUE] /\ UNCHANGED detached
       \/ detached' = [detached EXCEPT ![p] = TRUE] /\ UNCHANGED attached
    /\ UNCHANGED <<vars, call, child>>

DescendantsExit(p) ==
    /\ \/ attached[p] /\ attached' = [attached EXCEPT ![p] = FALSE]
                      /\ UNCHANGED detached
       \/ detached[p] /\ detached' = [detached EXCEPT ![p] = FALSE]
                      /\ UNCHANGED attached
    /\ UNCHANGED <<vars, call, child>>

-----------------------------------------------------------------------------
(* The lock around the call: acquire before it, release in `finally` *)

\* release() comes after run() has answered or raised, or before any call when
\* something else in the workflow has raised.
Release(p) == /\ ~InRun(p)
              /\ ReadBack(p)
              /\ Answer(p, "none")
              /\ UNCHANGED <<child, attached, detached>>

LockStep(p) == /\ \/ CheckStale(p)
                  \/ Probe(p)
                  \/ ForceRemove(p)
                  \/ Create(p)
                  \/ WritePayload(p)
                  \/ WriteFails(p)
                  \/ Unlink(p)
               /\ UNCHANGED execVars

\* A crash takes the call with it and leaves the agent's processes alone.
Crash(p) == /\ Die(p)
            /\ Answer(p, "none")
            /\ UNCHANGED <<child, attached, detached>>

RunStep(p) == Spawn(p) \/ SpawnFails(p) \/ Communicated(p) \/ Limit(p) \/ Drained(p)

ChildStep(p) == ChildExits(p) \/ ChildForks(p) \/ DescendantsExit(p)

ExecStep(p) == \/ LockStep(p)
               \/ Release(p)
               \/ Crash(p)
               \/ RunStep(p)
               \/ ChildStep(p)

ExecNext == \E p \in Procs : ExecStep(p)

\* The event loop answers when it can, and a time limit runs out; what a child
\* does, and whether agentflow goes on to its next call, is left open.
ExecFairness ==
    \A p \in Procs : WF_allVars(Communicated(p) \/ Limit(p) \/ Drained(p))

ExecSpec == ExecInit /\ [][ExecNext]_allVars /\ ExecFairness

-----------------------------------------------------------------------------
(* Properties *)

Writing(p) == child[p] = "running" \/ attached[p] \/ detached[p]

\* What has outlived its agentflow or has let go of the pipes of its agent.
Abandoned(p) == pc[p] = "dead" \/ (child[p] # "running" /\ ~attached[p])

\* "Only one AI agent may modify a worktree at any given moment": the trees of
\* two agents run at once only when one of them is abandoned, or a live lock
\* has been broken.  A time limit, or a child that exits before what it
\* started, gives the lock to nobody.
WritersOverlapIfAbandoned ==
    \A p, q \in Procs : p # q /\ Writing(p) /\ Writing(q) =>
        liveBroken \/ Abandoned(p) \/ Abandoned(q)

\* A call with a time limit returns, whatever the child does, unless something
\* the child has started keeps its pipes open.
LimitedCallsReturn ==
    \A p \in Limited :
        InRun(p) ~> (~InRun(p) \/ attached[p])
=============================================================================
