---------------------------- MODULE ExecutionProofs ----------------------------
(***************************************************************************)
(* Theorems about Execution, for any processes, breakers and limits: what  *)
(* holds of the lock file by itself holds with agents under it, and what   *)
(* they add.                                                               *)
(***************************************************************************)
EXTENDS Execution, LockFileProofs

\* Agents and calls leave the lock file to its own steps.
LEMMA ExecStepIsLockStep == [ExecNext]_allVars => [Next]_vars
<1>1. UNCHANGED allVars => UNCHANGED vars
  BY DEF allVars
<1>2. ASSUME NEW p \in Procs, ExecStep(p) PROVE Step(p) \/ UNCHANGED vars
  BY <1>2
     DEF ExecStep, LockStep, Release, Crash, RunStep, Spawn, SpawnFails,
         Communicated, Limit, Drained, ChildStep, ChildExits, ChildForks,
         DescendantsExit, Step
<1> QED  BY <1>1, <1>2 DEF ExecNext, Next

\* Every behaviour with agents is, on the lock's variables, one of LockFile.
THEOREM ExecutionIsLockFile == ExecSpec => Spec
<1>1. ExecInit => Init
  BY DEF ExecInit
<1> QED  BY <1>1, ExecStepIsLockStep, PTL DEF ExecSpec, Spec

\* So two writers never hold the lock together unless a live lock is broken ...
THEOREM WritersExclude == ExecSpec => []ExclusionUnlessBroken
BY ExecutionIsLockFile, ExclusionHolds, PTL

\* ... release() takes only the file of its caller ...
THEOREM WritersReleaseTheirOwn == ExecSpec => ReleaseIsSafe
BY ExecutionIsLockFile, ReleaseSafety, PTL

\* ... and the lock is atomic to them up to then.
THEOREM WritersSeeAtomicLock == ExecSpec => AtomicUntilBroken
BY ExecutionIsLockFile, LockIsAtomicUntilBroken, PTL

LEMMA ExecTypeStep ==
    ASSUME ExecTypeOK, TypeOK', [ExecNext]_allVars
    PROVE  ExecTypeOK'
<1>1. CASE UNCHANGED allVars
  BY <1>1 DEF allVars, execVars, ExecTypeOK
<1>2. ASSUME NEW p \in Procs, ExecStep(p) PROVE ExecTypeOK'
  <2>1. CASE LockStep(p) \/ Release(p) \/ Crash(p)
    BY <2>1 DEF ExecTypeOK, execVars, LockStep, Release, Crash, Answer
  <2>2. CASE RunStep(p)
    BY <2>2 DEF ExecTypeOK, RunStep, Spawn, SpawnFails, Communicated, Limit,
                Drained, Answer
  <2>3. CASE ChildStep(p)
    BY <2>3 DEF ExecTypeOK, ChildStep, ChildExits, ChildForks, DescendantsExit
  <2> QED  BY <1>2, <2>1, <2>2, <2>3 DEF ExecStep
<1> QED  BY <1>1, <1>2 DEF ExecNext

\* Types of the calls and of the agents' processes.
THEOREM ExecTypeCorrect == ExecSpec => []ExecTypeOK
<1>1. ExecInit => ExecTypeOK
  <2>1. Init => TypeOK
    BY ProcsAssumption DEF Init, TypeOK, Files, Phases
  <2> QED  BY <2>1 DEF ExecInit, ExecTypeOK
<1> QED  BY <1>1, ExecTypeStep, ExecutionIsLockFile, TypeCorrect, PTL
            DEF ExecSpec

\* An agent or an attached descendant at work has its agentflow waiting under
\* the lock, unless that has died: this is what draining the pipes achieves.
Awaited(p) == child[p] = "running" \/ attached[p] =>
                  pc[p] = "dead" \/ (pc[p] = "held" /\ InRun(p))

AllAwaited == \A p \in Procs : Awaited(p)

\* Steps of p leave the others' agents and places alone.
LEMMA OnlyOwnAgent ==
    ASSUME ExecTypeOK, NEW p \in Procs, ExecStep(p), NEW q \in Procs, q # p
    PROVE  UNCHANGED <<pc[q], call[q], child[q], attached[q]>>
<1>1. CASE LockStep(p) \/ Release(p) \/ Crash(p)
  BY <1>1 DEF ExecTypeOK, TypeOK, execVars, LockStep, Release, Crash, Answer,
              GoTo, CheckStale, Probe, ForceRemove, Create, WritePayload,
              WriteFails, ReadBack, Unlink, Die
<1>2. CASE RunStep(p)
  BY <1>2 DEF ExecTypeOK, vars, RunStep, Spawn, SpawnFails, Communicated,
              Limit, Drained, Answer
<1>3. CASE ChildStep(p)
  BY <1>3 DEF ExecTypeOK, vars, ChildStep, ChildExits, ChildForks,
              DescendantsExit
<1> QED  BY <1>1, <1>2, <1>3 DEF ExecStep

LEMMA OwnAgentAwaited ==
    ASSUME ExecTypeOK, NEW p \in Procs, ExecStep(p), Awaited(p)
    PROVE  Awaited(p)'
<1>1. CASE LockStep(p)
  <2>1. pc[p] \notin {"held", "dead"}
    BY <1>1 DEF LockStep, CheckStale, Probe, ForceRemove, Create, WritePayload,
                WriteFails, Unlink
  <2> QED  BY <1>1, <2>1 DEF LockStep, execVars, Awaited
<1>2. CASE Release(p)
  BY <1>2 DEF Release, ReadBack, Awaited
<1>3. CASE Crash(p)
  <2>1. pc'[p] = "dead"
    BY <1>3 DEF Crash, Die, GoTo, ExecTypeOK, TypeOK
  <2> QED  BY <2>1 DEF Awaited
<1>4. CASE RunStep(p)
  <2>1. CASE Spawn(p)
    BY <2>1 DEF Spawn, MayCall, vars, Answer, Awaited, InRun, ExecTypeOK
  <2>2. CASE SpawnFails(p)
    BY <2>2 DEF SpawnFails, MayCall, vars, Answer, Awaited, InRun, ExecTypeOK
  <2>3. CASE Communicated(p)
    BY <2>3 DEF Communicated, EndOfOutput, Awaited, ExecTypeOK
  <2>4. CASE Limit(p)
    BY <2>4 DEF Limit, vars, Answer, Awaited, InRun, ExecTypeOK
  <2>5. CASE Drained(p)
    BY <2>5 DEF Drained, EndOfOutput, Awaited, ExecTypeOK
  <2> QED  BY <1>4, <2>1, <2>2, <2>3, <2>4, <2>5 DEF RunStep
<1>5. CASE ChildStep(p)
  BY <1>5 DEF ChildStep, ChildExits, ChildForks, DescendantsExit, vars, Awaited,
              InRun, ExecTypeOK
<1> QED  BY <1>1, <1>2, <1>3, <1>4, <1>5 DEF ExecStep

LEMMA AgentsAwaited == ExecSpec => []AllAwaited
<1>1. ExecInit => AllAwaited
  BY DEF ExecInit, AllAwaited, Awaited
<1>2. ASSUME ExecTypeOK, AllAwaited, [ExecNext]_allVars PROVE AllAwaited'
  <2>1. CASE UNCHANGED allVars
    BY <1>2, <2>1 DEF allVars, vars, execVars, AllAwaited, Awaited, InRun
  <2>2. ASSUME NEW p \in Procs, ExecStep(p) PROVE AllAwaited'
    <3>1. Awaited(p)'
      BY <1>2, <2>2, OwnAgentAwaited DEF AllAwaited
    <3>2. ASSUME NEW q \in Procs, q # p PROVE Awaited(q)'
      <4>1. UNCHANGED <<pc[q], call[q], child[q], attached[q]>>
        BY <1>2, <2>2, <3>2, OnlyOwnAgent
      <4> QED  BY <1>2, <4>1 DEF AllAwaited, Awaited, InRun
    <3> QED  BY <3>1, <3>2 DEF AllAwaited
  <2> QED  BY <1>2, <2>1, <2>2 DEF ExecNext
<1> QED  BY <1>1, <1>2, ExecTypeCorrect, PTL DEF ExecSpec

\* Two agents edit the worktree at once only when a live lock has been broken,
\* or one of them has lost its agentflow or has only detached processes left.
THEOREM OverlapNeedsAbandonment == ExecSpec => []WritersOverlapIfAbandoned
<1>1. ASSUME AllAwaited, ExclusionUnlessBroken
      PROVE  WritersOverlapIfAbandoned
  <2> SUFFICES ASSUME NEW p \in Procs, NEW q \in Procs, p # q,
                      ~Abandoned(p), ~Abandoned(q)
               PROVE  liveBroken
    BY DEF WritersOverlapIfAbandoned
  <2>1. Holding(p) /\ Holding(q)
    BY <1>1 DEF Abandoned, AllAwaited, Awaited, Holding
  <2> QED  BY <1>1, <2>1 DEF ExclusionUnlessBroken, Exclusive
<1> QED  BY <1>1, AgentsAwaited, WritersExclude, PTL
=============================================================================
