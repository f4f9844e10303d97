------------------------------- MODULE LockFile -------------------------------
(***************************************************************************)
(* The lock file behind RunLock and WorktreeLock (concurrency/lockfile.py),*)
(* one action per system call on the file: acquire() reads the file,       *)
(* probes the pid it names, unlinks it, creates it with O_CREAT | O_EXCL   *)
(* and only then writes the payload; release() reads the payload back and  *)
(* unlinks.  Between any two of these calls another process may run, and   *)
(* any process may die.                                                    *)
(*                                                                         *)
(* A process is one invocation of agentflow.  Its payload (owner, pid,     *)
(* acquired_at) is distinct from everybody else's, so the process itself   *)
(* stands for it.  A dead process never comes back: its pid is taken not   *)
(* to be reused.                                                           *)
(***************************************************************************)
CONSTANTS Procs,      \* invocations of agentflow that use this lock
          Breakers,   \* those that may call acquire(break_stale=True)
          NoProc      \* "no process"

ASSUME ProcsAssumption == Breakers \subseteq Procs /\ NoProc \notin Procs

VARIABLES
    file,       \* the lock file: Absent, or who created it and whether the
                \* payload has been written into it
    pc,         \* what each process is about to do
    seen,       \* the owner read from the file by an acquire that breaks
                \* stale locks
    liveBroken  \* history: a breaker has unlinked the file of a live holder

vars == <<file, pc, seen, liveBroken>>

Absent == [owner |-> NoProc, written |-> FALSE]
Files == [owner : Procs, written : BOOLEAN] \cup {Absent}

Phases == {"idle", "probe", "remove", "create", "write", "held", "unlink",
           "dead"}

TypeOK == /\ file \in Files
          /\ pc \in [Procs -> Phases]
          /\ seen \in [Procs -> Procs \cup {NoProc}]
          /\ liveBroken \in BOOLEAN

Init == /\ file = Absent
        /\ pc = [p \in Procs |-> "idle"]
        /\ seen = [p \in Procs |-> NoProc]
        /\ liveBroken = FALSE

GoTo(p, phase) == pc' = [pc EXCEPT ![p] = phase]

is_process_alive(p) == pc[p] # "dead"

\* From the moment the file is created until it is unlinked, p holds the lock.
Holding(p) == pc[p] \in {"write", "held", "unlink"}

\* read_info() returns None for a missing file and for one whose payload has
\* not been written yet: neither counts as stale.
Readable == file.written

-----------------------------------------------------------------------------
\* acquire(), first half: with break_stale it looks at an existing file first;
\* without it, or when there is nothing to read, it goes on to create one.
CheckStale(p) ==
    /\ pc[p] = "idle"
    /\ \/ /\ p \in Breakers /\ Readable
          /\ seen' = [seen EXCEPT ![p] = file.owner]
          /\ GoTo(p, "probe")
       \/ /\ seen' = [seen EXCEPT ![p] = NoProc]
          /\ GoTo(p, "create")
    /\ UNCHANGED <<file, liveBroken>>

\* is_stale(): is the pid read from the file still running?
Probe(p) ==
    /\ pc[p] = "probe"
    /\ GoTo(p, IF is_process_alive(seen[p]) THEN "create" ELSE "remove")
    /\ UNCHANGED <<file, seen, liveBroken>>

\* _force_remove() unlinks whatever the path names by now.
ForceRemove(p) ==
    /\ pc[p] = "remove"
    /\ liveBroken' = (liveBroken \/ \E q \in Procs : file.owner = q /\ Holding(q))
    /\ file' = Absent
    /\ GoTo(p, "create")
    /\ UNCHANGED seen

\* Mutants of Create: the file is opened without O_EXCL ...
CreateNotExclusive(p) ==
    /\ pc[p] = "create"
    /\ file' = [owner |-> p, written |-> FALSE]
    /\ GoTo(p, "write")
    /\ UNCHANGED <<seen, liveBroken>>

\* ... or a failed acquire cleans up after itself with an unlink.
CreateUnlinksOnFailure(p) ==
    /\ pc[p] = "create"
    /\ IF file = Absent
         THEN /\ file' = [owner |-> p, written |-> FALSE]
              /\ GoTo(p, "write")
         ELSE /\ UNCHANGED file
              /\ GoTo(p, "unlink")
    /\ UNCHANGED <<seen, liveBroken>>

\* O_CREAT | O_EXCL: an existing file means LockHeldError.
Create(p) ==
    /\ pc[p] = "create"
    /\ IF file = Absent
         THEN /\ file' = [owner |-> p, written |-> FALSE]
              /\ GoTo(p, "write")
         ELSE /\ UNCHANGED file
              /\ GoTo(p, "idle")
    /\ UNCHANGED <<seen, liveBroken>>

\* Mutant: the payload is written to the path, whatever it names.
WriteToPath(p) ==
    /\ pc[p] = "write"
    /\ file' = [file EXCEPT !.written = TRUE]
    /\ GoTo(p, "held")
    /\ UNCHANGED <<seen, liveBroken>>

\* The payload goes to the file p created, if the path still names it.
WritePayload(p) ==
    /\ pc[p] = "write"
    /\ file' = IF file.owner = p THEN [owner |-> p, written |-> TRUE] ELSE file
    /\ GoTo(p, "held")
    /\ UNCHANGED <<seen, liveBroken>>

\* f.write raises (disk full): the file stays, and _owned_payload is not set,
\* so a later release() does nothing.
WriteFails(p) ==
    /\ pc[p] = "write"
    /\ GoTo(p, "idle")
    /\ UNCHANGED <<file, seen, liveBroken>>

\* release(), first half: is the payload in the file still ours?
ReadBack(p) ==
    /\ pc[p] = "held"
    /\ GoTo(p, IF file.owner = p /\ file.written THEN "unlink" ELSE "idle")
    /\ UNCHANGED <<file, seen, liveBroken>>

\* release(), second half: unlink whatever the path names by now.
Unlink(p) ==
    /\ pc[p] = "unlink"
    /\ file' = Absent
    /\ GoTo(p, "idle")
    /\ UNCHANGED <<seen, liveBroken>>

\* The process ends: normally between two uses of the lock, or by a crash.
Die(p) ==
    /\ pc[p] # "dead"
    /\ GoTo(p, "dead")
    /\ UNCHANGED <<file, seen, liveBroken>>

Step(p) == \/ CheckStale(p)
           \/ Probe(p)
           \/ ForceRemove(p)
           \/ Create(p)
           \/ WritePayload(p)
           \/ WriteFails(p)
           \/ ReadBack(p)
           \/ Unlink(p)
           \/ Die(p)

Next == \E p \in Procs : Step(p)

Spec == Init /\ [][Next]_vars

-----------------------------------------------------------------------------
(* Properties *)

Exclusive == \A p, q \in Procs : Holding(p) /\ Holding(q) => p = q

\* Nobody holds the lock together with somebody else unless a breaker has
\* unlinked the file of a live holder: creating with O_EXCL, release() and
\* deaths at any point never lose exclusion by themselves.
ExclusionUnlessBroken == liveBroken \/ Exclusive

\* release() "without removing another owner's lock": although it reads the
\* payload and unlinks in two steps, the file it unlinks is the caller's own,
\* unless a live holder's file has been broken before.
UnlinksItsOwnFile ==
    \A p \in Procs : Unlink(p) => liveBroken \/ file.owner = p
ReleaseIsSafe == [][UnlinksItsOwnFile]_vars

\* acquire(): "a live owner's lock is never broken automatically, regardless
\* of break_stale".
LiveLockNeverBroken == ~liveBroken

\* The holder the abstract lock sees.
holder == IF \E p \in Procs : Holding(p)
            THEN CHOOSE p \in Procs : Holding(p)
            ELSE NoProc

Atomic == INSTANCE AtomicLock

\* As an atomic lock: its steps are the creation of the file, the release and
\* the death of the holder, up to the moment a breaker unlinks the file of a
\* live holder.
AtomicUntilBroken == Atomic!Init /\ [][Atomic!Next \/ liveBroken']_holder
=============================================================================
