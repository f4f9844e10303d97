------------------------------ MODULE AtomicLock ------------------------------
(***************************************************************************)
(* What a lock promises: at any moment at most one process holds it.       *)
(* LockFile, the lock the code builds from a file, implements this         *)
(* specification as long as nobody breaks stale locks.                     *)
(***************************************************************************)
CONSTANTS Procs,   \* processes that use the lock
          NoProc   \* not a process: the value of holder when the lock is free

VARIABLE holder

TypeOK == holder \in Procs \cup {NoProc}

Init == holder = NoProc

Take(p) == /\ holder = NoProc
           /\ holder' = p

\* A release, or the death of the holder.
Drop(p) == /\ holder = p
           /\ holder' = NoProc

Next == \E p \in Procs : Take(p) \/ Drop(p)

Spec == Init /\ [][Next]_holder
=============================================================================
