---------------------------- MODULE LockFileProofs ----------------------------
(* Theorems about LockFile, for every set of processes and of breakers. *)
EXTENDS LockFile, TLAPS

\* The two contents a process can leave in the file it created.
LEMMA OwnFile ==
    ASSUME NEW p \in Procs, NEW b \in BOOLEAN
    PROVE  [owner |-> p, written |-> b] \in Files
BY Zenon DEF Files

\* The state of LockFile always has its type.
THEOREM TypeCorrect == Spec => []TypeOK
<1> USE ProcsAssumption DEF TypeOK, Phases, GoTo
<1>0. Absent \in Files
  BY DEF Files
<1>1. Init => TypeOK
  BY <1>0 DEF Init
<1>2. TypeOK /\ [Next]_vars => TypeOK'
  <2> SUFFICES ASSUME TypeOK, [Next]_vars PROVE TypeOK'
    OBVIOUS
  <2>1. ASSUME NEW p \in Procs, CheckStale(p) PROVE TypeOK'
    <3>1. file.owner \in Procs \cup {NoProc}
      BY DEF Files, Absent
    <3>2. QED
      BY <2>1, <3>1 DEF CheckStale
  <2>2. ASSUME NEW p \in Procs, Probe(p) PROVE TypeOK'
    BY <2>2 DEF Probe
  <2>3. ASSUME NEW p \in Procs, ForceRemove(p) PROVE TypeOK'
    BY <1>0, <2>3 DEF ForceRemove
  <2>4. ASSUME NEW p \in Procs, Create(p) PROVE TypeOK'
    <3>1. CASE file = Absent
      <4>1. file' = [owner |-> p, written |-> FALSE]
        BY <2>4, <3>1 DEF Create
      <4>2. file' \in Files
        BY <4>1, OwnFile
      <4>3. QED
        BY <2>4, <3>1, <4>2 DEF Create
    <3>2. CASE file # Absent
      BY <2>4, <3>2 DEF Create
    <3>3. QED
      BY <3>1, <3>2
  <2>5. ASSUME NEW p \in Procs, WritePayload(p) PROVE TypeOK'
    <3>1. CASE file.owner = p
      <4>1. file' = [owner |-> p, written |-> TRUE]
        BY <2>5, <3>1 DEF WritePayload
      <4>2. file' \in Files
        BY <4>1, OwnFile
      <4>3. QED
        BY <2>5, <4>2 DEF WritePayload
    <3>2. CASE file.owner # p
      BY <2>5, <3>2 DEF WritePayload
    <3>3. QED
      BY <3>1, <3>2
  <2>6. ASSUME NEW p \in Procs, WriteFails(p) PROVE TypeOK'
    BY <2>6 DEF WriteFails
  <2>7. ASSUME NEW p \in Procs, ReadBack(p) PROVE TypeOK'
    BY <2>7 DEF ReadBack
  <2>8. ASSUME NEW p \in Procs, Unlink(p) PROVE TypeOK'
    BY <1>0, <2>8 DEF Unlink
  <2>9. ASSUME NEW p \in Procs, Die(p) PROVE TypeOK'
    BY <2>9 DEF Die
  <2>10. CASE UNCHANGED vars
    BY <2>10 DEF vars
  <2>11. QED
    BY <2>1, <2>2, <2>3, <2>4, <2>5, <2>6, <2>7, <2>8, <2>9, <2>10
       DEF Next, Step
<1>3. QED
  BY <1>1, <1>2, PTL DEF Spec

-----------------------------------------------------------------------------
\* The inductive invariant behind exclusion: until a live holder's file has
\* been unlinked, every holder finds its own file under the lock's path.
HoldersOwnTheFile == liveBroken \/ \A p \in Procs : Holding(p) => file.owner = p

LEMMA OwnershipIsInductive ==
    TypeOK /\ HoldersOwnTheFile /\ [Next]_vars => HoldersOwnTheFile'
<1> SUFFICES ASSUME TypeOK, HoldersOwnTheFile, [Next]_vars
             PROVE  HoldersOwnTheFile'
  OBVIOUS
<1> USE ProcsAssumption
    DEF TypeOK, Files, Absent, Phases, GoTo, Holding, HoldersOwnTheFile
<1>1. ASSUME NEW p \in Procs, CheckStale(p) PROVE HoldersOwnTheFile'
  BY <1>1 DEF CheckStale
<1>2. ASSUME NEW p \in Procs, Probe(p) PROVE HoldersOwnTheFile'
  BY <1>2 DEF Probe
<1>3. ASSUME NEW p \in Procs, ForceRemove(p) PROVE HoldersOwnTheFile'
  \* Either the file belongs to a live holder, and liveBroken records it, or
  \* nobody holds the lock and removing the file hurts nobody.
  <2>1. CASE \E q \in Procs : file.owner = q /\ Holding(q)
    BY <1>3, <2>1 DEF ForceRemove
  <2>2. CASE ~ \E q \in Procs : file.owner = q /\ Holding(q)
    <3>1. liveBroken \/ \A q \in Procs : ~Holding(q)
      BY <2>2
    <3>2. liveBroken' \/ \A q \in Procs : ~Holding(q)'
      BY <1>3, <2>2, <3>1 DEF ForceRemove
    <3>3. QED
      BY <3>2
  <2>3. QED
    BY <2>1, <2>2
<1>4. ASSUME NEW p \in Procs, Create(p) PROVE HoldersOwnTheFile'
  \* The file can only be created when it is absent, so when nobody holds.
  <2>1. CASE file = Absent
    BY <1>4, <2>1 DEF Create
  <2>2. CASE file # Absent
    BY <1>4, <2>2 DEF Create
  <2>3. QED
    BY <2>1, <2>2
<1>5. ASSUME NEW p \in Procs, WritePayload(p) PROVE HoldersOwnTheFile'
  <2>1. file'.owner = file.owner
    BY <1>5 DEF WritePayload
  <2>2. QED
    BY <1>5, <2>1 DEF WritePayload
<1>6. ASSUME NEW p \in Procs, WriteFails(p) PROVE HoldersOwnTheFile'
  BY <1>6 DEF WriteFails
<1>7. ASSUME NEW p \in Procs, ReadBack(p) PROVE HoldersOwnTheFile'
  BY <1>7 DEF ReadBack
<1>8. ASSUME NEW p \in Procs, Unlink(p) PROVE HoldersOwnTheFile'
  \* The file was p's, so p was the only holder.
  BY <1>8 DEF Unlink
<1>9. ASSUME NEW p \in Procs, Die(p) PROVE HoldersOwnTheFile'
  BY <1>9 DEF Die
<1>10. CASE UNCHANGED vars
  BY <1>10 DEF vars
<1>11. QED
  BY <1>1, <1>2, <1>3, <1>4, <1>5, <1>6, <1>7, <1>8, <1>9, <1>10
     DEF Next, Step

\* In every behaviour a holder's file is its own until a live lock is broken.
THEOREM Ownership == Spec => []HoldersOwnTheFile
<1>1. Init => HoldersOwnTheFile
  BY DEF Init, HoldersOwnTheFile, Holding
<1>2. QED
  BY <1>1, TypeCorrect, OwnershipIsInductive, PTL DEF Spec

\* Exclusion is lost through a broken live lock or not at all, however many
\* processes acquire, release and die, in whatever order.
THEOREM ExclusionHolds == Spec => []ExclusionUnlessBroken
<1>1. HoldersOwnTheFile => ExclusionUnlessBroken
  BY DEF HoldersOwnTheFile, ExclusionUnlessBroken, Exclusive
<1>2. QED
  BY <1>1, Ownership, PTL

\* release() unlinks the caller's own file, although it checks and unlinks in
\* two system calls, until a live lock has been broken.
THEOREM ReleaseSafety == Spec => ReleaseIsSafe
<1>1. HoldersOwnTheFile => UnlinksItsOwnFile
  BY DEF HoldersOwnTheFile, UnlinksItsOwnFile, Holding, Unlink
<1>2. QED
  BY <1>1, Ownership, PTL DEF ReleaseIsSafe

-----------------------------------------------------------------------------
\* Without breakers no process ever reaches the removal of a stale file, so no
\* live lock is broken.
NobodyBreaks ==
    Breakers = {} => /\ ~liveBroken
                     /\ \A p \in Procs : pc[p] \notin {"probe", "remove"}

THEOREM NoBreakersNoBreaks == Spec => []NobodyBreaks
<1> USE DEF NobodyBreaks
<1>1. Init => NobodyBreaks
  BY DEF Init
<1>2. TypeOK /\ NobodyBreaks /\ [Next]_vars => NobodyBreaks'
  BY DEF TypeOK, Next, Step, vars, GoTo, CheckStale, Probe, ForceRemove, Create,
         WritePayload, WriteFails, ReadBack, Unlink, Die
<1>3. QED
  BY <1>1, <1>2, TypeCorrect, PTL DEF Spec

\* An ordinary acquire, which never breaks a lock, gives mutual exclusion.
THEOREM PlainExclusion ==
    ASSUME Breakers = {}
    PROVE  Spec => []Exclusive
<1>1. NobodyBreaks /\ HoldersOwnTheFile => Exclusive
  BY DEF NobodyBreaks, HoldersOwnTheFile, Exclusive
<1>2. QED
  BY <1>1, NoBreakersNoBreaks, Ownership, PTL

-----------------------------------------------------------------------------
\* What the abstract holder is when the lock is exclusive.
LEMMA HolderWhenExclusive ==
    ASSUME Exclusive
    PROVE  /\ \A p \in Procs : Holding(p) => holder = p
           /\ (\A p \in Procs : ~Holding(p)) => holder = NoProc
BY DEF Exclusive, holder

\* The same, one state later.
LEMMA NextHolderWhenExclusive ==
    ASSUME Exclusive'
    PROVE  /\ \A p \in Procs : Holding(p)' => holder' = p
           /\ (\A p \in Procs : ~Holding(p)') => holder' = NoProc
BY DEF Exclusive, holder

\* A step of p that leaves everybody else's phase alone, seen from the
\* abstract lock: p takes it, drops it, or nothing happens.
LEMMA StepMapsToAtomicStep ==
    ASSUME Exclusive, Exclusive', NEW p \in Procs,
           \A q \in Procs : q # p => Holding(q)' = Holding(q),
           Holding(p)' /\ ~Holding(p) => \A q \in Procs : ~Holding(q)
    PROVE  [Atomic!Next]_holder
<1>1. CASE Holding(p)' /\ ~Holding(p)
  <2>1. holder = NoProc /\ holder' = p
    BY <1>1, HolderWhenExclusive, NextHolderWhenExclusive
  <2>2. QED
    BY <2>1 DEF Atomic!Next, Atomic!Take
<1>2. CASE Holding(p) /\ ~Holding(p)'
  <2>1. \A q \in Procs : ~Holding(q)'
    BY <1>2 DEF Exclusive
  <2>2. holder = p /\ holder' = NoProc
    BY <1>2, <2>1, HolderWhenExclusive, NextHolderWhenExclusive
  <2>3. QED
    BY <2>2 DEF Atomic!Next, Atomic!Drop
<1>3. CASE Holding(p)' = Holding(p)
  <2>1. \A q \in Procs : Holding(q)' = Holding(q)
    BY <1>3
  <2>2. CASE \E q \in Procs : Holding(q)
    BY <2>1, <2>2, HolderWhenExclusive, NextHolderWhenExclusive
  <2>3. CASE \A q \in Procs : ~Holding(q)
    BY <2>1, <2>3, HolderWhenExclusive, NextHolderWhenExclusive
  <2>4. QED
    BY <2>2, <2>3
<1>4. QED
  BY <1>1, <1>2, <1>3 DEF Holding

\* While nobody's live lock is broken, a step on the file is a step of the
\* atomic lock, or none.
LEMMA StepIsAtomic ==
    ASSUME TypeOK, HoldersOwnTheFile, ~liveBroken, Exclusive, Exclusive',
           [Next]_vars
    PROVE  [Atomic!Next]_holder
<1>1. CASE UNCHANGED vars
  BY <1>1 DEF vars, holder, Holding
<1>2. ASSUME NEW p \in Procs, Step(p) PROVE [Atomic!Next]_holder
  <2>1. \E phase : pc' = [pc EXCEPT ![p] = phase]
    BY <1>2 DEF Step, GoTo, CheckStale, Probe, ForceRemove, Create,
                WritePayload, WriteFails, ReadBack, Unlink, Die
  <2>2. \A q \in Procs : q # p => pc'[q] = pc[q]
    BY <2>1 DEF TypeOK
  <2>3. \A q \in Procs : q # p => Holding(q)' = Holding(q)
    BY <2>2 DEF Holding
  <2>4. Holding(p)' /\ ~Holding(p) => file = Absent
    <3>1. ASSUME Holding(p)', ~Holding(p) PROVE Create(p)
      BY <1>2, <3>1
         DEF TypeOK, Step, GoTo, Holding, CheckStale, Probe, ForceRemove,
             WritePayload, WriteFails, ReadBack, Unlink, Die
    <3>2. Create(p) /\ file # Absent => ~Holding(p)'
      BY DEF TypeOK, Create, GoTo, Holding
    <3>3. QED
      BY <3>1, <3>2
  <2>5. file = Absent => \A q \in Procs : ~Holding(q)
    BY ProcsAssumption DEF HoldersOwnTheFile, Absent
  <2>6. QED
    BY <2>3, <2>4, <2>5, StepMapsToAtomicStep
<1>3. QED
  BY <1>1, <1>2 DEF Next

\* Whoever breaks stale locks, the lock file, with its system calls interleaved
\* and its users dying at any of them, behaves as an atomic lock up to the
\* moment the file of a live holder is unlinked.
THEOREM LockIsAtomicUntilBroken == Spec => AtomicUntilBroken
<1>1. Init => Atomic!Init
  BY DEF Init, Atomic!Init, holder, Holding
<1>2. ASSUME TypeOK, HoldersOwnTheFile, HoldersOwnTheFile', [Next]_vars
      PROVE  [Atomic!Next \/ liveBroken']_holder
  <2>1. CASE liveBroken'
    BY <2>1
  <2>2. CASE ~liveBroken'
    <3>1. ~liveBroken
      BY <1>2, <2>2
         DEF TypeOK, vars, Next, Step, CheckStale, Probe, ForceRemove, Create,
             WritePayload, WriteFails, ReadBack, Unlink, Die
    <3>2. Exclusive /\ Exclusive'
      BY <1>2, <2>2, <3>1 DEF HoldersOwnTheFile, Exclusive
    <3>3. QED
      BY <1>2, <3>1, <3>2, StepIsAtomic
  <2>3. QED
    BY <2>1, <2>2
<1>3. QED
  BY <1>1, <1>2, TypeCorrect, Ownership, PTL DEF Spec, AtomicUntilBroken

\* Without breakers the lock file is an atomic lock.
THEOREM PlainLockIsAtomic ==
    ASSUME Breakers = {}
    PROVE  Spec => Atomic!Spec
<1>1. NobodyBreaks => ~liveBroken
  BY DEF NobodyBreaks
<1>2. ASSUME ~liveBroken', [Atomic!Next \/ liveBroken']_holder
      PROVE  [Atomic!Next]_holder
  BY <1>2
<1>3. QED
  BY <1>1, <1>2, LockIsAtomicUntilBroken, NoBreakersNoBreaks, PTL
     DEF AtomicUntilBroken, Atomic!Spec
=============================================================================
