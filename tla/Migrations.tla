------------------------------ MODULE Migrations ------------------------------
(***************************************************************************)
(* Bringing the database up to date (persistence/migrations.py), as every  *)
(* command does when it starts.  A migration is a script, which            *)
(* executescript() runs statement by statement, each committed on its own, *)
(* and a row in schema_migrations, inserted in a transaction that starts   *)
(* after the script.  Between any two of these steps another process may   *)
(* do the same, and any process may be killed.                             *)
(*                                                                         *)
(* A process stands for one terminal: it may start again after it has      *)
(* finished, failed or been killed.  The table schema_migrations itself is *)
(* created when it is missing before it is read; a missing table and an    *)
(* empty one are the same here.                                            *)
(***************************************************************************)
EXTENDS Naturals

CONSTANTS Procs,
          Last,           \* the number of migrations, numbered from 1
          Size,           \* Size[v]: the number of statements in v's script
          NotRepeatable   \* statements <<v, k>> that fail when their effect is
                          \* there: ALTER TABLE ... ADD COLUMN.  All others
                          \* say IF NOT EXISTS

Versions == 1..Last

ASSUME MigrationsAssumption ==
    /\ Last \in Nat
    /\ Size \in [Versions -> Nat \ {0}]
    /\ NotRepeatable \subseteq Nat \X Nat

VARIABLES
    objects,    \* the statements whose effect the database has
    recorded,   \* the versions with a row in schema_migrations
    pc,         \* what each process is about to do
    at,         \* the version and the number of the statement it has got to
    applied,    \* the rows it read when it started
    alone,      \* history: no other process was migrating while it did
    died        \* history: some process has been killed while migrating

vars == <<objects, recorded, pc, at, applied, alone, died>>

Statements(v) == {<<v, k>> : k \in 1..Size[v]}
AllStatements == UNION {Statements(v) : v \in Versions}

Nowhere == <<0, 0>>

Migrating(p) == pc[p] \in {"script", "record"}

TypeOK == /\ objects \subseteq AllStatements
          /\ recorded \subseteq Versions
          /\ pc \in [Procs -> {"off", "script", "record", "ready", "refused"}]
          /\ at \in [Procs -> AllStatements \cup {Nowhere}]
          /\ applied \in [Procs -> SUBSET Versions]
          /\ alone \in [Procs -> BOOLEAN]
          /\ died \in BOOLEAN
          /\ \A p \in Procs : Migrating(p) => at[p] # Nowhere

\* The database is new or was left by an earlier release.
Init == /\ \E r \in 0..Last : recorded = 1..r
        /\ objects = UNION {Statements(v) : v \in recorded}
        /\ pc = [p \in Procs |-> "off"]
        /\ at = [p \in Procs |-> Nowhere]
        /\ applied = [p \in Procs |-> {}]
        /\ alone = [p \in Procs |-> FALSE]
        /\ died = FALSE

-----------------------------------------------------------------------------
\* Mutant: the list is not sorted before it is gone through.
AnyPending(a, after) == {v \in Versions \ a : v # after}

\* The version the loop comes to next: the first after `after` that was not
\* among the applied ones.
NextPending(a, after) ==
    {v \in Versions \ a :
        v > after /\ \A w \in Versions \ a : w > after => v <= w}

\* The loop goes on with the next pending version, or ends.
GoOn(p, a, after) ==
    IF NextPending(a, after) = {}
      THEN /\ pc' = [pc EXCEPT ![p] = "ready"]
           /\ UNCHANGED at
      ELSE \E v \in NextPending(a, after) :
              /\ pc' = [pc EXCEPT ![p] = "script"]
              /\ at' = [at EXCEPT ![p] = <<v, 1>>]

\* initialize(): make sure of the table, read what has been applied.
Start(p) ==
    /\ ~Migrating(p)
    /\ applied' = [applied EXCEPT ![p] = recorded]
    /\ alone' = [q \in Procs |->
                   IF q = p THEN \A r \in Procs : ~Migrating(r)
                            ELSE alone[q] /\ ~Migrating(q)]
    /\ GoOn(p, recorded, 0)
    /\ UNCHANGED <<objects, recorded, died>>

Refuse(p) == /\ pc' = [pc EXCEPT ![p] = "refused"]
             /\ UNCHANGED <<objects, recorded, at, applied, alone, died>>

version(p) == at[p][1]
statement(p) == at[p][2]

\* Mutant: every statement fails when its effect is there (no IF NOT EXISTS).
EveryRepetitionFails(p) == at[p] \in objects

Fails(p) == at[p] \in objects /\ at[p] \in NotRepeatable

\* Mutant: a statement too many.
ScriptOverrun(p) ==
    /\ pc[p] = "script"
    /\ ~Fails(p)
    /\ objects' = objects \cup {at[p]}
    /\ IF statement(p) <= Size[version(p)]
         THEN /\ at' = [at EXCEPT ![p] = <<version(p), statement(p) + 1>>]
              /\ UNCHANGED pc
         ELSE /\ pc' = [pc EXCEPT ![p] = "record"]
              /\ UNCHANGED at
    /\ UNCHANGED <<recorded, applied, alone, died>>

\* Mutant: the row is inserted before the script is run.
RowBeforeScript(p) ==
    /\ pc[p] = "script"
    /\ ~Fails(p)
    /\ objects' = objects \cup {at[p]}
    /\ recorded' = recorded \cup {version(p)}
    /\ IF statement(p) < Size[version(p)]
         THEN /\ at' = [at EXCEPT ![p] = <<version(p), statement(p) + 1>>]
              /\ UNCHANGED pc
         ELSE GoOn(p, applied[p], version(p))
    /\ UNCHANGED <<applied, alone, died>>

\* executescript(): the next statement of the script, committed at once.
Statement(p) ==
    /\ pc[p] = "script"
    /\ ~Fails(p)
    /\ objects' = objects \cup {at[p]}
    /\ IF statement(p) < Size[version(p)]
         THEN /\ at' = [at EXCEPT ![p] = <<version(p), statement(p) + 1>>]
              /\ UNCHANGED pc
         ELSE /\ pc' = [pc EXCEPT ![p] = "record"]
              /\ UNCHANGED at
    /\ UNCHANGED <<recorded, applied, alone, died>>

\* A column that is there already: PersistenceError, the command ends.
StatementFails(p) == pc[p] = "script" /\ Fails(p) /\ Refuse(p)

\* The row of the version, in a transaction of its own.
Record(p) ==
    /\ pc[p] = "record"
    /\ version(p) \notin recorded
    /\ recorded' = recorded \cup {version(p)}
    /\ GoOn(p, applied[p], version(p))
    /\ UNCHANGED <<objects, applied, alone, died>>

\* Mutant: a failed migration is taken back by deleting its row.
RecordUndone(p) ==
    /\ pc[p] = "record"
    /\ version(p) \in recorded
    /\ recorded' = recorded \ {version(p)}
    /\ pc' = [pc EXCEPT ![p] = "refused"]
    /\ UNCHANGED <<objects, at, applied, alone, died>>

\* Somebody else has inserted the row since: the primary key is violated, and
\* the command ends with PersistenceError.
RecordFails(p) == pc[p] = "record" /\ version(p) \in recorded /\ Refuse(p)

\* The process is killed, or a statement fails for want of space or because
\* the database stays locked for 15 seconds: what has been committed stays.
Die(p) ==
    /\ Migrating(p)
    /\ pc' = [pc EXCEPT ![p] = "off"]
    /\ died' = TRUE
    /\ UNCHANGED <<objects, recorded, at, applied, alone>>

Proceed(p) == \/ Statement(p)
              \/ StatementFails(p)
              \/ Record(p)
              \/ RecordFails(p)

Next == \E p \in Procs : Start(p) \/ Proceed(p) \/ Die(p)

\* apply_migrations() awaits nobody: a process that is not killed goes on.
Fairness == \A p \in Procs : WF_vars(Proceed(p))

Spec == Init /\ [][Next]_vars /\ Fairness

-----------------------------------------------------------------------------
(* Properties *)

Installed(v) == v \in recorded /\ Statements(v) \subseteq objects

\* What schema_migrations claims is there: no death, no second process and no
\* failed statement makes a later start skip a script that did not run.
RecordedIsThere == \A v \in recorded : Installed(v)

\* A command that goes past initialize() finds the whole schema, whoever
\* migrated it and however often it was interrupted.
ReadyIsCurrent == \A p \in Procs : pc[p] = "ready" =>
                                      \A v \in Versions : Installed(v)

\* Of several processes that migrate at once some are refused, but never the
\* one in front: while nobody is killed, a refused one was overtaken by one
\* that has finished or is still at it.
RefusedIsOvertaken ==
    ~died /\ (\E p \in Procs : pc[p] = "refused") =>
        \/ recorded = Versions
        \/ \E q \in Procs : Migrating(q)

\* Somebody ran s, did not record its version, and is not about to.
Orphaned(s) ==
    /\ s \in objects \cap NotRepeatable
    /\ s[1] \notin recorded
    /\ \A q \in Procs : Migrating(q) /\ version(q) = s[1] =>
            pc[q] = "script" /\ statement(q) <= s[2]

\* A start with no other beside it, after whatever deaths, is refused for one
\* reason only: an added column whose version was not recorded; and that is
\* never repaired.
LoneStartSucceeds ==
    \A p \in Procs : pc[p] = "refused" /\ alone[p] =>
        \E s \in NotRepeatable : Orphaned(s)

\* Migrating ends with the whole schema, unless somebody is killed.
UpgradeEnds == (\E p \in Procs : Migrating(p)) ~> (died \/ recorded = Versions)

Schema == INSTANCE SchemaVersion
            WITH installed <- {v \in recorded : Statements(v) \subseteq objects}

\* The versions installed follow the abstract schema, through every overlap
\* and every death.
ImplementsSchema == Schema!Spec

\* apply_migrations(): "Apply any pending migrations in ascending order within
\* individual transactions": with nobody at it, a script has run as a whole
\* and is recorded, or nothing of it has happened.
MigrationIsTransaction ==
    (\A p \in Procs : ~Migrating(p)) =>
        \A v \in Versions : Installed(v) \/ Statements(v) \cap objects = {}
=============================================================================
