---------------------------- MODULE MigrationsProofs ----------------------------
(***************************************************************************)
(* Theorems about Migrations, for any number of processes and any list of  *)
(* migrations, scripts of any length with any statements that cannot be    *)
(* repeated.                                                               *)
(***************************************************************************)
EXTENDS Migrations, WellFoundedInduction, TLAPS

\* Versions are recorded in order ...
RecordedInOrder == \A v \in recorded, w \in Versions : w < v => w \in recorded

\* ... and a script is only begun when those before it are recorded.
BegunInOrder == \A s \in objects, w \in Versions : w < s[1] => w \in recorded

\* How far a process that is migrating has got, and what that rests on.
Progress(p) ==
    Migrating(p) =>
        /\ applied[p] \subseteq recorded
        /\ version(p) \notin applied[p]
        /\ \A w \in Versions : w < version(p) => w \in recorded
        /\ \A k \in 1..Size[version(p)] :
              k < statement(p) \/ pc[p] = "record" =>
                  <<version(p), k>> \in objects

ReadyHasAll == \A p \in Procs : pc[p] = "ready" => recorded = Versions

\* The process in front: it is at the first version that is not recorded, and
\* what cannot be repeated there it has done itself.
Leads(r) ==
    /\ Migrating(r)
    /\ version(r) \notin recorded
    /\ \A s \in objects \cap NotRepeatable :
          s[1] = version(r) => s[2] < statement(r) \/ pc[r] = "record"

Untouched == /\ \A p \in Procs : pc[p] = "off"
             /\ \A s \in objects : s[1] \in recorded

SomeoneLeads == died \/ recorded = Versions \/ Untouched
                     \/ \E r \in Procs : Leads(r)

LoneIsLone ==
    \A p \in Procs : Migrating(p) /\ alone[p] =>
        /\ \A q \in Procs : Migrating(q) => q = p
        /\ version(p) \notin recorded

IInv == /\ TypeOK
        /\ RecordedInOrder
        /\ BegunInOrder
        /\ RecordedIsThere
        /\ \A p \in Procs : Progress(p)
        /\ ReadyHasAll
        /\ SomeoneLeads
        /\ LoneIsLone
        /\ LoneStartSucceeds

-----------------------------------------------------------------------------
(* Statements, and where the loop goes next *)

LEMMA StatementIsPair ==
    ASSUME NEW s \in AllStatements
    PROVE  /\ s = <<s[1], s[2]>>
           /\ s[1] \in Versions
           /\ s[2] \in 1..Size[s[1]]
           /\ s # Nowhere
BY MigrationsAssumption DEF AllStatements, Statements, Nowhere, Versions

LEMMA PairIsStatement ==
    ASSUME NEW v \in Versions, NEW k \in 1..Size[v]
    PROVE  <<v, k>> \in AllStatements
BY DEF AllStatements, Statements

LEMMA SizeIsPositive ==
    ASSUME NEW v \in Versions
    PROVE  Size[v] \in Nat /\ 1 \in 1..Size[v]
BY MigrationsAssumption

\* A process that is migrating stands at a statement.
LEMMA MigratingIsSomewhere ==
    ASSUME TypeOK, NEW p \in Procs, Migrating(p)
    PROVE  /\ at[p] \in AllStatements
           /\ at[p] = <<version(p), statement(p)>>
           /\ version(p) \in Versions
           /\ statement(p) \in 1..Size[version(p)]
<1>1. at[p] \in AllStatements
  BY DEF TypeOK
<1> QED  BY <1>1, StatementIsPair DEF version, statement

LEMMA LeastExists ==
    ASSUME NEW S \in SUBSET Nat, S # {}
    PROVE  \E v \in S : \A w \in S : v <= w
<1>1. PICK v \in S : \A w \in S : <<w, v>> \notin OpToRel(<, Nat)
  BY NatLessThanWellFounded, WFMin, Zenon
<1>2. \A w \in S : <<w, v>> \in Nat \X Nat
  OBVIOUS
<1>3. \A w \in S : ~(w < v)
  BY <1>1, <1>2, Zenon DEF OpToRel
<1> QED  BY <1>3

LEMMA NoPendingMeansAll ==
    ASSUME NEW a \in SUBSET Versions, NEW n \in Nat, NextPending(a, n) = {}
    PROVE  \A v \in Versions : v > n => v \in a
<1> SUFFICES ASSUME NEW v \in Versions, v > n, v \notin a
             PROVE  FALSE
  OBVIOUS
<1> DEFINE S == {w \in Versions \ a : w > n}
<1>1. S \in SUBSET Nat /\ S # {}
  BY DEF Versions
<1>2. PICK u \in S : \A w \in S : u <= w
  BY <1>1, LeastExists
<1>3. u \in NextPending(a, n)
  BY <1>2 DEF NextPending
<1> QED  BY <1>3

\* The process p moves on past n, and nobody else does.
Moved(p, a, n) ==
    /\ \A q \in Procs : q # p => pc'[q] = pc[q] /\ at'[q] = at[q]
    /\ pc' \in [Procs -> {"off", "script", "record", "ready", "refused"}]
    /\ at' \in [Procs -> AllStatements \cup {Nowhere}]
    /\ \/ /\ pc'[p] = "ready"
          /\ \A v \in Versions : v > n => v \in a
       \/ /\ pc'[p] = "script"
          /\ \E v \in Versions \ a :
                /\ at'[p] = <<v, 1>>
                /\ v > n
                /\ \A w \in Versions : n < w /\ w < v => w \in a

LEMMA GoOnMoves ==
    ASSUME TypeOK, NEW p \in Procs, NEW a \in SUBSET Versions, NEW n \in Nat,
           GoOn(p, a, n)
    PROVE  Moved(p, a, n)
<1>1. CASE NextPending(a, n) = {}
  BY <1>1, NoPendingMeansAll DEF GoOn, Moved, TypeOK
<1>2. CASE NextPending(a, n) # {}
  <2>1. PICK v \in NextPending(a, n) :
           /\ pc' = [pc EXCEPT ![p] = "script"]
           /\ at' = [at EXCEPT ![p] = <<v, 1>>]
    BY <1>2 DEF GoOn
  <2>2. v \in Versions \ a /\ v > n /\ \A w \in Versions \ a : w > n => v <= w
    BY DEF NextPending
  <2>3. <<v, 1>> \in AllStatements
    BY <2>2, PairIsStatement, SizeIsPositive
  <2>4. \A w \in Versions : n < w /\ w < v => w \in a
    BY <2>2 DEF Versions
  <2>5. pc'[p] = "script" /\ at'[p] = <<v, 1>>
    BY <2>1 DEF TypeOK
  <2>6. /\ pc' \in [Procs -> {"off", "script", "record", "ready", "refused"}]
        /\ at' \in [Procs -> AllStatements \cup {Nowhere}]
        /\ \A q \in Procs : q # p => pc'[q] = pc[q] /\ at'[q] = at[q]
    BY <2>1, <2>3 DEF TypeOK
  <2> QED  BY <2>2, <2>4, <2>5, <2>6 DEF Moved
<1> QED  BY <1>1, <1>2

\* What Start, Statement and Record share: when p has moved past n, the others
\* are where they were.
LEMMA OthersStay ==
    ASSUME NEW p \in Procs, NEW q \in Procs, q # p,
           \A r \in Procs : r # p => pc'[r] = pc[r] /\ at'[r] = at[r]
    PROVE  /\ Migrating(q)' = Migrating(q)
           /\ version(q)' = version(q)
           /\ statement(q)' = statement(q)
BY DEF Migrating, version, statement

LEMMA MovedTypes ==
    ASSUME TypeOK, NEW p \in Procs, NEW a \in SUBSET Versions, NEW n \in Nat,
           Moved(p, a, n)
    PROVE  \A q \in Procs : Migrating(q)' => at'[q] # Nowhere
<1>1. \A q \in Procs : q # p => (Migrating(q)' => at'[q] # Nowhere)
  BY DEF Moved, Migrating, TypeOK
<1>2. Migrating(p)' => at'[p] # Nowhere
  BY DEF Moved, Migrating, Nowhere, Versions
<1> QED  BY <1>1, <1>2

\* Where p stands after it has moved on to a script.
LEMMA MovedPlace ==
    ASSUME NEW p \in Procs, NEW a \in SUBSET Versions, NEW n \in Nat,
           Moved(p, a, n), pc'[p] = "script"
    PROVE  /\ version(p)' \in Versions \ a
           /\ version(p)' > n
           /\ statement(p)' = 1
           /\ \A w \in Versions : n < w /\ w < version(p)' => w \in a
BY DEF Moved, version, statement

-----------------------------------------------------------------------------
(* Start *)

LEMMA StartMoves ==
    ASSUME TypeOK, NEW p \in Procs, Start(p)
    PROVE  Moved(p, recorded, 0)
BY GoOnMoves DEF Start, TypeOK

LEMMA StartTypes ==
    ASSUME TypeOK, NEW p \in Procs, Start(p)
    PROVE  TypeOK'
<1>1. Moved(p, recorded, 0)
  BY StartMoves
<1>2. \A q \in Procs : Migrating(q)' => at'[q] # Nowhere
  BY <1>1, MovedTypes DEF TypeOK
<1>3. applied' \in [Procs -> SUBSET Versions]
  BY DEF Start, TypeOK
<1>4. alone' \in [Procs -> BOOLEAN]
  <2>1. \A q \in Procs :
           (IF q = p THEN \A r \in Procs : ~Migrating(r)
                     ELSE alone[q] /\ ~Migrating(q)) \in BOOLEAN
    OBVIOUS
  <2> QED  BY <2>1, Zenon DEF Start
<1>5. objects' = objects /\ recorded' = recorded /\ died' = died
  BY DEF Start
<1> QED  BY <1>1, <1>2, <1>3, <1>4, <1>5 DEF TypeOK, Moved

LEMMA StartProgress ==
    ASSUME IInv, NEW p \in Procs, Start(p)
    PROVE  \A q \in Procs : Progress(q)'
<1>1. Moved(p, recorded, 0) /\ recorded' = recorded /\ objects' = objects
  BY StartMoves DEF IInv, Start
<1>2. recorded \in SUBSET Versions
  BY DEF IInv, TypeOK
<1>3. applied'[p] = recorded /\ \A q \in Procs : q # p => applied'[q] = applied[q]
  BY DEF Start, IInv, TypeOK
<1>4. ASSUME NEW q \in Procs, q # p PROVE Progress(q)'
  <2>1. Progress(q)
    BY DEF IInv
  <2> QED  BY <1>1, <1>3, <1>4, <2>1, OthersStay DEF Progress, Moved
<1>5. Progress(p)'
  <2>1. CASE pc'[p] = "script"
    <3>1. /\ version(p)' \in Versions \ recorded
          /\ statement(p)' = 1
          /\ \A w \in Versions : 0 < w /\ w < version(p)' => w \in recorded
      BY <1>1, <1>2, <2>1, MovedPlace
    <3>2. \A w \in Versions : 0 < w
      BY DEF Versions
    <3> QED  BY <1>1, <1>3, <2>1, <3>1, <3>2 DEF Progress
  <2>2. CASE pc'[p] = "ready"
    BY <2>2 DEF Progress, Migrating
  <2> QED  BY <1>1, <2>1, <2>2 DEF Moved
<1> QED  BY <1>4, <1>5

LEMMA StartLeads ==
    ASSUME IInv, NEW p \in Procs, Start(p)
    PROVE  SomeoneLeads' /\ ReadyHasAll'
<1>1. Moved(p, recorded, 0) /\ UNCHANGED <<recorded, objects, died>>
  BY StartMoves DEF IInv, Start
<1>2. recorded \in SUBSET Versions /\ ~Migrating(p) /\ \A v \in Versions : v > 0
  BY DEF IInv, TypeOK, Start, Versions
<1>3. pc'[p] = "ready" => recorded = Versions
  BY <1>1, <1>2 DEF Moved
<1>4. ReadyHasAll'
  BY <1>1, <1>3 DEF IInv, ReadyHasAll, Moved
<1>5. ASSUME NEW r \in Procs, Leads(r) PROVE Leads(r)'
  <2>1. r # p
    BY <1>2, <1>5 DEF Leads
  <2> QED  BY <1>1, <1>5, <2>1, OthersStay DEF Leads, Moved
<1>6. CASE Untouched /\ recorded # Versions
  <2>1. pc'[p] = "script"
    BY <1>1, <1>3, <1>6 DEF Moved
  <2>2. version(p)' \notin recorded
    BY <1>1, <1>2, <2>1, MovedPlace
  <2>3. Leads(p)'
    BY <1>1, <1>6, <2>1, <2>2 DEF Leads, Untouched, Migrating
  <2> QED  BY <1>4, <2>3 DEF SomeoneLeads
<1> QED  BY <1>1, <1>4, <1>5, <1>6 DEF IInv, SomeoneLeads

LEMMA StartLone ==
    ASSUME IInv, NEW p \in Procs, Start(p)
    PROVE  LoneIsLone' /\ LoneStartSucceeds'
<1>1. Moved(p, recorded, 0) /\ UNCHANGED <<recorded, objects>>
  BY StartMoves DEF IInv, Start
<1>2. recorded \in SUBSET Versions /\ ~Migrating(p)
  BY DEF IInv, TypeOK, Start
<1>3. /\ alone'[p] = \A r \in Procs : ~Migrating(r)
      /\ \A q \in Procs : q # p => alone'[q] = (alone[q] /\ ~Migrating(q))
  BY Zenon DEF Start
<1>4. \A q \in Procs : q # p => Migrating(q)' = Migrating(q) /\ pc'[q] = pc[q]
  BY <1>1, OthersStay DEF Moved
<1>5. Migrating(p)' => pc'[p] = "script"
  BY <1>1 DEF Moved, Migrating
<1>6. LoneIsLone'
  <2>1. Migrating(p)' /\ alone'[p] =>
           /\ \A q \in Procs : Migrating(q)' => q = p
           /\ version(p)' \notin recorded
    BY <1>1, <1>2, <1>3, <1>4, <1>5, MovedPlace
  <2> QED  BY <1>1, <1>3, <1>4, <2>1 DEF LoneIsLone
<1>7. ASSUME NEW s \in NotRepeatable, Orphaned(s) PROVE Orphaned(s)'
  <2>1. s[2] >= 1
    BY <1>7, StatementIsPair, MigrationsAssumption DEF Orphaned, IInv, TypeOK
  <2>2. \A q \in Procs : Migrating(q)' /\ version(q)' = s[1] =>
            pc'[q] = "script" /\ statement(q)' <= s[2]
    <3>1. ASSUME NEW q \in Procs, q # p, Migrating(q)', version(q)' = s[1]
          PROVE  pc'[q] = "script" /\ statement(q)' <= s[2]
      BY <1>1, <1>4, <1>7, <3>1, OthersStay DEF Orphaned, Moved
    <3>2. ASSUME Migrating(p)' PROVE pc'[p] = "script" /\ statement(p)' <= s[2]
      BY <1>1, <1>2, <1>5, <2>1, <3>2, MovedPlace
    <3> QED  BY <3>1, <3>2
  <2> QED  BY <1>1, <1>7, <2>2 DEF Orphaned
<1>8. LoneStartSucceeds'
  <2>1. ASSUME NEW q \in Procs, pc'[q] = "refused", alone'[q]
        PROVE  q # p /\ pc[q] = "refused" /\ alone[q]
    BY <1>1, <1>3, <1>4, <2>1 DEF Moved
  <2> QED  BY <1>7, <2>1 DEF LoneStartSucceeds, IInv
<1> QED  BY <1>6, <1>8

LEMMA StartPreserves ==
    ASSUME IInv, NEW p \in Procs, Start(p)
    PROVE  IInv'
<1>1. UNCHANGED <<recorded, objects>>
  BY DEF Start
<1>2. RecordedInOrder' /\ BegunInOrder' /\ RecordedIsThere'
  BY <1>1 DEF IInv, RecordedInOrder, BegunInOrder, RecordedIsThere, Installed
<1> QED  BY <1>2, StartTypes, StartProgress, StartLeads, StartLone DEF IInv

-----------------------------------------------------------------------------
(* Statement *)

\* What a statement does, to p and to nobody else.
LEMMA StatementMoves ==
    ASSUME TypeOK, NEW p \in Procs, Statement(p)
    PROVE  /\ objects' = objects \cup {at[p]}
           /\ UNCHANGED <<recorded, applied, alone, died>>
           /\ at[p] \in NotRepeatable => at[p] \notin objects
           /\ Migrating(p) /\ Migrating(p)' /\ pc[p] = "script"
           /\ version(p)' = version(p)
           /\ \A q \in Procs : q # p => pc'[q] = pc[q] /\ at'[q] = at[q]
           /\ \/ /\ pc'[p] = "script"
                 /\ statement(p) < Size[version(p)]
                 /\ statement(p)' = statement(p) + 1
              \/ /\ pc'[p] = "record"
                 /\ statement(p) = Size[version(p)]
                 /\ statement(p)' = statement(p)
<1>1. Migrating(p) /\ pc[p] = "script"
  BY DEF Statement, Migrating
<1>2. /\ version(p) \in Versions
      /\ statement(p) \in 1..Size[version(p)]
      /\ Size[version(p)] \in Nat
  BY <1>1, MigratingIsSomewhere, SizeIsPositive
<1>3. CASE statement(p) < Size[version(p)]
  <2>1. /\ pc' = pc
        /\ at' = [at EXCEPT ![p] = <<version(p), statement(p) + 1>>]
    BY <1>3 DEF Statement
  <2>2. at'[p] = <<version(p), statement(p) + 1>>
    BY <2>1 DEF TypeOK
  <2>3. \A q \in Procs : q # p => at'[q] = at[q]
    BY <2>1 DEF TypeOK
  <2>4. version(p)' = version(p) /\ statement(p)' = statement(p) + 1
    BY <2>2 DEF version, statement
  <2>5. pc'[p] = "script" /\ Migrating(p)'
    BY <1>1, <2>1 DEF Migrating
  <2> QED  BY <1>1, <1>3, <2>1, <2>3, <2>4, <2>5 DEF Statement, Fails
<1>4. CASE ~(statement(p) < Size[version(p)])
  <2>1. pc' = [pc EXCEPT ![p] = "record"] /\ at' = at
    BY <1>4 DEF Statement
  <2>2. pc'[p] = "record" /\ \A q \in Procs : q # p => pc'[q] = pc[q]
    BY <2>1 DEF TypeOK
  <2>3. version(p)' = version(p) /\ statement(p)' = statement(p)
    BY <2>1 DEF version, statement
  <2>4. Migrating(p)'
    BY <2>2 DEF Migrating
  <2> QED  BY <1>1, <1>2, <1>4, <2>1, <2>2, <2>3, <2>4 DEF Statement, Fails
<1> QED  BY <1>3, <1>4

LEMMA StatementTypes ==
    ASSUME TypeOK, NEW p \in Procs, Statement(p)
    PROVE  TypeOK'
<1>1. /\ Migrating(p)
      /\ \A q \in Procs : q # p => pc'[q] = pc[q] /\ at'[q] = at[q]
  BY StatementMoves
<1>2. at[p] \in AllStatements
  BY <1>1, MigratingIsSomewhere
<1>3. objects' \subseteq AllStatements
  BY <1>2 DEF Statement, TypeOK
<1>4. pc' \in [Procs -> {"off", "script", "record", "ready", "refused"}]
  BY DEF Statement, TypeOK
<1>5. at' \in [Procs -> AllStatements \cup {Nowhere}] /\ at'[p] \in AllStatements
  <2>1. CASE statement(p) < Size[version(p)]
    <3>1. /\ version(p) \in Versions
          /\ statement(p) \in 1..Size[version(p)]
          /\ Size[version(p)] \in Nat
      BY <1>1, MigratingIsSomewhere, SizeIsPositive
    <3>2. statement(p) + 1 \in 1..Size[version(p)]
      BY <2>1, <3>1
    <3>3. <<version(p), statement(p) + 1>> \in AllStatements
      BY <3>1, <3>2, PairIsStatement
    <3>4. at' = [at EXCEPT ![p] = <<version(p), statement(p) + 1>>]
      BY <2>1 DEF Statement
    <3> QED  BY <3>3, <3>4 DEF TypeOK
  <2>2. CASE ~(statement(p) < Size[version(p)])
    <3>1. at' = at
      BY <2>2 DEF Statement
    <3> QED  BY <1>2, <3>1 DEF TypeOK
  <2> QED  BY <2>1, <2>2
<1>6. \A q \in Procs : Migrating(q)' => at'[q] # Nowhere
  <2>1. ASSUME NEW q \in Procs, q # p, Migrating(q)' PROVE at'[q] # Nowhere
    BY <1>1, <2>1, OthersStay DEF TypeOK
  <2>2. at'[p] # Nowhere
    BY <1>5, StatementIsPair
  <2> QED  BY <2>1, <2>2
<1> QED  BY <1>3, <1>4, <1>5, <1>6 DEF Statement, TypeOK

LEMMA StatementProgress ==
    ASSUME IInv, NEW p \in Procs, Statement(p)
    PROVE  /\ \A q \in Procs : Progress(q)'
           /\ BegunInOrder'
<1>1. TypeOK /\ Progress(p)
  BY DEF IInv
<1>2. /\ objects' = objects \cup {at[p]}
      /\ UNCHANGED <<recorded, applied>>
      /\ Migrating(p) /\ Migrating(p)' /\ pc[p] = "script"
      /\ version(p)' = version(p)
      /\ \A q \in Procs : q # p => pc'[q] = pc[q] /\ at'[q] = at[q]
      /\ \/ /\ pc'[p] = "script"
            /\ statement(p) < Size[version(p)]
            /\ statement(p)' = statement(p) + 1
         \/ /\ pc'[p] = "record"
            /\ statement(p) = Size[version(p)]
            /\ statement(p)' = statement(p)
  BY <1>1, StatementMoves
<1>3. /\ at[p] = <<version(p), statement(p)>>
      /\ statement(p) \in 1..Size[version(p)]
      /\ version(p) \in Versions
      /\ Size[version(p)] \in Nat
  BY <1>1, <1>2, MigratingIsSomewhere, SizeIsPositive
<1>4. ASSUME NEW q \in Procs, q # p PROVE Progress(q)'
  <2>1. Progress(q) /\ pc'[q] = pc[q]
    BY <1>2, <1>4 DEF IInv
  <2>2. /\ Migrating(q)' = Migrating(q)
        /\ version(q)' = version(q)
        /\ statement(q)' = statement(q)
    BY <1>2, <1>4, OthersStay
  <2> QED  BY <1>2, <2>1, <2>2 DEF Progress
<1>5. Progress(p)'
  <2>1. \A k \in 1..Size[version(p)] :
           k < statement(p)' \/ pc'[p] = "record" =>
               <<version(p), k>> \in objects'
    <3> SUFFICES ASSUME NEW k \in 1..Size[version(p)],
                        k < statement(p)' \/ pc'[p] = "record"
                 PROVE  <<version(p), k>> \in objects'
      OBVIOUS
    <3>1. k <= statement(p)
      BY <1>2, <1>3
    <3>2. CASE k = statement(p)
      BY <1>2, <1>3, <3>2
    <3>3. CASE k < statement(p)
      BY <1>1, <1>2, <3>3 DEF Progress
    <3> QED  BY <1>3, <3>1, <3>2, <3>3
  <2> QED  BY <1>1, <1>2, <2>1 DEF Progress
<1>6. BegunInOrder'
  <2>1. at[p][1] = version(p)
    BY DEF version
  <2>2. \A w \in Versions : w < version(p) => w \in recorded
    BY <1>1, <1>2 DEF Progress
  <2> QED  BY <1>2, <2>1, <2>2 DEF BegunInOrder, IInv
<1> QED  BY <1>4, <1>5, <1>6

\* The first to run a statement that cannot be repeated has the lead.
LEMMA StatementLeads ==
    ASSUME IInv, NEW p \in Procs, Statement(p)
    PROVE  SomeoneLeads' /\ ReadyHasAll'
<1>1. TypeOK /\ \A q \in Procs : Progress(q)
  BY DEF IInv
<1>2. /\ objects' = objects \cup {at[p]}
      /\ UNCHANGED <<recorded, died>>
      /\ at[p] \in NotRepeatable => at[p] \notin objects
      /\ Migrating(p) /\ Migrating(p)' /\ pc[p] = "script"
      /\ version(p)' = version(p)
      /\ \A q \in Procs : q # p => pc'[q] = pc[q] /\ at'[q] = at[q]
      /\ \/ /\ pc'[p] = "script"
            /\ statement(p)' = statement(p) + 1
         \/ /\ pc'[p] = "record"
            /\ statement(p)' = statement(p)
  BY <1>1, StatementMoves
<1>3. /\ at[p] = <<version(p), statement(p)>>
      /\ statement(p) \in 1..Size[version(p)]
      /\ Size[version(p)] \in Nat
      /\ version(p) \in Versions
  BY <1>1, <1>2, MigratingIsSomewhere, SizeIsPositive
<1>4. ReadyHasAll'
  BY <1>2 DEF ReadyHasAll, IInv
<1>5. objects \subseteq AllStatements
  BY <1>1 DEF TypeOK
<1>6. ASSUME version(p) \notin recorded,
             \A s \in objects \cap NotRepeatable :
                 s[1] = version(p) => s[2] <= statement(p)
      PROVE  Leads(p)'
  <2>1. \A s \in objects' \cap NotRepeatable :
           s[1] = version(p) => s[2] <= statement(p)
    BY <1>2, <1>3, <1>6
  <2>2. \A s \in objects' \cap NotRepeatable : s \in AllStatements
    BY <1>2, <1>5, <1>1, MigratingIsSomewhere
  <2>3. \A s \in objects' \cap NotRepeatable :
           s[1] = version(p) => s[2] < statement(p)' \/ pc'[p] = "record"
    <3> SUFFICES ASSUME NEW s \in objects' \cap NotRepeatable,
                        s[1] = version(p), pc'[p] = "script"
                 PROVE  s[2] < statement(p)'
      BY <1>2
    <3>1. s[2] \in 1..Size[version(p)]
      BY <2>2, StatementIsPair
    <3> QED  BY <1>2, <1>3, <2>1, <3>1
  <2> QED  BY <1>2, <1>6, <2>3 DEF Leads
<1>7. ASSUME NEW r \in Procs, Leads(r) PROVE Leads(p)' \/ Leads(r)'
  <2>1. CASE r = p
    <3>1. /\ version(p) \notin recorded
          /\ \A s \in objects \cap NotRepeatable :
                s[1] = version(p) => s[2] < statement(p)
      BY <1>2, <1>7, <2>1 DEF Leads
    <3>2. \A s \in objects \cap NotRepeatable : s[2] \in Nat
      BY <1>5, StatementIsPair
    <3> QED  BY <1>3, <1>6, <3>1, <3>2
  <2>2. CASE r # p /\ at[p] \in NotRepeatable /\ version(p) = version(r)
    <3>1. /\ Migrating(r)
          /\ version(p) \notin recorded
          /\ \A s \in objects \cap NotRepeatable :
                s[1] = version(p) => s[2] < statement(r) \/ pc[r] = "record"
          /\ \A k \in 1..Size[version(p)] :
                k < statement(r) \/ pc[r] = "record" =>
                    <<version(p), k>> \in objects
      BY <1>1, <1>7, <2>2 DEF Leads, Progress
    <3>2. pc[r] # "record" /\ ~(statement(p) < statement(r))
      BY <1>2, <1>3, <2>2, <3>1
    <3>3. statement(r) \in Nat
      BY <1>1, <2>2, <3>1, <1>3, MigratingIsSomewhere
    <3>4. \A s \in objects \cap NotRepeatable : s[2] \in Nat
      BY <1>5, StatementIsPair
    <3>5. \A s \in objects \cap NotRepeatable :
              s[1] = version(p) => s[2] <= statement(p)
      BY <1>3, <3>1, <3>2, <3>3, <3>4
    <3> QED  BY <1>6, <3>1, <3>5
  <2>3. CASE r # p /\ ~(at[p] \in NotRepeatable /\ version(p) = version(r))
    <3>1. /\ Migrating(r)' = Migrating(r)
          /\ version(r)' = version(r)
          /\ statement(r)' = statement(r)
          /\ pc'[r] = pc[r]
      BY <1>2, <2>3, OthersStay
    <3>2. \A s \in objects' \cap NotRepeatable :
              s[1] = version(r) => s \in objects
      BY <1>2, <1>3, <2>3
    <3> QED  BY <1>2, <1>7, <3>1, <3>2 DEF Leads
  <2> QED  BY <2>1, <2>2, <2>3
<1>8. ~Untouched
  BY <1>2 DEF Untouched
<1> QED  BY <1>2, <1>4, <1>7, <1>8 DEF IInv, SomeoneLeads

LEMMA StatementLone ==
    ASSUME IInv, NEW p \in Procs, Statement(p)
    PROVE  LoneIsLone' /\ LoneStartSucceeds'
<1>1. TypeOK
  BY DEF IInv
<1>2. /\ objects' = objects \cup {at[p]}
      /\ UNCHANGED <<recorded, alone>>
      /\ at[p] \in NotRepeatable => at[p] \notin objects
      /\ Migrating(p) /\ Migrating(p)' /\ pc[p] = "script"
      /\ version(p)' = version(p)
      /\ \A q \in Procs : q # p => pc'[q] = pc[q] /\ at'[q] = at[q]
      /\ \/ /\ pc'[p] = "script"
            /\ statement(p)' = statement(p) + 1
         \/ /\ pc'[p] = "record"
            /\ statement(p) = Size[version(p)]
  BY <1>1, StatementMoves
<1>3. \A q \in Procs : Migrating(q)' = Migrating(q) /\ version(q)' = version(q)
  BY <1>2, OthersStay DEF Migrating
<1>4. LoneIsLone'
  BY <1>2, <1>3 DEF LoneIsLone, IInv
<1>5. ASSUME NEW s \in NotRepeatable, Orphaned(s) PROVE Orphaned(s)'
  <2>1. /\ s \in objects
        /\ s = <<s[1], s[2]>>
        /\ s[2] \in 1..Size[s[1]]
        /\ s[1] \in Versions
    BY <1>1, <1>5, StatementIsPair DEF Orphaned, TypeOK
  <2>2. ASSUME version(p) = s[1]
        PROVE  pc'[p] = "script" /\ statement(p)' <= s[2]
    <3>1. statement(p) <= s[2]
      BY <1>2, <1>5, <2>2 DEF Orphaned
    <3>2. at[p] = <<version(p), statement(p)>>
      BY <1>1, <1>2, MigratingIsSomewhere
    <3>3. statement(p) # s[2]
      BY <1>2, <2>1, <2>2, <3>2
    <3>4. statement(p) \in Nat /\ Size[version(p)] \in Nat
      BY <1>1, <1>2, MigratingIsSomewhere, SizeIsPositive
    <3> QED  BY <1>2, <2>1, <2>2, <3>1, <3>3, <3>4
  <2>3. ASSUME NEW q \in Procs, q # p, Migrating(q)', version(q)' = s[1]
        PROVE  pc'[q] = "script" /\ statement(q)' <= s[2]
    BY <1>2, <1>5, <2>3, OthersStay DEF Orphaned
  <2> QED  BY <1>2, <1>3, <1>5, <2>2, <2>3 DEF Orphaned
<1>6. LoneStartSucceeds'
  <2>1. \A q \in Procs : pc'[q] = "refused" => q # p /\ pc[q] = "refused"
    BY <1>2
  <2> QED  BY <1>2, <1>5, <2>1 DEF LoneStartSucceeds, IInv
<1> QED  BY <1>4, <1>6

LEMMA StatementPreserves ==
    ASSUME IInv, NEW p \in Procs, Statement(p)
    PROVE  IInv'
<1>1. recorded' = recorded /\ objects \subseteq objects'
  BY DEF Statement
<1>2. RecordedInOrder' /\ RecordedIsThere'
  <2>1. \A v \in recorded : Statements(v) \subseteq objects'
    BY <1>1 DEF IInv, RecordedIsThere, Installed
  <2> QED  BY <1>1, <2>1 DEF IInv, RecordedInOrder, RecordedIsThere, Installed
<1> QED  BY <1>2, StatementTypes, StatementProgress, StatementLeads, StatementLone
            DEF IInv

-----------------------------------------------------------------------------
(* Refusals and deaths *)

\* When p stops migrating and nothing else happens, only the lead and the
\* reason for a refusal are at stake.
LEMMA StoppingPreserves ==
    ASSUME IInv, NEW p \in Procs, Migrating(p),
           NEW end \in {"refused", "off"}, pc' = [pc EXCEPT ![p] = end],
           UNCHANGED <<objects, recorded, at, applied, alone>>,
           died' \in BOOLEAN,
           SomeoneLeads',
           end = "refused" /\ alone[p] => \E s \in NotRepeatable : Orphaned(s)
    PROVE  IInv'
<1>1. TypeOK
  BY DEF IInv
<1>2. pc'[p] = end /\ \A q \in Procs : q # p => pc'[q] = pc[q]
  BY <1>1 DEF TypeOK
<1>3. ~Migrating(p)' /\ \A q \in Procs : Migrating(q)' => q # p /\ Migrating(q)
  BY <1>2 DEF Migrating
<1>4. \A q \in Procs : version(q)' = version(q) /\ statement(q)' = statement(q)
  BY DEF version, statement
<1>5. TypeOK'
  <2>1. pc' \in [Procs -> {"off", "script", "record", "ready", "refused"}]
    BY <1>1 DEF TypeOK
  <2> QED  BY <1>1, <1>3, <2>1 DEF TypeOK
<1>6. RecordedInOrder' /\ BegunInOrder' /\ RecordedIsThere'
  BY DEF IInv, RecordedInOrder, BegunInOrder, RecordedIsThere, Installed
<1>7. \A q \in Procs : Progress(q)'
  <2> SUFFICES ASSUME NEW q \in Procs, Migrating(q)' PROVE Progress(q)'
    BY DEF Progress
  <2>1. Progress(q) /\ Migrating(q) /\ pc'[q] = pc[q]
    BY <1>2, <1>3 DEF IInv
  <2> QED  BY <1>4, <2>1 DEF Progress
<1>8. ReadyHasAll'
  BY <1>2 DEF IInv, ReadyHasAll
<1>9. LoneIsLone'
  BY <1>3, <1>4 DEF IInv, LoneIsLone
<1>10. \A s \in NotRepeatable : Orphaned(s) => Orphaned(s)'
  BY <1>2, <1>3, <1>4 DEF Orphaned
<1>11. LoneStartSucceeds'
  BY <1>2, <1>10 DEF IInv, LoneStartSucceeds
<1> QED  BY <1>5, <1>6, <1>7, <1>8, <1>9, <1>11 DEF IInv

\* A process that does not lead may stop without taking the lead away.
LEMMA LeadIsKept ==
    ASSUME IInv, NEW p \in Procs, Migrating(p), ~Leads(p),
           pc' = [pc EXCEPT ![p] = "refused"],
           UNCHANGED <<objects, recorded, at, died>>
    PROVE  SomeoneLeads'
<1>1. \A q \in Procs : q # p => pc'[q] = pc[q]
  BY DEF IInv, TypeOK
<1>2. ASSUME NEW r \in Procs, Leads(r) PROVE Leads(r)'
  <2>1. r # p
    BY <1>2
  <2>2. /\ Migrating(r)' = Migrating(r)
        /\ version(r)' = version(r)
        /\ statement(r)' = statement(r)
        /\ pc'[r] = pc[r]
    BY <1>1, <2>1 DEF Migrating, version, statement
  <2> QED  BY <1>2, <2>2 DEF Leads
<1>3. ~Untouched
  BY DEF Untouched, Migrating
<1> QED  BY <1>2, <1>3 DEF IInv, SomeoneLeads

LEMMA StatementFailsPreserves ==
    ASSUME IInv, NEW p \in Procs, StatementFails(p)
    PROVE  IInv'
<1>1. /\ Migrating(p)
      /\ pc[p] = "script"
      /\ at[p] \in objects \cap NotRepeatable
      /\ pc' = [pc EXCEPT ![p] = "refused"]
      /\ UNCHANGED <<objects, recorded, at, applied, alone, died>>
  BY DEF StatementFails, Fails, Refuse, Migrating
<1>2. /\ at[p] = <<version(p), statement(p)>>
      /\ statement(p) \in 1..Size[version(p)]
      /\ Size[version(p)] \in Nat
  BY <1>1, MigratingIsSomewhere, SizeIsPositive DEF IInv
<1>3. at[p][1] = version(p) /\ at[p][2] = statement(p)
  BY DEF version, statement
<1>4. ~Leads(p)
  BY <1>1, <1>2, <1>3 DEF Leads
<1>5. SomeoneLeads'
  BY <1>1, <1>4, LeadIsKept
<1>6. ASSUME alone[p] PROVE Orphaned(at[p])
  <2>1. version(p) \notin recorded /\ \A q \in Procs : Migrating(q) => q = p
    BY <1>1, <1>6 DEF IInv, LoneIsLone
  <2> QED  BY <1>1, <1>2, <1>3, <2>1 DEF Orphaned
<1>7. died' \in BOOLEAN
  BY <1>1 DEF IInv, TypeOK
<1> QED  BY <1>1, <1>5, <1>6, <1>7, StoppingPreserves

LEMMA RecordFailsPreserves ==
    ASSUME IInv, NEW p \in Procs, RecordFails(p)
    PROVE  IInv'
<1>1. /\ Migrating(p)
      /\ version(p) \in recorded
      /\ pc' = [pc EXCEPT ![p] = "refused"]
      /\ UNCHANGED <<objects, recorded, at, applied, alone, died>>
  BY DEF RecordFails, Refuse, Migrating
<1>2. ~Leads(p) /\ ~alone[p]
  BY <1>1 DEF Leads, IInv, LoneIsLone
<1>3. SomeoneLeads'
  BY <1>1, <1>2, LeadIsKept
<1>4. died' \in BOOLEAN
  BY <1>1 DEF IInv, TypeOK
<1> QED  BY <1>1, <1>2, <1>3, <1>4, StoppingPreserves

LEMMA DiePreserves ==
    ASSUME IInv, NEW p \in Procs, Die(p)
    PROVE  IInv'
<1>1. /\ Migrating(p)
      /\ pc' = [pc EXCEPT ![p] = "off"]
      /\ UNCHANGED <<objects, recorded, at, applied, alone>>
      /\ died' = TRUE
  BY DEF Die
<1>2. SomeoneLeads'
  BY <1>1 DEF SomeoneLeads
<1> QED  BY <1>1, <1>2, StoppingPreserves

-----------------------------------------------------------------------------
(* Record *)

LEMMA RecordMoves ==
    ASSUME IInv, NEW p \in Procs, Record(p)
    PROVE  /\ Moved(p, applied[p], version(p))
           /\ Migrating(p)
           /\ pc[p] = "record"
           /\ version(p) \in Versions
           /\ version(p) \notin recorded
           /\ recorded' = recorded \cup {version(p)}
           /\ UNCHANGED <<objects, applied, alone, died>>
           /\ applied[p] \subseteq recorded
           /\ applied[p] \in SUBSET Versions
           /\ version(p) \in Nat
           /\ \A w \in Versions : w < version(p) => w \in recorded
           /\ \A w \in Versions : w > version(p) => w \notin recorded
<1>1. TypeOK /\ Migrating(p) /\ Progress(p)
  BY DEF IInv, Record, Migrating
<1>2. version(p) \in Versions /\ version(p) \in Nat
  BY <1>1, MigratingIsSomewhere DEF Versions
<1>3. applied[p] \in SUBSET Versions
  BY <1>1 DEF TypeOK
<1>4. Moved(p, applied[p], version(p))
  BY <1>1, <1>2, <1>3, GoOnMoves DEF Record
<1>5. \A w \in Versions : w > version(p) => w \notin recorded
  BY <1>2 DEF IInv, RecordedInOrder, Record, Versions
<1> QED  BY <1>1, <1>2, <1>3, <1>4, <1>5 DEF Record, Progress

LEMMA RecordTypes ==
    ASSUME IInv, NEW p \in Procs, Record(p)
    PROVE  /\ TypeOK'
           /\ RecordedInOrder'
           /\ BegunInOrder'
           /\ RecordedIsThere'
<1>1. /\ Moved(p, applied[p], version(p))
      /\ Migrating(p) /\ pc[p] = "record"
      /\ version(p) \in Versions
      /\ recorded' = recorded \cup {version(p)}
      /\ UNCHANGED <<objects, applied, alone, died>>
      /\ applied[p] \in SUBSET Versions
      /\ version(p) \in Nat
      /\ \A w \in Versions : w < version(p) => w \in recorded
  BY RecordMoves
<1>2. TypeOK'
  <2>1. \A q \in Procs : Migrating(q)' => at'[q] # Nowhere
    BY <1>1, MovedTypes DEF IInv
  <2> QED  BY <1>1, <2>1 DEF IInv, TypeOK, Moved
<1>3. RecordedInOrder' /\ BegunInOrder'
  BY <1>1 DEF IInv, RecordedInOrder, BegunInOrder
<1>4. Statements(version(p)) \subseteq objects
  BY <1>1 DEF IInv, Progress, Statements
<1>5. RecordedIsThere'
  BY <1>1, <1>4 DEF IInv, RecordedIsThere, Installed
<1> QED  BY <1>2, <1>3, <1>5

LEMMA RecordProgress ==
    ASSUME IInv, NEW p \in Procs, Record(p)
    PROVE  \A q \in Procs : Progress(q)'
<1>1. /\ Moved(p, applied[p], version(p))
      /\ version(p) \in Versions
      /\ recorded' = recorded \cup {version(p)}
      /\ UNCHANGED <<objects, applied, alone, died>>
      /\ applied[p] \subseteq recorded
      /\ applied[p] \in SUBSET Versions
      /\ version(p) \in Nat
      /\ \A w \in Versions : w < version(p) => w \in recorded
  BY RecordMoves
<1>2. ASSUME NEW q \in Procs, q # p PROVE Progress(q)'
  <2>1. Progress(q) /\ pc'[q] = pc[q]
    BY <1>1, <1>2 DEF IInv, Moved
  <2>2. /\ Migrating(q)' = Migrating(q)
        /\ version(q)' = version(q)
        /\ statement(q)' = statement(q)
    BY <1>1, <1>2, OthersStay DEF Moved
  <2> QED  BY <1>1, <2>1, <2>2 DEF Progress
<1>3. CASE pc'[p] = "script"
  <2>1. /\ version(p)' \in Versions \ applied[p]
        /\ statement(p)' = 1
        /\ \A w \in Versions : version(p) < w /\ w < version(p)' =>
               w \in applied[p]
    BY <1>1, <1>3, MovedPlace
  <2>2. \A w \in Versions : w < version(p)' => w \in recorded'
    BY <1>1, <2>1 DEF Versions
  <2>3. Progress(p)'
    BY <1>1, <1>3, <2>1, <2>2 DEF Progress
  <2> QED  BY <1>2, <2>3
<1>4. CASE pc'[p] = "ready"
  <2>1. Progress(p)'
    BY <1>4 DEF Progress, Migrating
  <2> QED  BY <1>2, <2>1
<1> QED  BY <1>1, <1>3, <1>4 DEF Moved

\* Whoever records a version is in front from then on, or has come to the end.
LEMMA RecordLeads ==
    ASSUME IInv, NEW p \in Procs, Record(p)
    PROVE  SomeoneLeads' /\ ReadyHasAll'
<1>1. /\ Moved(p, applied[p], version(p))
      /\ version(p) \in Versions
      /\ recorded' = recorded \cup {version(p)}
      /\ UNCHANGED <<objects, applied, alone, died>>
      /\ applied[p] \subseteq recorded
      /\ applied[p] \in SUBSET Versions
      /\ version(p) \in Nat
      /\ version(p) \notin recorded
      /\ \A w \in Versions : w < version(p) => w \in recorded
      /\ \A w \in Versions : w > version(p) => w \notin recorded
  BY RecordMoves
<1>2. recorded \subseteq Versions
  BY DEF IInv, TypeOK
<1>3. ~ \E q \in Procs : pc[q] = "ready"
  BY <1>1 DEF IInv, ReadyHasAll
<1>4. CASE pc'[p] = "ready"
  <2>1. \A w \in Versions : w \in recorded'
    BY <1>1, <1>4 DEF Moved, Versions
  <2>2. recorded' = Versions
    BY <1>1, <1>2, <2>1
  <2> QED  BY <2>2 DEF SomeoneLeads, ReadyHasAll
<1>5. CASE pc'[p] = "script"
  <2>1. version(p)' \in Versions /\ version(p)' > version(p)
    BY <1>1, <1>5, MovedPlace
  <2>2. version(p)' \notin recorded'
    BY <1>1, <2>1
  <2>3. \A s \in objects : s[1] # version(p)'
    BY <1>1, <2>1 DEF IInv, BegunInOrder
  <2>4. Leads(p)'
    BY <1>1, <1>5, <2>2, <2>3 DEF Leads, Migrating
  <2>5. ReadyHasAll'
    BY <1>1, <1>3, <1>5 DEF ReadyHasAll, Moved
  <2> QED  BY <2>4, <2>5 DEF SomeoneLeads
<1> QED  BY <1>1, <1>4, <1>5 DEF Moved

LEMMA RecordLone ==
    ASSUME IInv, NEW p \in Procs, Record(p)
    PROVE  LoneIsLone' /\ LoneStartSucceeds'
<1>1. /\ Moved(p, applied[p], version(p))
      /\ Migrating(p) /\ pc[p] = "record"
      /\ version(p) \in Versions
      /\ recorded' = recorded \cup {version(p)}
      /\ UNCHANGED <<objects, applied, alone, died>>
      /\ applied[p] \in SUBSET Versions
      /\ version(p) \in Nat
      /\ \A w \in Versions : w > version(p) => w \notin recorded
  BY RecordMoves
<1>2. /\ \A q \in Procs : q # p => /\ Migrating(q)' = Migrating(q)
                                   /\ version(q)' = version(q)
                                   /\ statement(q)' = statement(q)
                                   /\ pc'[q] = pc[q]
      /\ pc'[p] \in {"ready", "script"}
  BY <1>1, OthersStay DEF Moved
<1>3. LoneIsLone'
  <2>1. ASSUME NEW q \in Procs, Migrating(q)', alone'[q]
        PROVE  q = p
    BY <1>1, <1>2, <2>1 DEF IInv, LoneIsLone
  <2>2. ASSUME Migrating(p)', alone'[p]
        PROVE  /\ \A q \in Procs : Migrating(q)' => q = p
               /\ version(p)' \notin recorded'
    <3>1. pc'[p] = "script"
      BY <1>2, <2>2 DEF Migrating
    <3>2. version(p)' \in Versions /\ version(p)' > version(p)
      BY <1>1, <3>1, MovedPlace
    <3>3. version(p)' \notin recorded'
      BY <1>1, <3>2
    <3>4. \A q \in Procs : Migrating(q)' => q = p
      BY <1>1, <1>2, <2>2 DEF IInv, LoneIsLone
    <3> QED  BY <3>3, <3>4
  <2> QED  BY <2>1, <2>2 DEF LoneIsLone
<1>4. ASSUME NEW s \in NotRepeatable, Orphaned(s) PROVE Orphaned(s)'
  <2>1. version(p) # s[1]
    BY <1>1, <1>4 DEF Orphaned
  <2>2. s[2] >= 1
    BY <1>4, StatementIsPair, MigrationsAssumption DEF Orphaned, IInv, TypeOK
  <2>3. ASSUME Migrating(p)' PROVE pc'[p] = "script" /\ statement(p)' <= s[2]
    <3>1. pc'[p] = "script"
      BY <1>2, <2>3 DEF Migrating
    <3> QED  BY <1>1, <2>2, <3>1, MovedPlace
  <2>4. ASSUME NEW q \in Procs, q # p, Migrating(q)', version(q)' = s[1]
        PROVE  pc'[q] = "script" /\ statement(q)' <= s[2]
    BY <1>2, <1>4, <2>4 DEF Orphaned
  <2> QED  BY <1>1, <1>4, <2>1, <2>3, <2>4 DEF Orphaned
<1>5. LoneStartSucceeds'
  <2>1. \A q \in Procs : pc'[q] = "refused" => pc[q] = "refused"
    BY <1>2
  <2> QED  BY <1>1, <1>4, <2>1 DEF LoneStartSucceeds, IInv
<1> QED  BY <1>3, <1>5

LEMMA RecordPreserves ==
    ASSUME IInv, NEW p \in Procs, Record(p)
    PROVE  IInv'
BY RecordTypes, RecordProgress, RecordLeads, RecordLone DEF IInv

-----------------------------------------------------------------------------
(* Theorems *)

LEMMA InitIsIInv ==
    ASSUME Init
    PROVE  IInv
<1>1. PICK r \in 0..Last : recorded = 1..r
  BY DEF Init
<1>2. /\ objects = UNION {Statements(v) : v \in recorded}
      /\ recorded \subseteq Versions
      /\ \A p \in Procs : pc[p] = "off" /\ ~Migrating(p)
  BY <1>1, MigrationsAssumption DEF Init, Versions, Migrating
<1>3. TypeOK
  BY <1>2 DEF Init, TypeOK, AllStatements
<1>4. \A s \in objects : s[1] \in recorded
  BY <1>2 DEF Statements
<1>5. RecordedInOrder /\ BegunInOrder
  BY <1>1, <1>4, MigrationsAssumption DEF RecordedInOrder, BegunInOrder, Versions
<1>6. RecordedIsThere
  BY <1>2 DEF RecordedIsThere, Installed
<1> QED
  BY <1>2, <1>3, <1>4, <1>5, <1>6
     DEF IInv, Progress, ReadyHasAll, SomeoneLeads, Untouched, LoneIsLone,
         LoneStartSucceeds

LEMMA StepPreserves ==
    ASSUME IInv, [Next]_vars
    PROVE  IInv'
<1>1. CASE UNCHANGED vars
  BY <1>1
     DEF vars, IInv, TypeOK, RecordedInOrder, BegunInOrder, RecordedIsThere,
         Installed, Progress, ReadyHasAll, SomeoneLeads, Untouched, Leads,
         LoneIsLone, LoneStartSucceeds, Orphaned, Migrating, version, statement
<1>2. ASSUME NEW p \in Procs, Start(p) \/ Proceed(p) \/ Die(p)
      PROVE  IInv'
  BY <1>2, StartPreserves, StatementPreserves, StatementFailsPreserves,
     RecordPreserves, RecordFailsPreserves, DiePreserves DEF Proceed
<1> QED  BY <1>1, <1>2 DEF Next

LEMMA AlwaysIInv == Spec => []IInv
BY InitIsIInv, StepPreserves, PTL DEF Spec

\* Types; among them, that no process runs past the end of a script.
THEOREM TypeCorrect == Spec => []TypeOK
<1>1. IInv => TypeOK
  BY DEF IInv
<1> QED  BY <1>1, AlwaysIInv, PTL

\* A row in schema_migrations vouches for every statement of its script.
THEOREM RecordsAreTrue == Spec => []RecordedIsThere
<1>1. IInv => RecordedIsThere
  BY DEF IInv
<1> QED  BY <1>1, AlwaysIInv, PTL

\* A command that gets past initialize() finds the whole schema.
THEOREM ReadyAlwaysCurrent == Spec => []ReadyIsCurrent
<1>1. IInv => ReadyIsCurrent
  BY DEF IInv, ReadyHasAll, RecordedIsThere, ReadyIsCurrent, Versions
<1> QED  BY <1>1, AlwaysIInv, PTL

\* While nobody is killed, a refused start was overtaken by one that finishes.
THEOREM RefusedAlwaysOvertaken == Spec => []RefusedIsOvertaken
<1>1. IInv => RefusedIsOvertaken
  BY DEF IInv, SomeoneLeads, Untouched, Leads, RefusedIsOvertaken
<1> QED  BY <1>1, AlwaysIInv, PTL

\* A start alone is refused only for an orphaned statement.
THEOREM LoneStartAlwaysSucceeds == Spec => []LoneStartSucceeds
<1>1. IInv => LoneStartSucceeds
  BY DEF IInv
<1> QED  BY <1>1, AlwaysIInv, PTL

LEMMA InstalledAreRecorded ==
    ASSUME RecordedIsThere
    PROVE  {v \in recorded : Statements(v) \subseteq objects} = recorded
BY DEF RecordedIsThere, Installed

\* Every step installs the next version or none.
LEMMA StepIsUpgrade ==
    ASSUME IInv, IInv', [Next]_vars
    PROVE  [Schema!Upgrade]_({v \in recorded : Statements(v) \subseteq objects})
<1> DEFINE installed == {v \in recorded : Statements(v) \subseteq objects}
<1>1. installed = recorded
  BY InstalledAreRecorded DEF IInv
<1>2. installed' = recorded'
  BY DEF IInv, RecordedIsThere, Installed
<1>3. CASE \E p \in Procs : Record(p)
  <2>1. PICK p \in Procs : Record(p)
    BY <1>3
  <2>2. /\ version(p) \in Versions
        /\ version(p) \notin recorded
        /\ \A w \in Versions : w < version(p) => w \in recorded
        /\ recorded' = recorded \cup {version(p)}
    BY <2>1, RecordMoves
  <2> QED  BY <1>1, <1>2, <2>2 DEF Schema!Upgrade
<1>4. CASE ~ \E p \in Procs : Record(p)
  <2>1. recorded' = recorded
    BY <1>4 DEF Next, vars, Start, Proceed, Statement, StatementFails,
                RecordFails, Refuse, Die
  <2> QED  BY <1>1, <1>2, <2>1
<1> QED  BY <1>3, <1>4

\* Seen through what is installed, migrating is upgrading by one version at a
\* time, whoever overlaps or dies.
THEOREM MigrationsImplementSchema == Spec => ImplementsSchema
<1>1. Init => Schema!Init
  <2> SUFFICES ASSUME Init PROVE Schema!Init
    OBVIOUS
  <2>1. IInv
    BY InitIsIInv
  <2>2. {v \in recorded : Statements(v) \subseteq objects} = recorded
    BY <2>1, InstalledAreRecorded DEF IInv
  <2> QED  BY <2>1, <2>2 DEF IInv, TypeOK, RecordedInOrder, Schema!Init
<1> QED  BY <1>1, AlwaysIInv, StepIsUpgrade, PTL
            DEF Spec, ImplementsSchema, Schema!Spec
=============================================================================
