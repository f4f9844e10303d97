----------------------------- MODULE SchemaVersion -----------------------------
(***************************************************************************)
(* What a program that opens the database expects of its upgrades: some    *)
(* versions of the schema are installed, always the first ones, and an     *)
(* upgrade installs the next in one step.  Nothing is ever taken back.     *)
(***************************************************************************)
EXTENDS Naturals

CONSTANT Versions       \* a set of numbers

VARIABLE installed

Init == /\ installed \subseteq Versions
        /\ \A v \in installed, w \in Versions : w < v => w \in installed

Upgrade == \E v \in Versions :
    /\ v \notin installed
    /\ \A w \in Versions : w < v => w \in installed
    /\ installed' = installed \cup {v}

Spec == Init /\ [][Upgrade]_installed
=============================================================================
