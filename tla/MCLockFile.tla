------------------------------ MODULE MCLockFile ------------------------------
(* Instances of LockFile for TLC: three invocations, two of which break      *)
(* stale locks.                                                              *)
EXTENDS LockFile

CONSTANTS p1, p2, p3

ThreeProcs == {p1, p2, p3}
TwoBreakers == {p1, p2}
=============================================================================
