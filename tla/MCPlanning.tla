------------------------------ MODULE MCPlanning ------------------------------
(* Instances of Planning for TLC. *)
EXTENDS Planning

CONSTANTS claude, gemini, codex
=============================================================================
