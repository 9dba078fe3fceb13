------------------------------- MODULE MCStart -------------------------------
(* An instance of Start: one process with sudo and one with su.               *)
EXTENDS Start, TLC

CONSTANTS c1, c2
=============================================================================
