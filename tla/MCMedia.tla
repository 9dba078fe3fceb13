------------------------------ MODULE MCMedia ------------------------------
(* An instance of Media: two users, two drives.                              *)
EXTENDS Media, TLC

CONSTANTS u1, u2, d1, d2, p1, p2

MCUser == {u1, u2}
MCDrive == {d1, d2}
MCPath == {p1, p2}
DistinctNames == [p \in MCPath |-> p]

SymmetricUsers == Permutations(MCUser) \cup Permutations(MCDrive)
=============================================================================
