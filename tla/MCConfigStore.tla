--------------------------- MODULE MCConfigStore ---------------------------
(* Instances of ConfigStore. *)
EXTENDS ConfigStore, TLC

CONSTANTS p1, p2, vm1, vm2

MCProc == {p1, p2}
MCName == {vm1, vm2}

\* No name is a prefix, up to a dot, of another one.
Apart == [n \in MCName |-> {n}]
\* vm2 is vm1 with a suffix such as ".old".
Dotted == (vm1 :> {vm1, vm2}) @@ (vm2 :> {vm2})

Symmetry == Permutations(MCProc) \cup Permutations(MCName)
=============================================================================
