------------------------------- MODULE MCDisk -------------------------------
(* An instance of Disk: one VM, two processes, an image to import and a file *)
(* for snapshots and backups.                                                *)
EXTENDS Disk, TLC

CONSTANTS c1, c2, vm1, image, target, l1, l2, l3, l4, l5, l6, m1, m2

MCClient == {c1, c2}
MCName == {vm1}
MCFile == {image, target}
MCGiven == (image :> l1) @@ (target :> NoLayer)
MCLayer == {l1, l2, l3, l4, l5, l6}
MCMachine == {m1, m2}

Symmetry == Permutations(MCClient) \cup Permutations(MCMachine)
=============================================================================
