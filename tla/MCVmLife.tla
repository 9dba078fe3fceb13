------------------------------ MODULE MCVmLife ------------------------------
(* An instance of VmLife: a user at the dialogs, one at the terminal menus   *)
(* and one at the command line.                                              *)
EXTENDS VmLife, TLC

CONSTANTS c1, c2, c3, vm1, i1, i2

MCClient == {c1, c2, c3}
MCName == {vm1}
MCPid == {i1, i2}

OneOfEach == (c1 :> "xdialog") @@ (c2 :> "term") @@ (c3 :> "cli")
=============================================================================
