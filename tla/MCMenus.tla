------------------------------- MODULE MCMenus -------------------------------
(* An instance of Menus: one user at the terminal and one at the dialogs, two *)
(* settings in the form and one that it does not have.                        *)
EXTENDS Menus, TLC

CONSTANTS t, d, a, b

MCUser == {t, d}
MCUi == (t :> "term") @@ (d :> "xdialog")
MCFormOrder == <<"smp", "memory">>
MCDefault == ("smp" :> a) @@ ("memory" :> a)
MCTemplates == {<<Pair("size", b), Pair("memory", b)>>}
=============================================================================
