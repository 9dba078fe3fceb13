------------------------------ MODULE Registry ------------------------------
(***************************************************************************)
(* What the .qemu_mgr directory promises: a table from VM names to their   *)
(* settings.  Whatever a process asks for takes effect in one step, once,  *)
(* and exactly as it was asked for.                                        *)
(***************************************************************************)
CONSTANTS Proc, Name, Key, Value, Unset, Absent

VARIABLES
  reg,   \* the table
  asked  \* what each process has asked for that has had no effect yet

Settings == [Key -> Value \cup {Unset}]
NoSettings == [k \in Key |-> Unset]

Request == [kind : {"add", "change", "delete"}, name : Name, settings : Settings]
NoRequest == [kind |-> "none"]

\* The settings "old", overridden by those that "new" gives.
Override(old, new) == [k \in Key |-> IF new[k] = Unset THEN old[k] ELSE new[k]]

\* What becomes of a VM.  To register a name that is taken replaces its
\* settings; to change an unknown VM registers it, without the settings.
Effect(r) ==
  CASE r.kind = "add" -> r.settings
    [] r.kind = "delete" -> Absent
    [] r.kind = "change" -> IF reg[r.name] = Absent THEN NoSettings
                            ELSE Override(reg[r.name], r.settings)

Init ==
  /\ reg \in [Name -> Settings \cup {Absent}]
  /\ asked = [p \in Proc |-> NoRequest]

Ask(p, r) ==
  /\ asked[p].kind = "none"
  /\ asked' = [asked EXCEPT ![p] = r]
  /\ UNCHANGED reg

TakeEffect(p) ==
  /\ asked[p].kind # "none"
  /\ reg' = [reg EXCEPT ![asked[p].name] = Effect(asked[p])]
  /\ asked' = [asked EXCEPT ![p] = NoRequest]

Next == \E p \in Proc : TakeEffect(p) \/ \E r \in Request : Ask(p, r)

Spec == Init /\ [][Next]_<<reg, asked>>
=============================================================================
