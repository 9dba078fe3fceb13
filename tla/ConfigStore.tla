---------------------------- MODULE ConfigStore ----------------------------
(***************************************************************************)
(* The configuration files ~/.qemu_mgr/NAME.qemu_mgr and the qemu_mgr      *)
(* processes that read and write them: image-config.c and ImageAdd,        *)
(* ImageChange and ImageDelete of images.c.  Nothing is locked.            *)
(*                                                                         *)
(* A file is opened with mode "w", which truncates it at once; what is     *)
(* written stays in the buffer of the STREAM until STREAMClose.  Between   *)
(* the two the file is empty, and it stays so if the process is killed.    *)
(*                                                                         *)
(* A configuration is abstracted to what is set: the entries "name" and    *)
(* "updated", which every complete file has, are left out.                 *)
(***************************************************************************)
EXTENDS Integers, FiniteSets

CONSTANTS
  Proc,        \* qemu_mgr processes
  Name, NoName, Key, Value, Unset,
  Absent, Empty,   \* no file, and a file without contents
  Null,        \* a NULL ConfTree
  Covers,      \* Covers[n]: the names with files that the pattern "n.*" matches
  Exclusive,   \* assume that no two processes work on one VM, and none is killed
  MaxOps       \* bound: operations in all

Settings == [Key -> Value \cup {Unset}]
NoSettings == [k \in Key |-> Unset]

ASSUME StoreAssumption ==
  /\ Covers \in [Name -> SUBSET Name]
  /\ \A n \in Name : n \in Covers[n]
  /\ Exclusive \in BOOLEAN
  /\ MaxOps \in Nat
  /\ Unset \notin Value
  /\ NoName \notin Name
  /\ Absent # Empty /\ Absent \notin Settings /\ Empty \notin Settings
  /\ Null \notin Settings

VARIABLES
  file,      \* file[n]: contents of n's configuration file
  (* each process *)
  pc,        \* where it is in ImageAdd, ImageChange, ImageDelete or a load
  target,    \* the VM it works on
  options,   \* the settings its user gave
  buffer,    \* what it will have written, or has loaded
  linked,    \* its open file is still the one in the directory
  todo,      \* names in the glob of ImageDelete not unlinked yet
  opno,      \* operations begun
  (* history, read by the properties only *)
  cut,       \* VMs whose file was open for writing in a process that was killed
  intended   \* intended[n]: the configurations some process meant n to have

procVars == <<pc, target, options, buffer, linked, todo>>
vars == <<file, procVars, opno, cut, intended>>

-----------------------------------------------------------------------------
Busy(p) == pc[p] # "idle"

\* The names the operation of p can touch.
Touches(p) == IF pc[p] = "unlink" THEN Covers[target[p]]
              ELSE IF Busy(p) THEN {target[p]} ELSE {}

\* p may begin to work on the VMs S.
MayBegin(p, S) ==
  /\ pc[p] = "idle"
  /\ opno < MaxOps
  /\ opno' = opno + 1
  /\ Exclusive => \A q \in Proc : Touches(q) \cap S = {}

TypeOK ==
  /\ file \in [Name -> Settings \cup {Absent, Empty}]
  /\ pc \in [Proc -> {"idle", "load", "open", "reopen", "close", "unlink", "read"}]
  /\ target \in [Proc -> Name \cup {NoName}]
  /\ options \in [Proc -> Settings]
  /\ buffer \in [Proc -> Settings \cup {Null}]
  /\ linked \in [Proc -> BOOLEAN]
  /\ todo \in [Proc -> SUBSET Name]
  /\ opno \in 0..MaxOps
  /\ cut \subseteq Name
  /\ intended \in [Name -> SUBSET Settings]

Init ==
  /\ file \in [Name -> Settings \cup {Absent}]
  /\ pc = [p \in Proc |-> "idle"]
  /\ target = [p \in Proc |-> NoName]
  /\ options = [p \in Proc |-> NoSettings]
  /\ buffer = [p \in Proc |-> Null]
  /\ linked = [p \in Proc |-> FALSE]
  /\ todo = [p \in Proc |-> {}]
  /\ opno = 0
  /\ cut = {}
  /\ intended = [n \in Name |-> {file[n]} \cap Settings]

-----------------------------------------------------------------------------
(* Loading and updating.                                                   *)

\* ImageConfigLoad: no file, or an empty document, gives NULL.
Loaded(n) == IF file[n] \in Settings THEN file[n] ELSE Null

\* ImageConfigUpdate, then ImageConfigExpand: the options override what was
\* loaded; in a NULL tree nothing can be set, and nothing comes out of it.
Override(old, new) == [k \in Key |-> IF new[k] = Unset THEN old[k] ELSE new[k]]
UpdatedLosesOld(conf, s) == s  \* mutant: only the options are written back
UpdatedNull(conf, s) == IF conf = Null THEN Null ELSE Override(conf, s)  \* mutant
Updated(conf, s) == IF conf = Null THEN NoSettings ELSE Override(conf, s)

-----------------------------------------------------------------------------
(* The operations.                                                         *)

BeginAdd(p, n, s) ==
  /\ MayBegin(p, {n})
  /\ pc' = [pc EXCEPT ![p] = "open"]
  /\ target' = [target EXCEPT ![p] = n]
  /\ options' = [options EXCEPT ![p] = s]
  /\ buffer' = [buffer EXCEPT ![p] = s]
  /\ UNCHANGED <<file, linked, todo, cut, intended>>

BeginChange(p, n, s) ==
  /\ MayBegin(p, {n})
  /\ pc' = [pc EXCEPT ![p] = "load"]
  /\ target' = [target EXCEPT ![p] = n]
  /\ options' = [options EXCEPT ![p] = s]
  /\ UNCHANGED <<file, buffer, linked, todo, cut, intended>>

\* ImageChange: the file is read and closed before it is opened for writing.
Load(p) ==
  /\ pc[p] = "load"
  /\ buffer' = [buffer EXCEPT ![p] = Updated(Loaded(target[p]), options[p])]
  /\ pc' = [pc EXCEPT ![p] = "reopen"]
  /\ UNCHANGED <<file, target, options, linked, todo, opno, cut, intended>>

\* ImageConfigOpen(.., "w") creates or truncates the file.
OpenW(p) ==
  /\ pc[p] \in {"open", "reopen"}
  /\ file' = [file EXCEPT ![target[p]] = Empty]
  /\ linked' = [linked EXCEPT ![p] = TRUE]
  /\ pc' = [pc EXCEPT ![p] = "close"]
  /\ UNCHANGED <<target, options, buffer, todo, opno, cut, intended>>

\* The process is done with the VM.
ToIdle(p) ==
  /\ pc' = [pc EXCEPT ![p] = "idle"]
  /\ target' = [target EXCEPT ![p] = NoName]
  /\ options' = [options EXCEPT ![p] = NoSettings]
  /\ buffer' = [buffer EXCEPT ![p] = Null]
  /\ linked' = [linked EXCEPT ![p] = FALSE]
  /\ todo' = [todo EXCEPT ![p] = {}]

NotFlushed(p) == file' = file  \* mutant: the buffer is dropped
FlushMerged(p) ==  \* mutant: the parser also reads what a longer file left behind
  file' = IF ~linked[p] THEN file
          ELSE [file EXCEPT ![target[p]] =
                  IF @ \in Settings THEN Override(@, buffer[p]) ELSE buffer[p]]
Flush(p) ==
  file' = IF linked[p] THEN [file EXCEPT ![target[p]] = buffer[p]] ELSE file

\* ImageConfigSave, STREAMClose: the contents reach the file, if that is still
\* in the directory.  What is left of a longer file that another process wrote
\* in the meantime stays behind it, where the parser does not look: it stops
\* at the first closing brace.
Close(p) ==
  /\ pc[p] = "close"
  /\ Flush(p)
  /\ intended' = [intended EXCEPT ![target[p]] = @ \cup {buffer[p]}]
  /\ ToIdle(p)
  /\ UNCHANGED <<opno, cut>>

\* ImageDelete: glob, then unlink one file after the other.
BeginDelete(p, n) ==
  /\ MayBegin(p, Covers[n])
  /\ pc' = [pc EXCEPT ![p] = "unlink"]
  /\ target' = [target EXCEPT ![p] = n]
  /\ todo' = [todo EXCEPT ![p] = {m \in Covers[n] : file[m] # Absent}]
  /\ UNCHANGED <<file, options, buffer, linked, cut, intended>>

\* A process that has the file open writes to one nobody can find any more.
Unlink(p, m) ==
  /\ pc[p] = "unlink"
  /\ m \in todo[p]
  /\ file' = [file EXCEPT ![m] = Absent]
  /\ linked' = [q \in Proc |-> linked[q] /\ target[q] # m]
  /\ todo' = [todo EXCEPT ![p] = @ \ {m}]
  /\ UNCHANGED <<pc, target, options, buffer, opno, cut, intended>>

Deleted(p) ==
  /\ pc[p] = "unlink"
  /\ todo[p] = {}
  /\ ToIdle(p)
  /\ UNCHANGED <<file, opno, cut, intended>>

\* ImageStart and the menus load a configuration and only look at it.
Read(p, n) ==
  /\ MayBegin(p, {n})
  /\ pc' = [pc EXCEPT ![p] = "read"]
  /\ target' = [target EXCEPT ![p] = n]
  /\ buffer' = [buffer EXCEPT ![p] = Loaded(n)]
  /\ UNCHANGED <<file, options, linked, todo, cut, intended>>

ReadDone(p) ==
  /\ pc[p] = "read"
  /\ ToIdle(p)
  /\ UNCHANGED <<file, opno, cut, intended>>

\* The process is killed; what is in its buffer is lost.
Killed(p) ==
  /\ ~Exclusive
  /\ Busy(p)
  /\ cut' = IF linked[p] THEN cut \cup {target[p]} ELSE cut
  /\ ToIdle(p)
  /\ UNCHANGED <<file, opno, intended>>

-----------------------------------------------------------------------------
Next ==
  \E p \in Proc :
    \/ \E n \in Name :
         \/ \E s \in Settings : BeginAdd(p, n, s) \/ BeginChange(p, n, s)
         \/ BeginDelete(p, n)
         \/ Unlink(p, n)
         \/ Read(p, n)
    \/ Load(p) \/ OpenW(p) \/ Close(p) \/ Deleted(p) \/ ReadDone(p) \/ Killed(p)

Spec == Init /\ [][Next]_vars

-----------------------------------------------------------------------------
(* Properties.                                                             *)

\* A configuration that exists but has no contents, for which every load says
\* "no registered VM", is being written at this moment or was cut short by the
\* death of its writer: no interleaving of complete operations leaves one.
EmptyExplained ==
  \A n \in Name : file[n] = Empty =>
    n \in cut \/ \E p \in Proc : pc[p] = "close" /\ linked[p] /\ target[p] = n

\* However the writers overlap, what can be loaded is what one of them meant
\* to write, whole: never a blend of two, nor a part of one.
NeverBlended ==
  \A n \in Name : file[n] \in Settings => file[n] \in intended[n]

\* With one process at a time at work on a VM and none killed, the directory
\* implements the registry, whatever the processes do to different VMs.  What
\* is asked for takes effect when the file is truncated, or unlinked.
Writing(n) == {p \in Proc : pc[p] = "close" /\ target[p] = n}
RegistryView ==
  [n \in Name |->
     IF Writing(n) # {} THEN buffer[CHOOSE p \in Writing(n) : TRUE] ELSE file[n]]

Asks(p, kind) == [kind |-> kind, name |-> target[p], settings |-> options[p]]
AskedView ==
  [p \in Proc |->
     CASE pc[p] = "open" -> Asks(p, "add")
       [] pc[p] \in {"load", "reopen"} -> Asks(p, "change")
       [] pc[p] = "unlink" /\ todo[p] # {} -> Asks(p, "delete")
       [] OTHER -> [kind |-> "none"]]

\* A start or a menu that loads a configuration finds what the registry holds;
\* it is not told "no registered VM" of one that is there.
ReadsRegistry ==
  \A p \in Proc : pc[p] = "read" =>
    buffer[p] = IF RegistryView[target[p]] = Absent THEN Null ELSE RegistryView[target[p]]

Reg == INSTANCE Registry WITH reg <- RegistryView, asked <- AskedView
ImplementsRegistry == Reg!Spec
=============================================================================
