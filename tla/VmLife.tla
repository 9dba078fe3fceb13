------------------------------- MODULE VmLife -------------------------------
(***************************************************************************)
(* The life of the QEMU processes that qemu_mgr starts, and the two files  *)
(* through which it finds them again: NAME.pid, written by QEMU because of *)
(* -pidfile, and the socket NAME.qmp, at which it listens because of -qmp. *)
(* The users are at the command line, at the terminal menus or at the      *)
(* dialogs, several at a time.  qemu_mgr itself remembers nothing between  *)
(* two operations, except what a menu has on the screen.                   *)
(*                                                                         *)
(* A QMP exchange is one step here: QmpSession is about what can happen    *)
(* within one.  QEMU, the guest and the other processes of the machine,    *)
(* whose pids may be recycled, are external.                               *)
(***************************************************************************)
EXTENDS Integers, FiniteSets

CONSTANTS
  Client,      \* qemu_mgr processes
  Ui,          \* Ui[c]: the front end c runs, "cli", "term" or "xdialog"
  Name,        \* virtual machines
  NoName,
  Pid, NoPid,
  MaxStarts,   \* bound: QEMU processes started
  MaxCrash     \* bound: QEMU processes that die of something else than Kill

ASSUME LifeAssumption ==
  /\ Ui \in [Client -> {"cli", "term", "xdialog"}]
  /\ NoName \notin Name
  /\ NoPid \notin Pid
  /\ {MaxStarts, MaxCrash} \subseteq Nat

Free  == [kind |-> "free"]
Other == [kind |-> "other"]
Qemu(n, m) == [kind |-> "qemu", vm |-> n, mode |-> m]
Mode == {"starting", "running", "paused"}
Process == {Free, Other} \cup {Qemu(n, m) : n \in Name, m \in Mode}

VARIABLES
  proc,      \* proc[p]: what the pid p is at the moment
  conf,      \* VMs with a configuration file
  pidfile,   \* pidfile[n]: the pid in NAME.pid, NoPid if there is no such file
  lock,      \* lock[n]: the process that holds the lock on that file
  sock,      \* sock[n]: the process that listens at NAME.qmp
  (* each qemu_mgr process *)
  at,        \* the menu it shows, or where it is in ImageKill
  vm,        \* the VM that menu is about
  sawPaused, \* IMG_PAUSED in the TImageInfo the menu was built from
  victim,    \* the pid ImageKill has read
  starts, crashes,
  (* history, read by the properties only *)
  stale,     \* VMs whose pid file has survived its process
  orphaned   \* VMs that were deleted while a QEMU process of theirs was there

fileVars   == <<conf, pidfile, lock, sock>>
clientVars == <<at, vm, sawPaused, victim>>
boundVars  == <<starts, crashes>>
vars == <<proc, fileVars, clientVars, boundVars, stale, orphaned>>

-----------------------------------------------------------------------------
IsQemu(p, n) == proc[p].kind = "qemu" /\ proc[p].vm = n

\* The QEMU processes of n that got through their start.
Up(n) == {p \in Pid : IsQemu(p, n) /\ proc[p].mode # "starting"}

\* ImageGetRunningInfo: n is running if somebody answers at NAME.qmp.
Answers(n) == sock[n] # NoPid

Init ==
  /\ proc \in [Pid -> {Free, Other}]
  /\ conf = Name
  /\ pidfile = [n \in Name |-> NoPid]
  /\ lock = [n \in Name |-> NoPid]
  /\ sock = [n \in Name |-> NoPid]
  /\ at = [c \in Client |-> "list"]
  /\ vm = [c \in Client |-> NoName]
  /\ sawPaused = [c \in Client |-> FALSE]
  /\ victim = [c \in Client |-> NoPid]
  /\ starts = 0
  /\ crashes = 0
  /\ stale = {}
  /\ orphaned = {}

-----------------------------------------------------------------------------
(* The menus.                                                              *)

GoTo(c, place) == at' = [at EXCEPT ![c] = place]

ToList(c) ==
  /\ GoTo(c, "list")
  /\ vm' = [vm EXCEPT ![c] = NoName]
  /\ sawPaused' = [sawPaused EXCEPT ![c] = FALSE]
  /\ victim' = [victim EXCEPT ![c] = NoPid]

\* A VM is chosen from the list; whether it runs decides on the menu.
Select(c, n) ==
  /\ Ui[c] # "cli"
  /\ at[c] = "list"
  /\ n \in conf
  /\ vm' = [vm EXCEPT ![c] = n]
  /\ GoTo(c, IF Answers(n) THEN "manage" ELSE "start")
  /\ sawPaused' = [sawPaused EXCEPT ![c] = Answers(n) /\ proc[sock[n]].mode = "paused"]
  /\ UNCHANGED <<proc, fileVars, victim, boundVars, stale, orphaned>>

\* The user goes back, or a start fails.
Back(c) ==
  /\ at[c] \in {"start", "saved", "manage"}
  /\ ToList(c)
  /\ UNCHANGED <<proc, fileVars, boundVars, stale, orphaned>>

\* After an operation on a running VM the terminal goes back to the list; the
\* dialog stays, with the same TImageInfo (interactive_xdialog.c:788).
LeavesLoop(c) ==  \* mutant: the loop over the menus ends
  GoTo(c, "exit") /\ UNCHANGED <<vm, sawPaused, victim>>
AfterManage(c) ==
  IF Ui[c] = "xdialog"
  THEN /\ GoTo(c, "manage")
       /\ victim' = [victim EXCEPT ![c] = NoPid]
       /\ UNCHANGED <<vm, sawPaused>>
  ELSE ToList(c)

-----------------------------------------------------------------------------
(* The operations.                                                         *)

\* The VM that the menu is about, or that is named at the command line.
Chosen(c, n) == vm[c] = n \/ (Ui[c] = "cli" /\ at[c] = "list" /\ n \in Name)

\* What ImageStart puts on the command line of QEMU.
NoLock == {"-qmp"}      \* mutant
NoMonitor == {"-pidfile"}  \* mutant
Arguments == {"-pidfile", "-qmp"}

\* The pid file is left to QEMU, which writes it once it holds the lock.
RecordSpawned(n, p) ==  \* mutant: qemu_mgr writes the pid it has spawned
  pidfile' = [pidfile EXCEPT ![n] = p]
Record(n, p) == UNCHANGED pidfile

\* ImageStart: without a configuration nothing happens.  The terminal stays in
\* the menu, where the VM can be started once more.
StartVm(c, n, p) ==
  /\ at[c] \in {"start", "saved"} \/ Ui[c] = "cli"
  /\ Chosen(c, n)
  /\ n \in conf
  /\ starts < MaxStarts
  /\ proc[p] = Free
  /\ proc' = [proc EXCEPT ![p] = Qemu(n, "starting")]
  /\ starts' = starts + 1
  /\ Record(n, p)
  /\ IF Ui[c] = "xdialog" THEN ToList(c) ELSE UNCHANGED clientVars
  /\ UNCHANGED <<conf, lock, sock, crashes, stale, orphaned>>

SetMode(n, m) ==
  proc' = IF Answers(n) THEN [proc EXCEPT ![sock[n]] = Qemu(n, m)] ELSE proc

\* ImagePause and ImageResume: the menu offers the one or the other according
\* to what it saw, not to what is the case.
Pause(c) ==
  /\ at[c] = "manage"
  /\ ~sawPaused[c]
  /\ SetMode(vm[c], "paused")
  /\ AfterManage(c)
  /\ UNCHANGED <<fileVars, boundVars, stale, orphaned>>

Resume(c) ==
  /\ at[c] = "manage"
  /\ sawPaused[c]
  /\ SetMode(vm[c], "running")
  /\ AfterManage(c)
  /\ UNCHANGED <<fileVars, boundVars, stale, orphaned>>

\* ImageDelete, for a VM the menu shows as stopped or that is named at the
\* command line: everything NAME.* goes, running or not.
DeleteVm(c, n) ==
  /\ at[c] = "start" \/ Ui[c] = "cli"
  /\ Chosen(c, n)
  /\ conf' = conf \ {n}
  /\ pidfile' = [pidfile EXCEPT ![n] = NoPid]
  /\ lock' = [lock EXCEPT ![n] = NoPid]
  /\ sock' = [sock EXCEPT ![n] = NoPid]
  /\ stale' = stale \ {n}
  /\ orphaned' = IF \E p \in Pid : IsQemu(p, n) THEN orphaned \cup {n} ELSE orphaned
  /\ IF Ui[c] = "cli" THEN UNCHANGED clientVars ELSE ToList(c)
  /\ UNCHANGED <<proc, boundVars>>

\* ImageAdd of a VM under a name that is free again.
AddVm(c, n) ==
  /\ at[c] = "list"
  /\ n \notin conf
  /\ conf' = conf \cup {n}
  /\ UNCHANGED <<proc, pidfile, lock, sock, clientVars, boundVars, stale, orphaned>>

\* ImageChange, which brings a deleted configuration back.  The dialog returns
\* to the list, or goes on to start the VM.
SaveVm(c, n) ==
  /\ at[c] = "start" \/ Ui[c] = "cli"
  /\ Chosen(c, n)
  /\ conf' = conf \cup {n}
  /\ CASE Ui[c] = "cli" -> UNCHANGED clientVars
       [] Ui[c] = "term" -> UNCHANGED clientVars
       [] Ui[c] = "xdialog" ->
            \/ ToList(c)
            \/ GoTo(c, "saved") /\ UNCHANGED <<vm, sawPaused, victim>>
  /\ UNCHANGED <<proc, pidfile, lock, sock, boundVars, stale, orphaned>>

\* ImageKill asks the guest to shut down and sleeps for three seconds ...
KillAsk(c) ==
  /\ at[c] = "manage"
  /\ GoTo(c, "asked")
  /\ UNCHANGED <<proc, fileVars, vm, sawPaused, victim, boundVars, stale, orphaned>>

\* ... reads the pid file, if there is one ...
KillRead(c) ==
  /\ at[c] = "asked"
  /\ \/ /\ pidfile[vm[c]] # NoPid
        /\ victim' = [victim EXCEPT ![c] = pidfile[vm[c]]]
        /\ GoTo(c, "kill")
        /\ UNCHANGED <<vm, sawPaused>>
     \/ /\ pidfile[vm[c]] = NoPid
        /\ AfterManage(c)
  /\ UNCHANGED <<proc, fileVars, boundVars, stale, orphaned>>

\* A process disappears without a chance to clean up: its files stay, but it
\* no longer holds the lock nor listens.
Dies(p) ==
  /\ proc' = [proc EXCEPT ![p] = Free]
  /\ lock' = [n \in Name |-> IF lock[n] = p THEN NoPid ELSE lock[n]]
  /\ sock' = [n \in Name |-> IF sock[n] = p THEN NoPid ELSE sock[n]]
  /\ stale' = stale \cup {n \in Name : lock[n] = p}
  /\ UNCHANGED <<conf, pidfile>>

\* ... and sends SIGKILL to whatever has that pid now.
KillSend(c) ==
  /\ at[c] = "kill"
  /\ LET p == victim[c] IN
       IF proc[p] = Free
       THEN UNCHANGED <<proc, fileVars, stale>>
       ELSE Dies(p)
  /\ AfterManage(c)
  /\ UNCHANGED <<boundVars, orphaned>>

-----------------------------------------------------------------------------
(* QEMU and the machine.                                                   *)

\* A QEMU that starts locks and writes its pid file, replaces the socket and
\* listens, as far as it was told to; if another process holds the lock it
\* gives up.
Claim(p) ==
  /\ proc[p].kind = "qemu"
  /\ proc[p].mode = "starting"
  /\ LET n == proc[p].vm IN
     \/ /\ "-pidfile" \in Arguments => lock[n] = NoPid
        /\ proc' = [proc EXCEPT ![p] = Qemu(n, "running")]
        /\ IF "-pidfile" \in Arguments
           THEN /\ pidfile' = [pidfile EXCEPT ![n] = p]
                /\ lock' = [lock EXCEPT ![n] = p]
                /\ stale' = stale \ {n}
           ELSE UNCHANGED <<pidfile, lock, stale>>
        /\ sock' = IF "-qmp" \in Arguments THEN [sock EXCEPT ![n] = p] ELSE sock
     \/ /\ "-pidfile" \in Arguments
        /\ lock[n] # NoPid
        /\ proc' = [proc EXCEPT ![p] = Free]
        /\ UNCHANGED <<pidfile, lock, sock, stale>>
  /\ UNCHANGED <<conf, clientVars, boundVars, orphaned>>

\* The guest is shut down, by itself or because it was asked to: QEMU removes
\* the files of its VM, by name.
PowerOff(p) ==
  /\ proc[p].kind = "qemu"
  /\ proc[p].mode = "running"
  /\ LET n == proc[p].vm IN
       /\ pidfile' = [pidfile EXCEPT ![n] = NoPid]
       /\ lock' = [lock EXCEPT ![n] = NoPid]
       /\ sock' = [sock EXCEPT ![n] = NoPid]
       /\ stale' = stale \ {n}
  /\ proc' = [proc EXCEPT ![p] = Free]
  /\ UNCHANGED <<conf, clientVars, boundVars, orphaned>>

\* QEMU aborts, or the host runs out of memory.
Crash(p) ==
  /\ proc[p].kind = "qemu"
  /\ crashes < MaxCrash
  /\ crashes' = crashes + 1
  /\ Dies(p)
  /\ UNCHANGED <<clientVars, starts, orphaned>>

\* Processes that have nothing to do with qemu_mgr come and go.
OtherBegins(p) ==
  /\ proc[p] = Free
  /\ proc' = [proc EXCEPT ![p] = Other]
  /\ UNCHANGED <<fileVars, clientVars, boundVars, stale, orphaned>>

OtherEnds(p) ==
  /\ proc[p] = Other
  /\ proc' = [proc EXCEPT ![p] = Free]
  /\ UNCHANGED <<fileVars, clientVars, boundVars, stale, orphaned>>

-----------------------------------------------------------------------------
ClientNext(c) ==
  \/ \E n \in Name :
       \/ Select(c, n) \/ DeleteVm(c, n) \/ AddVm(c, n) \/ SaveVm(c, n)
       \/ \E p \in Pid : StartVm(c, n, p)
  \/ Back(c) \/ Pause(c) \/ Resume(c)
  \/ KillAsk(c) \/ KillRead(c) \/ KillSend(c)

MachineNext(p) == Claim(p) \/ PowerOff(p) \/ Crash(p) \/ OtherBegins(p) \/ OtherEnds(p)

Next == (\E c \in Client : ClientNext(c)) \/ (\E p \in Pid : MachineNext(p))

Spec == Init /\ [][Next]_vars

\* ImageKill runs to its end by itself; nothing else is sure to happen.
FairSpec == Spec /\ \A c \in Client : WF_vars(KillRead(c) \/ KillSend(c))

-----------------------------------------------------------------------------
(* Properties.                                                             *)

TypeOK ==
  /\ proc \in [Pid -> Process]
  /\ conf \subseteq Name
  /\ pidfile \in [Name -> Pid \cup {NoPid}]
  /\ lock \in [Name -> Pid \cup {NoPid}]
  /\ sock \in [Name -> Pid \cup {NoPid}]
  /\ at \in [Client -> {"list", "start", "saved", "manage", "asked", "kill"}]
  /\ vm \in [Client -> Name \cup {NoName}]
  /\ sawPaused \in [Client -> BOOLEAN]
  /\ victim \in [Client -> Pid \cup {NoPid}]
  /\ starts \in 0..MaxStarts
  /\ crashes \in 0..MaxCrash
  /\ stale \subseteq Name
  /\ orphaned \subseteq Name

\* What ImageKill relies on: the pid in NAME.pid is that of a QEMU process of
\* this VM, unless such a process died without removing the file.  Neither a
\* second start, nor a delete, nor a recycled pid makes the file lie.
PidFileTrue ==
  \A n \in Name \ stale :
    pidfile[n] # NoPid => IsQemu(pidfile[n], n) /\ lock[n] = pidfile[n]

\* However often a VM is started, from however many front ends, at most one
\* QEMU opens its disk image; only deleting a VM that runs breaks this.
OneQemuPerVm ==
  \A n \in Name \ orphaned : Cardinality(Up(n)) <= 1

\* A VM that runs is shown as running by the lists of all front ends, and can
\* be paused, stopped and killed; only deleting it breaks this.
RunningIsFound ==
  \A n \in Name \ orphaned : \A p \in Up(n) : sock[n] = p

\* Kill kills: a VM that runs when ImageKill has asked it to shut down is no
\* longer running at some time after, unless somebody deletes it meanwhile.
KillKills ==
  \A c \in Client : \A n \in Name : \A p \in Pid :
    (at[c] = "asked" /\ vm[c] = n /\ p \in Up(n))
      ~> (p \notin Up(n) \/ n \in orphaned)
=============================================================================
