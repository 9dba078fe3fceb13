-------------------------------- MODULE Disk --------------------------------
(***************************************************************************)
(* The disks of VMs: how ImageCreate makes them, what ImageTakeSnapshot    *)
(* and ImageDriveBackup do to them while the VM runs, which of the images  *)
(* ImageStart opens the next time, and what ImageDelete leaves of them.    *)
(*                                                                         *)
(* A snapshot directs all further writes of the guest to an overlay that   *)
(* no configuration knows of: the next start opens the base.  A backup     *)
(* begins with such a snapshot, and the loop that should end it never      *)
(* does, so that the overlay is neither committed nor removed.             *)
(*                                                                         *)
(* QEMU, qemu-img, the guest and the file system are external.  An image   *)
(* is a layer: what was written to it.  A file name leads to a layer, and  *)
(* a layer stays with whoever has opened it when its name is unlinked.  An *)
(* exchange with the monitor is carried out or not, and nobody looks.      *)
(***************************************************************************)
EXTENDS Integers, Sequences, FiniteSets

CONSTANTS
  Client,    \* qemu_mgr processes
  Name,      \* virtual machines
  File,      \* names of files that users give: imported images, snapshots, backups
  Layer,     \* contents of image files, as the file system tells them apart
  Machine,   \* QEMU processes
  Given,     \* Given[f]: the layer that file f is in the beginning, or NoLayer
  MaxRuns,   \* bound: QEMU processes started
  MaxWrites, \* bound: writes of guests
  MaxTasks,  \* bound: creations, snapshots and backups asked for
  NoLayer, NoMachine, NoTask, NoJob

Own(n) == <<"img", n>>     \* ~/.qemu_mgr/NAME.img
Temp(n) == <<"snap", n>>   \* ~/.qemu_mgr/NAME.snap
Users(f) == <<"file", f>>
Path == {Own(n) : n \in Name} \cup {Temp(n) : n \in Name} \cup {Users(f) : f \in File}

Write == 0..MaxWrites      \* 0: what was in the given images

\* ImageCreate with an iso, and a size or none, or with an image to import.
Task == [kind : {"iso"}, vm : Name, sized : BOOLEAN]
          \cup [kind : {"import", "backup"}, vm : Name, file : File]

ASSUME DiskAssumption ==
  /\ {MaxRuns, MaxWrites, MaxTasks} \subseteq Nat
  /\ NoLayer \notin Layer
  /\ Given \in [File -> Layer \cup {NoLayer}]
  /\ \A f, g \in File : Given[f] = Given[g] => f = g \/ Given[f] = NoLayer
  /\ NoMachine \notin Machine
  /\ NoTask \notin Task
  /\ NoJob \notin [target : Layer, file : File, copy : SUBSET Write]

VARIABLES
  conf,     \* VMs with a configuration, whose image is always NAME.img
  dir,      \* dir[p]: the layer that the file p is
  layer,    \* layer[l]: what was written to it; whether it is all there; whether
            \* it needs no other layer below it
  chain,    \* chain[m]: the layers that the process m has open, <<>> if there is none
  job,      \* job[m]: the backup that m is making
  sock,     \* sock[n]: the process whose monitor listens at NAME.qmp
  at, task, \* where each qemu_mgr process is, and what it is about
  making,   \* making[c]: the layer that its qemu-img writes
  runs, writes, tasks,
  (* history, read by the properties only *)
  told,     \* told[n]: what guests have written to the disk NAME.img, anywhere
  lost,     \* lost[n]: those of them written after a snapshot in their run
  mine,     \* mine[m]: what the guest of m has written
  failed,   \* VMs whose disk was not made as it was asked for
  promised  \* promised[f]: what a backup in file f has to contain, {} if none is

procVars == <<chain, job, sock, mine>>
clientVars == <<at, task, making>>
diskHistory == <<told, lost, failed>>
vars == <<conf, dir, layer, procVars, clientVars, runs, writes, tasks, diskHistory, promised>>

-----------------------------------------------------------------------------
Members(s) == {s[i] : i \in DOMAIN s}
Last(s) == s[Len(s)]

Sources == {dir[Users(task[c].file)] : c \in {d \in Client : at[d] = "making" /\ task[d].kind = "import"}}

\* QEMU and qemu-img lock what they have open, and fail on what is locked.
InUse == (UNION {Members(chain[m]) : m \in Machine})
           \cup {job[m].target : m \in {k \in Machine : job[k] # NoJob}}
           \cup {making[c] : c \in {d \in Client : at[d] = "making"}}
           \cup Sources
Unlocked(p) == dir[p] \notin InUse

\* The layer that is written when the file p is created or truncated.
Unused == Layer \ (InUse \cup {dir[p] : p \in Path})
Possible(p) == Unlocked(p) /\ (dir[p] = NoLayer => Unused # {})
Target(p) == IF dir[p] = NoLayer THEN CHOOSE l \in Unused : TRUE ELSE dir[p]

View(m) == UNION {layer[l].data : l \in Members(chain[m])}

\* What the guest of m, running from the disk of n, has in its disk by now.
Seen(n, m) == (told[n] \ lost[n]) \cup mine[m]

Blank(plain) == [data |-> {}, whole |-> FALSE, plain |-> plain]

Init ==
  /\ conf = {}
  /\ dir = [p \in Path |-> IF p[1] = "file" THEN Given[p[2]] ELSE NoLayer]
  /\ layer = [l \in Layer |-> [data |-> {0}, whole |-> TRUE, plain |-> TRUE]]
  /\ chain = [m \in Machine |-> <<>>]
  /\ job = [m \in Machine |-> NoJob]
  /\ sock = [n \in Name |-> NoMachine]
  /\ at = [c \in Client |-> "idle"]
  /\ task = [c \in Client |-> NoTask]
  /\ making = [c \in Client |-> NoLayer]
  /\ runs = 0 /\ writes = 0 /\ tasks = 0
  /\ told = [n \in Name |-> {}]
  /\ lost = [n \in Name |-> {}]
  /\ mine = [m \in Machine |-> {}]
  /\ failed = {}
  /\ promised = [f \in File |-> {}]

GoTo(c, place) == at' = [at EXCEPT ![c] = place]
KeepsTask(c) == GoTo(c, "idle") /\ UNCHANGED <<task, making>>  \* mutant
ToIdle(c) ==
  /\ GoTo(c, "idle")
  /\ task' = [task EXCEPT ![c] = NoTask]
  /\ making' = [making EXCEPT ![c] = NoLayer]

Ask == tasks < MaxTasks /\ tasks' = tasks + 1

-----------------------------------------------------------------------------
(* ImageCreate.                                                            *)

\* The configuration comes first, over that of a VM of this name, if any.
BeginCreate(c, t) ==
  /\ at[c] = "idle"
  /\ Ask
  /\ t.kind # "backup"
  /\ conf' = conf \cup {t.vm}
  /\ task' = [task EXCEPT ![c] = t]
  /\ GoTo(c, "image")
  /\ UNCHANGED <<dir, layer, procVars, making, runs, writes, diskHistory, promised>>

\* qemu-img needs a size, or an image that it can read.
Feasible(t) ==
  /\ t.kind = "iso" => t.sized
  /\ t.kind = "import" =>
       /\ dir[Users(t.file)] # NoLayer
       /\ Unlocked(Users(t.file))
       /\ layer[dir[Users(t.file)]].plain

\* It truncates the file, and locks it.
MakeImage(c) ==
  LET t == task[c]  p == Own(t.vm)  l == Target(p) IN
  /\ at[c] = "image"
  /\ Feasible(t) /\ Possible(p)
  /\ dir' = [dir EXCEPT ![p] = l]
  /\ layer' = [layer EXCEPT ![l] = Blank(TRUE)]
  /\ making' = [making EXCEPT ![c] = l]
  /\ GoTo(c, "making")
  /\ told' = [told EXCEPT ![t.vm] = {}]
  /\ lost' = [lost EXCEPT ![t.vm] = {}]
  /\ UNCHANGED <<conf, procVars, task, runs, writes, tasks, failed, promised>>

\* Whether qemu-img succeeded is not asked: the installer follows anyway.
AfterImage(c) ==
  IF task[c].kind = "iso"
  THEN GoTo(c, "install") /\ making' = [making EXCEPT ![c] = NoLayer] /\ UNCHANGED task
  ELSE ToIdle(c)

NoImage(c) ==
  /\ at[c] = "image"
  /\ failed' = failed \cup {task[c].vm}
  /\ AfterImage(c)
  /\ UNCHANGED <<conf, dir, layer, procVars, runs, writes, tasks, told, lost, promised>>

\* qemu-img ends, with all of the image or, on a full disk, with a part.
Imported(c) == IF task[c].kind = "iso" THEN {} ELSE layer[dir[Users(task[c].file)]].data

ImageMade(c) ==
  LET n == task[c].vm  l == making[c] IN
  /\ at[c] = "making"
  /\ \E whole \in BOOLEAN :
       LET data == IF whole THEN Imported(c) ELSE {} IN
       /\ layer' = [layer EXCEPT ![l].data = data, ![l].whole = whole]
       /\ IF dir[Own(n)] = l
          THEN /\ told' = [told EXCEPT ![n] = data]
               /\ failed' = IF whole THEN failed \ {n} ELSE failed \cup {n}
          ELSE UNCHANGED <<told, failed>>
  /\ AfterImage(c)
  /\ UNCHANGED <<conf, dir, procVars, runs, writes, tasks, lost, promised>>

-----------------------------------------------------------------------------
(* QEMU.                                                                   *)

\* Which layer a start opens: what the configuration names, never an overlay.
OpensTemp(n) == IF dir[Temp(n)] = NoLayer THEN dir[Own(n)] ELSE dir[Temp(n)]  \* mutant
Opens(n) == dir[Own(n)]

Runs(n, m) ==
  /\ runs < MaxRuns
  /\ runs' = runs + 1
  /\ chain[m] = <<>>
  /\ dir[Own(n)] # NoLayer
  /\ Opens(n) \notin InUse
  /\ chain' = [chain EXCEPT ![m] = <<Opens(n)>>]
  /\ mine' = [mine EXCEPT ![m] = {}]

\* The installer has neither a monitor nor a pid file, and nobody knows it.
Install(c) ==
  /\ at[c] = "install"
  /\ \/ \E m \in Machine : Runs(task[c].vm, m)
     \/ UNCHANGED <<runs, chain, mine>>
  /\ ToIdle(c)
  /\ UNCHANGED <<conf, dir, layer, job, sock, writes, tasks, diskHistory, promised>>

\* ImageStart.
Start(n, m) ==
  /\ n \in conf
  /\ Runs(n, m)
  /\ sock' = [sock EXCEPT ![n] = m]
  /\ UNCHANGED <<conf, dir, layer, job, clientVars, writes, tasks, diskHistory, promised>>

\* VMs whose disk m has open at the bottom of its chain.
Serves(m, n) == chain[m] # <<>> /\ chain[m][1] = dir[Own(n)]

\* The guest writes to the uppermost layer.
GuestWrites(m) ==
  /\ chain[m] # <<>>
  /\ writes < MaxWrites
  /\ writes' = writes + 1
  /\ layer' = [layer EXCEPT ![Last(chain[m])].data = @ \cup {writes'}]
  /\ mine' = [mine EXCEPT ![m] = @ \cup {writes'}]
  /\ told' = [n \in Name |-> IF Serves(m, n) THEN told[n] \cup {writes'} ELSE told[n]]
  /\ lost' = [n \in Name |-> IF Serves(m, n) /\ Len(chain[m]) > 1
                             THEN lost[n] \cup {writes'} ELSE lost[n]]
  /\ UNCHANGED <<conf, dir, chain, job, sock, clientVars, runs, tasks, failed, promised>>

\* A backup copies the disk as it was when it began.
JobEnds(m) ==
  /\ job[m] # NoJob
  /\ layer' = [layer EXCEPT ![job[m].target].data = job[m].copy, ![job[m].target].whole = TRUE]
  /\ job' = [job EXCEPT ![m] = NoJob]
  /\ UNCHANGED <<conf, dir, chain, sock, mine, clientVars, runs, writes, tasks, diskHistory, promised>>

\* Shut down, killed, or crashed; and nothing of its backup but a part.
Ends(m) ==
  /\ chain[m] # <<>>
  /\ chain' = [chain EXCEPT ![m] = <<>>]
  /\ job' = [job EXCEPT ![m] = NoJob]
  /\ sock' = [n \in Name |-> IF sock[n] = m THEN NoMachine ELSE sock[n]]
  /\ mine' = [mine EXCEPT ![m] = {}]
  /\ UNCHANGED <<conf, dir, layer, clientVars, runs, writes, tasks, diskHistory, promised>>

-----------------------------------------------------------------------------
(* Snapshots and backups.                                                  *)

\* blockdev-snapshot-sync: an overlay in a file that is made or truncated.
Overlay(n, p) ==
  LET m == sock[n]  l == Target(p) IN
  /\ m # NoMachine
  /\ job[m] = NoJob
  /\ Possible(p)
  /\ dir' = [dir EXCEPT ![p] = l]
  /\ layer' = [layer EXCEPT ![l] = [Blank(FALSE) EXCEPT !.whole = TRUE]]
  /\ chain' = [chain EXCEPT ![m] = Append(@, l)]

\* ImageTakeSnapshot.
TakeSnapshot(n, f) ==
  /\ Ask
  /\ Overlay(n, Users(f))
  /\ promised' = [promised EXCEPT ![f] = {}]
  /\ UNCHANGED <<conf, job, sock, mine, clientVars, runs, writes, diskHistory>>

\* ImageDriveBackup.  The snapshot may come to nothing ...
BeginBackup(c, t) ==
  /\ at[c] = "idle"
  /\ Ask
  /\ t.kind = "backup"
  /\ task' = [task EXCEPT ![c] = t]
  /\ GoTo(c, "backup")
  /\ Overlay(t.vm, Temp(t.vm)) \/ UNCHANGED <<dir, layer, chain>>
  /\ UNCHANGED <<conf, job, sock, mine, making, runs, writes, diskHistory, promised>>

\* ... and so may the backup that follows, of the disk as the guest sees it.
TopOnly(m) == layer[Last(chain[m])].data  \* mutant: "sync": "top"
Synced(m) == View(m)

DriveBackup(c) ==
  LET n == task[c].vm  f == task[c].file  m == sock[n]  l == Target(Users(f)) IN
  /\ at[c] = "backup"
  /\ GoTo(c, "poll")
  /\ \/ /\ m # NoMachine
        /\ job[m] = NoJob
        /\ Possible(Users(f))
        /\ dir' = [dir EXCEPT ![Users(f)] = l]
        /\ layer' = [layer EXCEPT ![l] = Blank(TRUE)]
        /\ job' = [job EXCEPT ![m] = [target |-> l, file |-> f, copy |-> Synced(m)]]
        /\ promised' = [promised EXCEPT ![f] = IF Serves(m, n) THEN Seen(n, m) ELSE {}]
     \/ UNCHANGED <<dir, layer, job, promised>>
  /\ UNCHANGED <<conf, chain, sock, mine, task, making, runs, writes, tasks, diskHistory>>

\* It goes on asking for jobs, finished or not, until it is killed.  A process
\* that is killed while it creates a VM takes qemu-img with it.
Killed(c) ==
  /\ at[c] # "idle"
  /\ failed' = IF task[c].kind = "backup" \/ at[c] = "install" THEN failed
               ELSE failed \cup {task[c].vm}
  /\ ToIdle(c)
  /\ UNCHANGED <<conf, dir, layer, procVars, runs, writes, tasks, told, lost, promised>>

-----------------------------------------------------------------------------
\* ImageDelete: the configuration, the disk, the overlay of a backup and the
\* socket, whether or not the VM runs.
DiskOnly(n) == UNCHANGED conf  \* mutant: the pattern misses the configuration
Unregister(n) == conf' = conf \ {n}

Delete(n) ==
  /\ Unregister(n)
  /\ n \in conf
  /\ dir' = [dir EXCEPT ![Own(n)] = NoLayer, ![Temp(n)] = NoLayer]
  /\ sock' = [sock EXCEPT ![n] = NoMachine]
  /\ told' = [told EXCEPT ![n] = {}]
  /\ lost' = [lost EXCEPT ![n] = {}]
  /\ failed' = failed \ {n}
  /\ UNCHANGED <<layer, chain, job, mine, clientVars, runs, writes, tasks, promised>>

-----------------------------------------------------------------------------
ClientNext(c) ==
  \/ \E t \in Task : BeginCreate(c, t) \/ BeginBackup(c, t)
  \/ MakeImage(c) \/ NoImage(c) \/ ImageMade(c) \/ Install(c)
  \/ DriveBackup(c) \/ Killed(c)

VmNext(n) ==
  \/ Delete(n)
  \/ \E m \in Machine : Start(n, m)
  \/ \E f \in File : TakeSnapshot(n, f)

MachineNext(m) == GuestWrites(m) \/ JobEnds(m) \/ Ends(m)

Next ==
  \/ \E c \in Client : ClientNext(c)
  \/ \E n \in Name : VmNext(n)
  \/ \E m \in Machine : MachineNext(m)

Spec == Init /\ [][Next]_vars

-----------------------------------------------------------------------------
(* Properties.                                                             *)

TypeOK ==
  /\ conf \subseteq Name
  /\ dir \in [Path -> Layer \cup {NoLayer}]
  /\ layer \in [Layer -> [data : SUBSET Write, whole : BOOLEAN, plain : BOOLEAN]]
  /\ chain \in [Machine -> Seq(Layer)]
  /\ job \in [Machine -> [target : Layer, file : File, copy : SUBSET Write] \cup {NoJob}]
  /\ sock \in [Name -> Machine \cup {NoMachine}]
  /\ \A n \in Name : sock[n] # NoMachine => chain[sock[n]] # <<>>
  /\ at \in [Client -> {"idle", "image", "making", "install", "backup", "poll"}]
  /\ task \in [Client -> Task \cup {NoTask}]
  /\ \A c \in Client : at[c] = "idle" <=> task[c] = NoTask
  /\ making \in [Client -> Layer \cup {NoLayer}]
  /\ runs \in 0..MaxRuns
  /\ writes \in 0..MaxWrites
  /\ tasks \in 0..MaxTasks
  /\ told \in [Name -> SUBSET Write]
  /\ lost \in [Name -> SUBSET Write]
  /\ mine \in [Machine -> SUBSET Write]
  /\ failed \subseteq Name
  /\ promised \in [File -> SUBSET Write]

\* What the next start of a VM finds is exactly what its guests have written,
\* in all their runs, except for what they wrote after a snapshot or a backup
\* was taken in their run: that is gone.
RollbackExact ==
  \A n \in Name : Opens(n) # NoLayer =>
    layer[Opens(n)].data = told[n] \ lost[n]

\* A backup that has come to its end contains all that the guest had in its
\* disk when the backup began, on whatever layers, and keeps it whatever then
\* becomes of the VM.
BackupComplete ==
  \A f \in File :
    dir[Users(f)] # NoLayer /\ layer[dir[Users(f)]].whole
      => promised[f] \subseteq layer[dir[Users(f)]].data

\* A VM that is registered has a disk, and all of it, unless it is being
\* created, or its creation failed or was killed: nobody was told.
DiskExplained ==
  \A n \in conf \ failed :
    \/ \E c \in Client : at[c] \in {"image", "making"} /\ task[c].vm = n
    \/ dir[Own(n)] # NoLayer /\ layer[dir[Own(n)]].whole
=============================================================================
