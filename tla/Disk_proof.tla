----------------------------- MODULE Disk_proof -----------------------------
(***************************************************************************)
(* Proofs about Disk: for any number of processes, VMs, files and image    *)
(* layers, the next start of a VM finds what was written to its disk, but  *)
(* for what was written after a snapshot, and a backup that ended has all  *)
(* that the guest had when it began.                                       *)
(***************************************************************************)
EXTENDS Disk, TLAPS, SequenceTheorems

\* No two files are one layer.
Injective ==
  \A p, q \in Path : dir[p] = dir[q] => p = q \/ dir[p] = NoLayer

\* No two QEMU processes have a layer open, and none has one open twice.
NoLayerTwice ==
  \A m, k \in Machine : \A i \in DOMAIN chain[m], j \in DOMAIN chain[k] :
    chain[m][i] = chain[k][j] => m = k /\ i = j

\* A disk is at the bottom of a chain: what is above are overlays.
Bottom ==
  \A m \in Machine : \A n \in Name : \A i \in DOMAIN chain[m] :
    chain[m][i] = dir[Own(n)] => i = 1

\* What a backup writes to is its file still, and in no chain; what it copies is
\* what was promised.
JobAt ==
  \A m \in Machine : job[m] # NoJob =>
    /\ dir[Users(job[m].file)] = job[m].target
    /\ promised[job[m].file] \subseteq job[m].copy
    /\ \A k \in Machine : \A i \in DOMAIN chain[k] : chain[k][i] # job[m].target

\* What qemu-img writes to is the disk of its VM, unless it was deleted since, and
\* in no chain.
MakingAt ==
  \A c \in Client : at[c] = "making" =>
    /\ making[c] \in Layer
    /\ \A p \in Path : dir[p] = making[c] => p = Own(task[c].vm)
    /\ \A k \in Machine : \A i \in DOMAIN chain[k] : chain[k][i] # making[c]
    /\ dir[Own(task[c].vm)] = making[c] => lost[task[c].vm] = {}

\* Every process is at a place of its task; an image that is being converted is there.
TaskAt ==
  \A c \in Client :
    /\ at[c] \in {"image", "making"} => task[c].kind # "backup"
    /\ at[c] = "making" /\ task[c].kind = "import" => dir[Users(task[c].file)] # NoLayer
    /\ at[c] = "backup" => task[c].kind = "backup"

\* Nothing is anywhere that has not been written yet.
Counted ==
  /\ \A n \in Name : told[n] \subseteq 0..writes /\ lost[n] \subseteq 0..writes
  /\ \A l \in Layer : layer[l].data \subseteq 0..writes
  /\ \A m \in Machine : job[m] # NoJob => job[m].copy \subseteq 0..writes

MineSeen == \A m \in Machine : mine[m] \subseteq View(m)

\* A VM that is being created has no disk yet, or the one that is being made.
Explained ==
  \A n \in conf \ failed :
    \/ \E c \in Client : at[c] = "image" /\ task[c].vm = n
    \/ \E c \in Client : at[c] = "making" /\ task[c].vm = n /\ dir[Own(n)] = making[c]
    \/ dir[Own(n)] # NoLayer /\ layer[dir[Own(n)]].whole

IInv ==
  /\ TypeOK
  /\ Injective /\ NoLayerTwice /\ Bottom
  /\ JobAt /\ MakingAt /\ TaskAt
  /\ Counted /\ MineSeen /\ RollbackExact /\ BackupComplete /\ Explained

-----------------------------------------------------------------------------
(* Names of files, and layers to write to.                                 *)

LEMMA Paths ==
  /\ \A n \in Name : Own(n) \in Path /\ Temp(n) \in Path
  /\ \A f \in File : Users(f) \in Path
  /\ \A n, k \in Name : Own(n) = Own(k) => n = k
  /\ \A f, g \in File : Users(f) = Users(g) => f = g
  /\ \A n, k \in Name : Own(n) # Temp(k)
  /\ \A n \in Name, f \in File : Own(n) # Users(f) /\ Temp(n) # Users(f)
BY DEF Path, Own, Temp, Users

LEMMA Tasks ==
  ASSUME NEW t \in Task
  PROVE  /\ t.vm \in Name
         /\ t.kind \in {"iso", "import", "backup"}
         /\ t.kind = "iso" => t.sized \in BOOLEAN
         /\ t.kind # "iso" => t.file \in File
         /\ t # NoTask
BY DiskAssumption DEF Task

LEMMA TargetFacts ==
  ASSUME dir \in [Path -> Layer \cup {NoLayer}], Injective, NEW p \in Path, Possible(p)
  PROVE  /\ Target(p) \in Layer /\ Target(p) # NoLayer
         /\ Target(p) \notin InUse
         /\ \A q \in Path : dir[q] = Target(p) => q = p
<1>1. CASE dir[p] = NoLayer
  <2>1. Target(p) \in Unused
    BY <1>1 DEF Possible, Target
  <2> QED BY <2>1, DiskAssumption DEF Unused
<1>2. CASE dir[p] # NoLayer
  <2>1. Target(p) = dir[p] /\ Target(p) \in Layer /\ Target(p) \notin InUse
    BY <1>2 DEF Possible, Target, Unlocked
  <2> QED BY <1>2, <2>1 DEF Injective
<1> QED BY <1>1, <1>2

\* What nobody uses is in no chain, and nothing writes to it or copies it.
LEMMA NotInUse ==
  ASSUME NEW l, l \notin InUse
  PROVE  /\ \A m \in Machine : \A i \in DOMAIN chain[m] : chain[m][i] # l
         /\ \A m \in Machine : job[m] # NoJob => job[m].target # l
         /\ \A c \in Client : at[c] = "making" => making[c] # l
<1>1. ASSUME NEW m \in Machine, NEW i \in DOMAIN chain[m]
      PROVE  chain[m][i] # l
  <2>1. chain[m][i] \in Members(chain[m]) /\ l \notin UNION {Members(chain[k]) : k \in Machine}
    BY DEF InUse, Members
  <2> QED BY <2>1
<1>2. ASSUME NEW m \in Machine, job[m] # NoJob
      PROVE  job[m].target # l
  <2>1. m \in {k \in Machine : job[k] # NoJob}
    BY <1>2
  <2>2. job[m].target \in {job[j].target : j \in {k \in Machine : job[k] # NoJob}}
    BY <2>1
  <2> QED BY <2>2 DEF InUse
<1>3. ASSUME NEW c \in Client, at[c] = "making"
      PROVE  making[c] # l
  <2>1. c \in {d \in Client : at[d] = "making"}
    BY <1>3
  <2>2. making[c] \in {making[e] : e \in {d \in Client : at[d] = "making"}}
    BY <2>1
  <2> QED BY <2>2 DEF InUse
<1> QED BY <1>1, <1>2, <1>3

-----------------------------------------------------------------------------
(* Types.                                                                  *)

Layers == [data : SUBSET Write, whole : BOOLEAN, plain : BOOLEAN]
Jobs == [target : Layer, file : File, copy : SUBSET Write]
Places == {"idle", "image", "making", "install", "backup", "poll"}

DiskType == conf \subseteq Name /\ dir \in [Path -> Layer \cup {NoLayer}] /\ layer \in [Layer -> Layers]
QemuType ==
  /\ chain \in [Machine -> Seq(Layer)]
  /\ job \in [Machine -> Jobs \cup {NoJob}]
  /\ sock \in [Name -> Machine \cup {NoMachine}]
  /\ \A n \in Name : sock[n] # NoMachine => chain[sock[n]] # <<>>
ClientType ==
  /\ at \in [Client -> Places]
  /\ task \in [Client -> Task \cup {NoTask}]
  /\ \A c \in Client : at[c] = "idle" <=> task[c] = NoTask
  /\ making \in [Client -> Layer \cup {NoLayer}]
CountType == runs \in 0..MaxRuns /\ writes \in 0..MaxWrites /\ tasks \in 0..MaxTasks
HistoryType ==
  /\ told \in [Name -> SUBSET Write] /\ lost \in [Name -> SUBSET Write]
  /\ mine \in [Machine -> SUBSET Write]
  /\ failed \subseteq Name
  /\ promised \in [File -> SUBSET Write]

LEMMA TypeParts == TypeOK <=> DiskType /\ QemuType /\ ClientType /\ CountType /\ HistoryType
BY DEF TypeOK, DiskType, QemuType, ClientType, CountType, HistoryType, Layers, Jobs, Places

LEMMA TypePartsNext ==
  TypeOK' <=> DiskType' /\ QemuType' /\ ClientType' /\ CountType' /\ HistoryType'
BY TypeParts, PTL

LEMMA WorkType ==
  ASSUME ClientType, NEW c \in Client, at[c] # "idle"
  PROVE  task[c] \in Task
BY DEF ClientType

LEMMA BlankType ==
  ASSUME NEW plain \in BOOLEAN
  PROVE  Blank(plain) \in Layers /\ Blank(plain).data = {} /\ [Blank(plain) EXCEPT !.whole = TRUE] \in Layers
BY DEF Blank, Layers

LEMMA Asked == ASSUME CountType, Ask PROVE tasks' \in 0..MaxTasks
BY DiskAssumption DEF Ask, CountType

LEMMA ViewType ==
  ASSUME DiskType, QemuType, NEW m \in Machine
  PROVE  View(m) \subseteq Write /\ \A i \in DOMAIN chain[m] : layer[chain[m][i]].data \subseteq View(m)
<1>1. \A l \in Members(chain[m]) : l \in Layer
  BY DEF Members, QemuType
<1>2. \A l \in Layer : layer[l].data \subseteq Write
  BY DEF DiskType, Layers
<1>3. \A i \in DOMAIN chain[m] : chain[m][i] \in Members(chain[m])
  BY DEF Members
<1> QED BY <1>1, <1>2, <1>3 DEF View

LEMMA IdleType ==
  ASSUME ClientType, NEW c \in Client, ToIdle(c)
  PROVE  ClientType'
BY DiskAssumption, Tasks DEF ClientType, ToIdle, GoTo, Places

LEMMA MoveType ==
  ASSUME ClientType, NEW c \in Client, at[c] # "idle", NEW p \in Places \ {"idle"}, GoTo(c, p),
         UNCHANGED task, making' \in [Client -> Layer \cup {NoLayer}]
  PROVE  ClientType'
BY DEF ClientType, GoTo, Places

LEMMA AfterImageType ==
  ASSUME ClientType, NEW c \in Client, at[c] # "idle", AfterImage(c)
  PROVE  ClientType'
<1>1. CASE task[c].kind = "iso"
  <2>1. making' \in [Client -> Layer \cup {NoLayer}]
    BY <1>1 DEF AfterImage, ClientType
  <2> QED BY <1>1, <2>1, MoveType DEF AfterImage, Places
<1>2. CASE task[c].kind # "iso"
  BY <1>2, IdleType DEF AfterImage
<1> QED BY <1>1, <1>2

LEMMA RunsType ==
  ASSUME DiskType, QemuType, CountType, NEW n \in Name, NEW m \in Machine, Runs(n, m)
  PROVE  /\ chain' \in [Machine -> Seq(Layer)]
         /\ \A k \in Machine : chain[k] # <<>> => chain'[k] # <<>>
         /\ chain'[m] # <<>>
         /\ runs' \in 0..MaxRuns
<1>1. Opens(n) \in Layer
  BY Paths DEF Runs, Opens, DiskType
<1>2. <<Opens(n)>> \in Seq(Layer) /\ <<Opens(n)>> # <<>>
  BY <1>1
<1>3. chain' = [chain EXCEPT ![m] = <<Opens(n)>>]
  BY DEF Runs
<1>4. runs' \in 0..MaxRuns
  BY DiskAssumption DEF Runs, CountType
<1> QED BY <1>2, <1>3, <1>4 DEF QemuType

LEMMA OverlayType ==
  ASSUME DiskType, QemuType, Injective, NEW n \in Name, NEW p \in Path, Overlay(n, p)
  PROVE  /\ sock[n] \in Machine /\ job[sock[n]] = NoJob
         /\ dir' \in [Path -> Layer \cup {NoLayer}] /\ layer' \in [Layer -> Layers]
         /\ chain' \in [Machine -> Seq(Layer)]
         /\ \A k \in Machine : chain[k] # <<>> => chain'[k] # <<>>
<1>1. Target(p) \in Layer
  BY TargetFacts DEF Overlay, DiskType
<1>2. sock[n] \in Machine /\ job[sock[n]] = NoJob
  BY DEF Overlay, QemuType
<1>3. dir' \in [Path -> Layer \cup {NoLayer}]
  BY <1>1 DEF Overlay, DiskType
<1>4. layer' \in [Layer -> Layers]
  BY <1>1, BlankType DEF Overlay, DiskType
<1>5. chain' = [chain EXCEPT ![sock[n]] = Append(@, Target(p))]
  BY DEF Overlay
<1>6. chain[sock[n]] \in Seq(Layer)
  BY <1>2 DEF QemuType
<1>7. Append(chain[sock[n]], Target(p)) \in Seq(Layer) /\ Append(chain[sock[n]], Target(p)) # <<>>
  BY <1>1, <1>6
<1>8. chain' \in [Machine -> Seq(Layer)]
  BY <1>5, <1>7 DEF QemuType
<1>9. \A k \in Machine : chain[k] # <<>> => chain'[k] # <<>>
  BY <1>2, <1>5, <1>7 DEF QemuType
<1> QED BY <1>2, <1>3, <1>4, <1>8, <1>9

LEMMA ClientTypes ==
  ASSUME TypeOK, TaskAt, Injective, NEW c \in Client, ClientNext(c)
  PROVE  TypeOK'
<1> USE TypeParts, TypePartsNext
<1>1. ASSUME NEW t \in Task, BeginCreate(c, t)
      PROVE  TypeOK'
  <2>1. UNCHANGED <<dir, layer, procVars, making, runs, writes, diskHistory, promised>>
    BY <1>1 DEF BeginCreate
  <2>2. DiskType' /\ QemuType' /\ HistoryType'
    BY <1>1, <2>1, Tasks DEF BeginCreate, DiskType, QemuType, HistoryType, procVars, diskHistory
  <2>3. CountType'
    BY <1>1, <2>1, Asked DEF BeginCreate, CountType
  <2>4. ClientType'
    BY <1>1, <2>1, Tasks DEF BeginCreate, ClientType, GoTo, Places
  <2> QED BY <2>2, <2>3, <2>4
<1>2. ASSUME NEW t \in Task, BeginBackup(c, t)
      PROVE  TypeOK'
  <2>1. UNCHANGED <<conf, job, sock, mine, making, runs, writes, diskHistory, promised>>
    BY <1>2 DEF BeginBackup
  <2>2. \/ Overlay(t.vm, Temp(t.vm))
        \/ UNCHANGED <<dir, layer, chain>>
    BY <1>2 DEF BeginBackup
  <2>3. DiskType' /\ QemuType'
    BY <2>1, <2>2, OverlayType, Tasks, Paths DEF DiskType, QemuType
  <2>4. HistoryType'
    BY <2>1 DEF HistoryType, diskHistory
  <2>5. CountType'
    BY <1>2, <2>1, Asked DEF BeginBackup, CountType
  <2>6. ClientType'
    BY <1>2, <2>1, Tasks DEF BeginBackup, ClientType, GoTo, Places
  <2> QED BY <2>3, <2>4, <2>5, <2>6
<1>3. CASE MakeImage(c)
  <2>1. task[c] \in Task /\ task[c].vm \in Name /\ Own(task[c].vm) \in Path
    BY <1>3, WorkType, Tasks, Paths DEF MakeImage
  <2>2. Target(Own(task[c].vm)) \in Layer
    BY <1>3, <2>1, TargetFacts DEF MakeImage, DiskType
  <2>3. UNCHANGED <<conf, procVars, task, runs, writes, tasks, failed, promised>>
    BY <1>3 DEF MakeImage
  <2>4. dir' \in [Path -> Layer \cup {NoLayer}]
    BY <1>3, <2>2 DEF MakeImage, DiskType
  <2>5. layer' \in [Layer -> Layers]
    BY <1>3, <2>2, BlankType DEF MakeImage, DiskType
  <2>6. QemuType' /\ CountType' /\ DiskType'
    BY <2>3, <2>4, <2>5 DEF QemuType, CountType, DiskType, procVars
  <2>7. HistoryType'
    BY <1>3, <2>3 DEF MakeImage, HistoryType, procVars
  <2>8. ClientType'
    BY <1>3, <2>2, <2>3 DEF MakeImage, ClientType, GoTo, Places
  <2> QED BY <2>6, <2>7, <2>8
<1>4. CASE NoImage(c)
  <2>1. task[c] \in Task /\ task[c].vm \in Name /\ at[c] # "idle"
    BY <1>4, WorkType, Tasks DEF NoImage
  <2>2. UNCHANGED <<conf, dir, layer, procVars, runs, writes, tasks, told, lost, promised>>
    BY <1>4 DEF NoImage
  <2>3. DiskType' /\ QemuType' /\ CountType'
    BY <2>2 DEF DiskType, QemuType, CountType, procVars
  <2>4. HistoryType'
    BY <1>4, <2>1, <2>2 DEF NoImage, HistoryType, procVars
  <2>5. ClientType'
    BY <1>4, <2>1, AfterImageType DEF NoImage
  <2> QED BY <2>3, <2>4, <2>5
<1>5. CASE ImageMade(c)
  <2>1. task[c] \in Task /\ task[c].vm \in Name /\ at[c] # "idle"
    BY <1>5, WorkType, Tasks DEF ImageMade
  <2>2. Imported(c) \subseteq Write
    <3>1. CASE task[c].kind = "iso"
      BY <3>1 DEF Imported
    <3>2. CASE task[c].kind # "iso"
      <4>1. task[c].kind = "import" /\ task[c].file \in File
        BY <1>5, <2>1, <3>2, Tasks DEF ImageMade, TaskAt
      <4>2. dir[Users(task[c].file)] \in Layer
        BY <1>5, <4>1, Paths DEF ImageMade, TaskAt, DiskType
      <4> QED BY <3>2, <4>2 DEF Imported, DiskType, Layers
    <3> QED BY <3>1, <3>2
  <2>9. PICK whole \in BOOLEAN :
          /\ layer' = [layer EXCEPT ![making[c]].data = IF whole THEN Imported(c) ELSE {},
                                   ![making[c]].whole = whole]
          /\ IF dir[Own(task[c].vm)] = making[c]
             THEN /\ told' = [told EXCEPT ![task[c].vm] = IF whole THEN Imported(c) ELSE {}]
                  /\ failed' = IF whole THEN failed \ {task[c].vm} ELSE failed \cup {task[c].vm}
             ELSE UNCHANGED <<told, failed>>
    BY <1>5 DEF ImageMade
  <2> DEFINE data == IF whole THEN Imported(c) ELSE {}
  <2>3. /\ data \in SUBSET Write
        /\ layer' = [layer EXCEPT ![making[c]].data = data, ![making[c]].whole = whole]
        /\ IF dir[Own(task[c].vm)] = making[c]
           THEN /\ told' = [told EXCEPT ![task[c].vm] = data]
                /\ failed' = IF whole THEN failed \ {task[c].vm} ELSE failed \cup {task[c].vm}
           ELSE UNCHANGED <<told, failed>>
    BY <2>2, <2>9
  <2> HIDE DEF data
  <2>4. layer' \in [Layer -> Layers]
    BY <2>3 DEF DiskType, Layers
  <2>5. told' \in [Name -> SUBSET Write] /\ failed' \subseteq Name
    BY <2>1, <2>3 DEF HistoryType
  <2>6. UNCHANGED <<conf, dir, procVars, runs, writes, tasks, lost, promised>>
    BY <1>5 DEF ImageMade
  <2>7. DiskType' /\ QemuType' /\ CountType' /\ HistoryType'
    BY <2>4, <2>5, <2>6 DEF DiskType, QemuType, CountType, HistoryType, procVars
  <2>8. ClientType'
    BY <1>5, <2>1, AfterImageType DEF ImageMade
  <2> QED BY <2>7, <2>8
<1>6. CASE Install(c)
  <2>1. task[c].vm \in Name
    BY <1>6, WorkType, Tasks DEF Install
  <2>2. UNCHANGED <<conf, dir, layer, job, sock, writes, tasks, diskHistory, promised>>
    BY <1>6 DEF Install
  <2>3. ClientType'
    BY <1>6, IdleType DEF Install
  <2>4. CASE UNCHANGED <<runs, chain, mine>>
    <3>1. DiskType' /\ QemuType' /\ CountType' /\ HistoryType'
      BY <2>2, <2>4 DEF DiskType, QemuType, CountType, HistoryType, diskHistory
    <3> QED BY <2>3, <3>1
  <2>5. ASSUME NEW m \in Machine, Runs(task[c].vm, m)
        PROVE  TypeOK'
    <3>1. QemuType' /\ runs' \in 0..MaxRuns
      BY <2>1, <2>2, <2>5, RunsType DEF QemuType
    <3>2. DiskType' /\ CountType'
      BY <2>2, <3>1 DEF DiskType, CountType
    <3>3. HistoryType'
      BY <2>2, <2>5 DEF HistoryType, diskHistory, Runs
    <3> QED BY <2>3, <3>1, <3>2, <3>3
  <2> QED BY <1>6, <2>4, <2>5 DEF Install
<1>7. CASE DriveBackup(c)
  <2>1. task[c].vm \in Name /\ task[c].file \in File /\ Users(task[c].file) \in Path
    BY <1>7, WorkType, Tasks, Paths DEF DriveBackup, TaskAt
  <2>2. UNCHANGED <<conf, chain, sock, mine, task, making, runs, writes, tasks, diskHistory>>
    BY <1>7 DEF DriveBackup
  <2>3. ClientType'
    BY <1>7, <2>2, MoveType DEF DriveBackup, ClientType, Places
  <2>4. CountType'
    BY <2>2 DEF CountType
  <2>5. CASE UNCHANGED <<dir, layer, job, promised>>
    <3>1. DiskType' /\ QemuType' /\ HistoryType'
      BY <2>2, <2>5 DEF DiskType, QemuType, HistoryType, diskHistory
    <3> QED BY <2>3, <2>4, <3>1
  <2>6. CASE ~UNCHANGED <<dir, layer, job, promised>>
    <3> DEFINE l == Target(Users(task[c].file))
               m == sock[task[c].vm]
    <3>1. /\ m # NoMachine /\ Possible(Users(task[c].file))
          /\ dir' = [dir EXCEPT ![Users(task[c].file)] = l]
          /\ layer' = [layer EXCEPT ![l] = Blank(TRUE)]
          /\ job' = [job EXCEPT ![m] = [target |-> l, file |-> task[c].file, copy |-> Synced(m)]]
          /\ promised' = [promised EXCEPT ![task[c].file] =
               IF Serves(m, task[c].vm) THEN Seen(task[c].vm, m) ELSE {}]
      BY <1>7, <2>6 DEF DriveBackup
    <3>2. m \in Machine /\ l \in Layer
      BY <2>1, <3>1, TargetFacts DEF QemuType, DiskType
    <3>3. Synced(m) \subseteq Write
      BY <3>2, ViewType DEF Synced
    <3>4. Seen(task[c].vm, m) \subseteq Write
      BY <2>1, <3>2 DEF Seen, HistoryType
    <3> HIDE DEF l, m
    <3>5. DiskType'
      BY <2>1, <2>2, <3>1, <3>2, BlankType DEF DiskType
    <3>6. [target |-> l, file |-> task[c].file, copy |-> Synced(m)] \in Jobs
      BY <2>1, <3>2, <3>3 DEF Jobs
    <3>7. QemuType'
      BY <2>2, <3>1, <3>6 DEF QemuType
    <3>8. HistoryType'
      BY <2>1, <2>2, <3>1, <3>4 DEF HistoryType, diskHistory
    <3> QED BY <2>3, <2>4, <3>5, <3>7, <3>8
  <2> QED BY <2>5, <2>6
<1>8. CASE Killed(c)
  <2>1. task[c].vm \in Name
    BY <1>8, WorkType, Tasks DEF Killed
  <2>2. UNCHANGED <<conf, dir, layer, procVars, runs, writes, tasks, told, lost, promised>>
    BY <1>8 DEF Killed
  <2>3. ClientType'
    BY <1>8, IdleType DEF Killed
  <2>4. failed' \subseteq Name
    BY <1>8, <2>1 DEF Killed, HistoryType
  <2>5. DiskType' /\ QemuType' /\ CountType' /\ HistoryType'
    BY <2>2, <2>4 DEF DiskType, QemuType, CountType, HistoryType, procVars
  <2> QED BY <2>3, <2>5
<1> QED BY <1>1, <1>2, <1>3, <1>4, <1>5, <1>6, <1>7, <1>8 DEF ClientNext
LEMMA VmTypes ==
  ASSUME TypeOK, Injective, NEW n \in Name, VmNext(n)
  PROVE  TypeOK'
<1> USE TypeParts, TypePartsNext
<1>1. CASE Delete(n)
  <2>1. UNCHANGED <<layer, chain, job, mine, clientVars, runs, writes, tasks, promised>>
    BY <1>1 DEF Delete
  <2>2. DiskType'
    BY <1>1, <2>1, Paths DEF Delete, Unregister, DiskType
  <2>3. QemuType'
    BY <1>1, <2>1 DEF Delete, QemuType
  <2>4. ClientType' /\ CountType'
    BY <2>1 DEF ClientType, CountType, clientVars
  <2>5. HistoryType'
    BY <1>1, <2>1 DEF Delete, HistoryType
  <2> QED BY <2>2, <2>3, <2>4, <2>5
<1>2. ASSUME NEW m \in Machine, Start(n, m)
      PROVE  TypeOK'
  <2>1. UNCHANGED <<conf, dir, layer, job, clientVars, writes, tasks, diskHistory, promised>>
    BY <1>2 DEF Start
  <2>2. sock' = [sock EXCEPT ![n] = m] /\ Runs(n, m)
    BY <1>2 DEF Start
  <2>3. QemuType' /\ runs' \in 0..MaxRuns
    BY <2>1, <2>2, RunsType DEF QemuType
  <2>4. DiskType' /\ ClientType' /\ CountType'
    BY <2>1, <2>3 DEF DiskType, ClientType, CountType, clientVars
  <2>5. HistoryType'
    BY <2>1, <2>2 DEF HistoryType, diskHistory, Runs
  <2> QED BY <2>3, <2>4, <2>5
<1>3. ASSUME NEW f \in File, TakeSnapshot(n, f)
      PROVE  TypeOK'
  <2>1. UNCHANGED <<conf, job, sock, mine, clientVars, runs, writes, diskHistory>>
    BY <1>3 DEF TakeSnapshot
  <2>2. Overlay(n, Users(f)) /\ Users(f) \in Path
    BY <1>3, Paths DEF TakeSnapshot
  <2>3. DiskType' /\ QemuType'
    BY <2>1, <2>2, OverlayType DEF DiskType, QemuType
  <2>4. HistoryType'
    BY <1>3, <2>1 DEF HistoryType, diskHistory, TakeSnapshot
  <2>5. ClientType' /\ CountType'
    BY <1>3, <2>1, Asked DEF TakeSnapshot, ClientType, CountType, clientVars
  <2> QED BY <2>3, <2>4, <2>5
<1> QED BY <1>1, <1>2, <1>3 DEF VmNext

LEMMA LastType ==
  ASSUME QemuType, NEW m \in Machine, chain[m] # <<>>
  PROVE  /\ Last(chain[m]) \in Layer
         /\ Len(chain[m]) \in DOMAIN chain[m] /\ 1 \in DOMAIN chain[m]
         /\ Len(chain[m]) \in Nat /\ DOMAIN chain[m] = 1..Len(chain[m])
         /\ Last(chain[m]) = chain[m][Len(chain[m])]
BY DEF QemuType, Last

LEMMA MachineTypes ==
  ASSUME TypeOK, NEW m \in Machine, MachineNext(m)
  PROVE  TypeOK'
<1> USE TypeParts, TypePartsNext
<1>1. CASE GuestWrites(m)
  <2>1. UNCHANGED <<conf, dir, chain, job, sock, clientVars, runs, tasks, failed, promised>>
    BY <1>1 DEF GuestWrites
  <2>2. writes' \in Write /\ CountType'
    BY <1>1, <2>1, DiskAssumption DEF GuestWrites, CountType, Write
  <2>3. layer' \in [Layer -> Layers]
    BY <1>1, <2>2, LastType DEF GuestWrites, DiskType, Layers
  <2>4. HistoryType'
    BY <1>1, <2>1, <2>2 DEF GuestWrites, HistoryType
  <2>5. DiskType' /\ QemuType' /\ ClientType'
    BY <2>1, <2>3 DEF DiskType, QemuType, ClientType, clientVars
  <2> QED BY <2>2, <2>4, <2>5
<1>2. CASE JobEnds(m)
  <2>1. UNCHANGED <<conf, dir, chain, sock, mine, clientVars, runs, writes, tasks, diskHistory, promised>>
    BY <1>2 DEF JobEnds
  <2>2. job[m] \in Jobs
    BY <1>2 DEF JobEnds, QemuType
  <2>3. layer' \in [Layer -> Layers]
    BY <1>2, <2>2 DEF JobEnds, DiskType, Layers, Jobs
  <2>4. QemuType'
    BY <1>2, <2>1 DEF JobEnds, QemuType
  <2>5. DiskType' /\ ClientType' /\ CountType' /\ HistoryType'
    BY <2>1, <2>3 DEF DiskType, ClientType, CountType, HistoryType, clientVars, diskHistory
  <2> QED BY <2>4, <2>5
<1>3. CASE Ends(m)
  <2>1. UNCHANGED <<conf, dir, layer, clientVars, runs, writes, tasks, diskHistory, promised>>
    BY <1>3 DEF Ends
  <2>2. QemuType'
    BY <1>3 DEF Ends, QemuType
  <2>3. HistoryType'
    BY <1>3, <2>1 DEF Ends, HistoryType, diskHistory
  <2>4. DiskType' /\ ClientType' /\ CountType'
    BY <2>1 DEF DiskType, ClientType, CountType, clientVars
  <2> QED BY <2>2, <2>3, <2>4
<1> QED BY <1>1, <1>2, <1>3 DEF MachineNext

-----------------------------------------------------------------------------
(* Steps that write to a file, and steps that do not.                      *)

\* What becomes of a file that is created or truncated.
LEMMA FreshFile ==
  ASSUME TypeOK, Injective, JobAt, NEW p \in Path, Possible(p), NEW l, l = Target(p),
         dir' = [dir EXCEPT ![p] = l]
  PROVE  /\ l \in Layer /\ l # NoLayer /\ dir'[p] = l
         /\ \A q \in Path : q # p => dir'[q] = dir[q] /\ dir'[q] # l
         /\ \A m \in Machine : \A i \in DOMAIN chain[m] : chain[m][i] # l
         /\ \A m \in Machine : job[m] # NoJob => job[m].target # l /\ Users(job[m].file) # p
         /\ \A c \in Client : at[c] = "making" => making[c] # l
         /\ Injective'
<1>1. DiskType
  BY TypeParts
<1>2. l \in Layer /\ l # NoLayer /\ l \notin InUse /\ \A q \in Path : dir[q] = l => q = p
  BY <1>1, TargetFacts DEF DiskType
<1>3. dir'[p] = l /\ \A q \in Path : q # p => dir'[q] = dir[q] /\ dir'[q] # l
  BY <1>1, <1>2 DEF DiskType
<1>4. /\ \A m \in Machine : \A i \in DOMAIN chain[m] : chain[m][i] # l
      /\ \A m \in Machine : job[m] # NoJob => job[m].target # l
      /\ \A c \in Client : at[c] = "making" => making[c] # l
  BY <1>2, NotInUse
<1>5. ASSUME NEW m \in Machine, job[m] # NoJob
      PROVE  Users(job[m].file) # p
  <2>1. dir[p] \notin InUse
    BY DEF Possible, Unlocked
  <2>2. job[m].target # dir[p]
    BY <1>5, <2>1, NotInUse
  <2> QED BY <1>5, <2>2 DEF JobAt
<1>6. Injective'
  BY <1>3 DEF Injective
<1> QED BY <1>2, <1>3, <1>4, <1>5, <1>6

\* A view of layers that have kept what they hold.
LEMMA ViewKeeps ==
  ASSUME NEW m \in Machine, chain'[m] = chain[m],
         \A i \in DOMAIN chain[m] : layer'[chain[m][i]].data = layer[chain[m][i]].data
  PROVE  View(m)' = View(m)
<1>1. \A l \in Members(chain[m]) : layer'[l].data = layer[l].data
  BY DEF Members
<1>2. Members(chain'[m]) = Members(chain[m])
  OBVIOUS
<1>3. {layer'[l].data : l \in Members(chain'[m])} = {layer[l].data : l \in Members(chain[m])}
  BY <1>1, <1>2
<1> QED BY <1>3 DEF View

\* A view to which something is added.
LEMMA ViewGrows ==
  ASSUME NEW m \in Machine,
         \A i \in DOMAIN chain[m] : /\ i \in DOMAIN chain'[m]
                                   /\ chain'[m][i] = chain[m][i]
                                   /\ layer[chain[m][i]].data \subseteq layer'[chain[m][i]].data
  PROVE  View(m) \subseteq View(m)'
<1>1. SUFFICES ASSUME NEW x \in View(m)
               PROVE  x \in View(m)'
  OBVIOUS
<1>2. PICK i \in DOMAIN chain[m] : x \in layer[chain[m][i]].data
  BY <1>1 DEF View, Members
<1>3. chain'[m][i] \in Members(chain'[m]) /\ x \in layer'[chain'[m][i]].data
  BY <1>2 DEF Members
<1> QED BY <1>3 DEF View

\* The invariant without types, for steps that leave what it speaks of alone.
LEMMA SameFiles ==
  ASSUME Injective, JobAt, Counted, RollbackExact, BackupComplete,
         UNCHANGED <<dir, layer, chain, job, writes, told, lost, promised>>
  PROVE  Injective' /\ JobAt' /\ Counted' /\ RollbackExact' /\ BackupComplete'
BY DEF Injective, JobAt, Counted, RollbackExact, BackupComplete, Opens

LEMMA SameChains ==
  ASSUME NoLayerTwice, Bottom, MineSeen, UNCHANGED <<dir, layer, chain, mine>>
  PROVE  NoLayerTwice' /\ Bottom' /\ MineSeen'
BY DEF NoLayerTwice, Bottom, MineSeen, View

-----------------------------------------------------------------------------
(* The steps of a qemu_mgr process.                                        *)

Files == Injective /\ JobAt /\ Counted /\ RollbackExact /\ BackupComplete
Chains == NoLayerTwice /\ Bottom /\ MineSeen

LEMMA Parts == IInv <=> TypeOK /\ Files /\ Chains /\ MakingAt /\ TaskAt /\ Explained
BY DEF IInv, Files, Chains

LEMMA PartsNext ==
  IInv' <=> TypeOK' /\ Files' /\ Chains' /\ MakingAt' /\ TaskAt' /\ Explained'
BY Parts, PTL

\* Those who are about a VM.
LEMMA AtWork ==
  ASSUME TypeOK
  PROVE  \A c \in Client : at[c] # "idle" =>
           /\ task[c] \in Task /\ task[c].vm \in Name /\ Own(task[c].vm) \in Path
           /\ task[c].kind # "iso" => task[c].file \in File /\ Users(task[c].file) \in Path
<1>1. ClientType
  BY TypeParts
<1> QED BY <1>1, WorkType, Tasks, Paths

\* A VM keeps its reason if the others and its disk are as before.
LEMMA ReasonKeeps ==
  ASSUME TypeOK, Explained, NEW c \in Client, NEW n \in conf \ failed,
         ~(at[c] \in {"image", "making"} /\ task[c].vm = n),
         \A d \in Client : d # c => at'[d] = at[d] /\ task'[d] = task[d] /\ making'[d] = making[d],
         dir'[Own(n)] = dir[Own(n)],
         dir[Own(n)] # NoLayer => layer'[dir[Own(n)]].whole = layer[dir[Own(n)]].whole
  PROVE  \/ \E d \in Client : at'[d] = "image" /\ task'[d].vm = n
         \/ \E d \in Client : at'[d] = "making" /\ task'[d].vm = n /\ dir'[Own(n)] = making'[d]
         \/ dir'[Own(n)] # NoLayer /\ layer'[dir'[Own(n)]].whole
BY DEF Explained

LEMMA Moves ==
  ASSUME ClientType, NEW c \in Client, NEW place, GoTo(c, place)
  PROVE  at'[c] = place /\ \A d \in Client : d # c => at'[d] = at[d]
BY DEF GoTo, ClientType

LEMMA Idles ==
  ASSUME ClientType, NEW c \in Client, ToIdle(c)
  PROVE  at'[c] = "idle" /\ \A d \in Client : d # c => at'[d] = at[d] /\ task'[d] = task[d] /\ making'[d] = making[d]
BY DEF GoTo, ClientType, ToIdle

LEMMA AfterImageMoves ==
  ASSUME ClientType, NEW c \in Client, AfterImage(c)
  PROVE  /\ at'[c] \in {"idle", "install"}
         /\ \A d \in Client : d # c => at'[d] = at[d] /\ task'[d] = task[d] /\ making'[d] = making[d]
<1>1. CASE task[c].kind = "iso"
  BY <1>1, Moves DEF AfterImage, ClientType
<1>2. CASE task[c].kind # "iso"
  BY <1>2, Idles DEF AfterImage
<1> QED BY <1>1, <1>2

\* A step of c that takes it away from the image, and leaves files and chains alone.
LEMMA AwayKeeps ==
  ASSUME MakingAt, TaskAt, NEW c \in Client, at'[c] \in {"idle", "install", "poll"},
         \A d \in Client : d # c => at'[d] = at[d] /\ task'[d] = task[d] /\ making'[d] = making[d],
         UNCHANGED <<dir, chain, lost>>
  PROVE  MakingAt' /\ TaskAt'
<1>1. \A d \in Client : at'[d] \in {"image", "making", "backup"} => d # c
  OBVIOUS
<1>2. MakingAt'
  BY <1>1 DEF MakingAt
<1>3. TaskAt'
  BY <1>1 DEF TaskAt
<1> QED BY <1>2, <1>3

LEMMA BeginCreateKeeps ==
  ASSUME IInv, NEW c \in Client, NEW t \in Task, BeginCreate(c, t)
  PROVE  IInv'
<1> USE Parts, PartsNext
<1>1. UNCHANGED <<dir, layer, procVars, making, runs, writes, diskHistory, promised>>
  BY DEF BeginCreate
<1>2. TypeOK'
  BY ClientTypes DEF ClientNext, Files
<1>3. Files' /\ Chains'
  BY <1>1, SameFiles, SameChains DEF Files, Chains, procVars, diskHistory
<1>4. ClientType /\ at[c] = "idle" /\ t.kind # "backup"
  BY TypeParts DEF BeginCreate
<1>5. /\ at'[c] = "image" /\ task'[c] = t
      /\ \A d \in Client : d # c => at'[d] = at[d] /\ task'[d] = task[d]
  BY <1>4, Moves DEF BeginCreate, ClientType
<1>6. MakingAt'
  BY <1>1, <1>5 DEF MakingAt, procVars, diskHistory
<1>7. TaskAt'
  BY <1>1, <1>4, <1>5 DEF TaskAt
<1>8. Explained'
  <2> SUFFICES ASSUME NEW n \in conf' \ failed'
               PROVE  \/ \E d \in Client : at'[d] = "image" /\ task'[d].vm = n
                      \/ \E d \in Client : at'[d] = "making" /\ task'[d].vm = n /\ dir'[Own(n)] = making'[d]
                      \/ dir'[Own(n)] # NoLayer /\ layer'[dir'[Own(n)]].whole
    BY DEF Explained
  <2>1. CASE n = t.vm
    BY <1>5, <2>1
  <2>2. CASE n # t.vm
    <3>1. n \in conf \ failed
      BY <1>1, <2>2 DEF BeginCreate, diskHistory
    <3> QED BY <1>1, <1>4, <1>5, <3>1, ReasonKeeps
  <2> QED BY <2>1, <2>2
<1> QED BY <1>2, <1>3, <1>6, <1>7, <1>8

\* What a step leaves as it was that writes a new content to the file p.
LEMMA FreshKeeps ==
  ASSUME TypeOK, Injective, JobAt, NEW p \in Path, Possible(p), NEW l, l = Target(p), NEW new,
         dir' = [dir EXCEPT ![p] = l], layer' = [layer EXCEPT ![l] = new]
  PROVE  /\ layer'[l] = new
         /\ \A k \in Layer : k # l => layer'[k] = layer[k]
         /\ \A q \in Path : q # p /\ dir[q] # NoLayer => layer'[dir[q]] = layer[dir[q]]
         /\ \A m \in Machine : \A i \in DOMAIN chain[m] : layer'[chain[m][i]] = layer[chain[m][i]]
<1>1. DiskType /\ QemuType
  BY TypeParts
<1>2. l \in Layer /\ l \notin InUse /\ \A q \in Path : dir[q] = l => q = p
  BY <1>1, TargetFacts DEF DiskType
<1>3. layer'[l] = new /\ \A k \in Layer : k # l => layer'[k] = layer[k]
  BY <1>1, <1>2 DEF DiskType
<1>4. \A q \in Path : q # p /\ dir[q] # NoLayer => layer'[dir[q]] = layer[dir[q]]
  BY <1>1, <1>2, <1>3 DEF DiskType
<1>5. \A m \in Machine : \A i \in DOMAIN chain[m] : layer'[chain[m][i]] = layer[chain[m][i]]
  BY <1>1, <1>2, <1>3, NotInUse DEF QemuType
<1> QED BY <1>3, <1>4, <1>5

LEMMA MakeImageKeeps ==
  ASSUME IInv, NEW c \in Client, MakeImage(c)
  PROVE  IInv'
<1> USE Parts, PartsNext
<1> DEFINE t == task[c]
           p == Own(t.vm)
           l == Target(p)
<1>1. /\ at[c] = "image"
      /\ Feasible(t)
      /\ Possible(p)
      /\ dir' = [dir EXCEPT ![p] = l]
      /\ layer' = [layer EXCEPT ![l] = Blank(TRUE)]
      /\ making' = [making EXCEPT ![c] = l]
      /\ told' = [told EXCEPT ![t.vm] = {}]
      /\ lost' = [lost EXCEPT ![t.vm] = {}]
      /\ UNCHANGED <<conf, chain, job, sock, mine, task, runs, writes, tasks, failed, promised>>
  BY DEF MakeImage, procVars
<1>2. TypeOK'
  BY ClientTypes DEF ClientNext, Files
<1>3. t \in Task /\ t.vm \in Name /\ p \in Path /\ t.kind # "backup"
  BY <1>1, AtWork DEF TaskAt
<1>4. DiskType /\ ClientType /\ HistoryType /\ QemuType
  BY TypeParts
<1>5. Injective /\ JobAt
  BY DEF Files
<1>6. /\ l \in Layer /\ l # NoLayer /\ dir'[p] = l
      /\ \A q \in Path : q # p => dir'[q] = dir[q] /\ dir'[q] # l
      /\ \A m \in Machine : \A i \in DOMAIN chain[m] : chain[m][i] # l
      /\ \A m \in Machine : job[m] # NoJob => job[m].target # l /\ Users(job[m].file) # p
      /\ \A d \in Client : at[d] = "making" => making[d] # l
      /\ Injective'
  BY <1>1, <1>3, <1>5, FreshFile
<1>7. /\ layer'[l] = Blank(TRUE)
      /\ \A k \in Layer : k # l => layer'[k] = layer[k]
      /\ \A q \in Path : q # p /\ dir[q] # NoLayer => layer'[dir[q]] = layer[dir[q]]
      /\ \A m \in Machine : \A i \in DOMAIN chain[m] : layer'[chain[m][i]] = layer[chain[m][i]]
  BY <1>1, <1>3, <1>5, FreshKeeps
<1>8. /\ at'[c] = "making" /\ making'[c] = l
      /\ \A d \in Client : d # c => at'[d] = at[d] /\ making'[d] = making[d]
  BY <1>1, <1>4, Moves DEF MakeImage, ClientType
<1>9. /\ told'[t.vm] = {} /\ lost'[t.vm] = {}
      /\ \A n \in Name : n # t.vm => told'[n] = told[n] /\ lost'[n] = lost[n]
  BY <1>1, <1>3, <1>4 DEF HistoryType
<1> HIDE DEF t, p, l
<1>10. p = Own(t.vm) /\ t = task[c] /\ task' = task
  BY <1>1 DEF t, p
<1>11. \A n \in Name : n # t.vm => Own(n) # p /\ Own(n) \in Path
  BY <1>3, <1>10, Paths
<1>12. \A f \in File : Users(f) # p /\ Users(f) \in Path
  BY <1>3, <1>10, Paths
<1>13. Blank(TRUE).data = {}
  BY BlankType
<1>14. Files'
  <2>1. JobAt'
    BY <1>1, <1>4, <1>5, <1>6, <1>12 DEF JobAt, QemuType, Jobs
  <2>2. Counted'
    BY <1>1, <1>7, <1>9, <1>13 DEF Counted, Files
  <2>3. RollbackExact'
    <3>1. ASSUME NEW n \in Name, dir'[Own(n)] # NoLayer
          PROVE  layer'[dir'[Own(n)]].data = told'[n] \ lost'[n]
      <4>1. CASE n = t.vm
        BY <1>6, <1>7, <1>9, <1>10, <1>13, <4>1
      <4>2. CASE n # t.vm
        <5>1. dir'[Own(n)] = dir[Own(n)] /\ dir[Own(n)] # NoLayer
          BY <1>6, <1>11, <3>1, <4>2
        <5>2. layer'[dir[Own(n)]] = layer[dir[Own(n)]]
          BY <1>7, <1>11, <4>2, <5>1
        <5> QED BY <1>9, <4>2, <5>1, <5>2 DEF Files, RollbackExact, Opens
      <4> QED BY <4>1, <4>2
    <3> QED BY <3>1 DEF RollbackExact, Opens
  <2>4. BackupComplete'
    <3>1. \A f \in File : dir'[Users(f)] = dir[Users(f)] /\ promised'[f] = promised[f]
      BY <1>1, <1>6, <1>12
    <3>2. \A f \in File : dir[Users(f)] # NoLayer => layer'[dir[Users(f)]] = layer[dir[Users(f)]]
      BY <1>7, <1>12
    <3> QED BY <3>1, <3>2 DEF Files, BackupComplete
  <2> QED BY <1>6, <2>1, <2>2, <2>3, <2>4 DEF Files
<1>15. Chains'
  <2>1. NoLayerTwice'
    BY <1>1 DEF Chains, NoLayerTwice
  <2>2. Bottom'
    BY <1>1, <1>6, <1>10, <1>11 DEF Chains, Bottom
  <2>3. MineSeen'
    BY <1>1, <1>7, ViewKeeps DEF Chains, MineSeen
  <2> QED BY <2>1, <2>2, <2>3 DEF Chains
<1>16. MakingAt'
  <2> SUFFICES ASSUME NEW d \in Client, at'[d] = "making"
               PROVE  /\ making'[d] \in Layer
                      /\ \A q \in Path : dir'[q] = making'[d] => q = Own(task'[d].vm)
                      /\ \A k \in Machine : \A i \in DOMAIN chain'[k] : chain'[k][i] # making'[d]
                      /\ dir'[Own(task'[d].vm)] = making'[d] => lost'[task'[d].vm] = {}
    BY DEF MakingAt
  <2>1. CASE d = c
    BY <1>1, <1>6, <1>8, <1>9, <1>10, <2>1
  <2>2. CASE d # c
    <3>1. at[d] = "making" /\ making'[d] = making[d] /\ making[d] # l
      BY <1>6, <1>8, <2>2
    <3>2. task[d].vm \in Name
      BY <3>1, AtWork
    <3>3. \A q \in Path : dir'[q] = making[d] => q = Own(task[d].vm)
      BY <1>6, <3>1 DEF MakingAt
    <3>4. dir'[Own(task[d].vm)] = making[d] => lost'[task[d].vm] = {}
      BY <1>6, <1>9, <1>10, <1>11, <3>1, <3>2 DEF MakingAt
    <3> QED BY <1>1, <1>10, <3>1, <3>3, <3>4 DEF MakingAt
  <2> QED BY <2>1, <2>2
<1>17. TaskAt'
  <2>1. t.kind = "import" => dir'[Users(t.file)] # NoLayer
    BY <1>1, <1>3, <1>6, <1>12, Tasks DEF Feasible
  <2>2. ASSUME NEW d \in Client, at[d] = "making", task[d].kind = "import"
        PROVE  dir'[Users(task[d].file)] # NoLayer
    BY <1>6, <1>12, <2>2, AtWork DEF TaskAt
  <2> QED BY <1>3, <1>8, <1>10, <2>1, <2>2 DEF TaskAt
<1>18. Explained'
  <2> SUFFICES ASSUME NEW n \in conf' \ failed'
               PROVE  \/ \E d \in Client : at'[d] = "image" /\ task'[d].vm = n
                      \/ \E d \in Client : at'[d] = "making" /\ task'[d].vm = n /\ dir'[Own(n)] = making'[d]
                      \/ dir'[Own(n)] # NoLayer /\ layer'[dir'[Own(n)]].whole
    BY DEF Explained
  <2>1. CASE n = t.vm
    BY <1>6, <1>8, <1>10, <2>1
  <2>2. CASE n # t.vm
    <3>1. n \in conf \ failed /\ n \in Name
      BY <1>1, <1>4 DEF DiskType
    <3>2. dir'[Own(n)] = dir[Own(n)]
      BY <1>6, <1>11, <2>2, <3>1
    <3>3. dir[Own(n)] # NoLayer => layer'[dir[Own(n)]].whole = layer[dir[Own(n)]].whole
      BY <1>7, <1>11, <2>2, <3>1
    <3> QED BY <1>8, <1>10, <2>2, <3>1, <3>2, <3>3, ReasonKeeps
  <2> QED BY <2>1, <2>2
<1> QED BY <1>2, <1>14, <1>15, <1>16, <1>17, <1>18

\* The reasons, when c leaves an image that was not made, if it was about one.
LEMMA AwayExplained ==
  ASSUME TypeOK, Explained, NEW c \in Client,
         \A d \in Client : d # c => at'[d] = at[d] /\ task'[d] = task[d] /\ making'[d] = making[d],
         UNCHANGED <<conf, dir, layer>>, failed \subseteq failed',
         at[c] \in {"image", "making"} => task[c].vm \in failed'
  PROVE  Explained'
<1> SUFFICES ASSUME NEW n \in conf' \ failed'
             PROVE  \/ \E d \in Client : at'[d] = "image" /\ task'[d].vm = n
                    \/ \E d \in Client : at'[d] = "making" /\ task'[d].vm = n /\ dir'[Own(n)] = making'[d]
                    \/ dir'[Own(n)] # NoLayer /\ layer'[dir'[Own(n)]].whole
  BY DEF Explained
<1>1. n \in conf \ failed /\ ~(at[c] \in {"image", "making"} /\ task[c].vm = n)
  OBVIOUS
<1> QED BY <1>1, ReasonKeeps

LEMMA NoImageKeeps ==
  ASSUME IInv, NEW c \in Client, NoImage(c)
  PROVE  IInv'
<1> USE Parts, PartsNext
<1>1. /\ at[c] = "image" /\ failed' = failed \cup {task[c].vm} /\ AfterImage(c)
      /\ UNCHANGED <<conf, dir, layer, procVars, runs, writes, tasks, told, lost, promised>>
  BY DEF NoImage
<1>2. TypeOK'
  BY ClientTypes DEF ClientNext, Files
<1>3. Files' /\ Chains'
  BY <1>1, SameFiles, SameChains DEF Files, Chains, procVars
<1>4. /\ at'[c] \in {"idle", "install"}
      /\ \A d \in Client : d # c => at'[d] = at[d] /\ task'[d] = task[d] /\ making'[d] = making[d]
  BY <1>1, TypeParts, AfterImageMoves
<1>5. MakingAt' /\ TaskAt'
  BY <1>1, <1>4, AwayKeeps DEF procVars
<1>6. Explained'
  BY <1>1, <1>4, AwayExplained
<1> QED BY <1>2, <1>3, <1>5, <1>6

LEMMA KilledKeeps ==
  ASSUME IInv, NEW c \in Client, Killed(c)
  PROVE  IInv'
<1> USE Parts, PartsNext
<1>1. /\ ToIdle(c)
      /\ failed' = IF task[c].kind = "backup" \/ at[c] = "install" THEN failed
                   ELSE failed \cup {task[c].vm}
      /\ UNCHANGED <<conf, dir, layer, procVars, runs, writes, tasks, told, lost, promised>>
  BY DEF Killed
<1>2. TypeOK'
  BY ClientTypes DEF ClientNext, Files
<1>3. Files' /\ Chains'
  BY <1>1, SameFiles, SameChains DEF Files, Chains, procVars
<1>4. /\ at'[c] = "idle"
      /\ \A d \in Client : d # c => at'[d] = at[d] /\ task'[d] = task[d] /\ making'[d] = making[d]
  BY <1>1, TypeParts, Idles
<1>5. MakingAt' /\ TaskAt'
  BY <1>1, <1>4, AwayKeeps DEF procVars
<1>6. at[c] \in {"image", "making"} => task[c].vm \in failed'
  BY <1>1 DEF TaskAt
<1>7. Explained'
  BY <1>1, <1>4, <1>6, AwayExplained
<1> QED BY <1>2, <1>3, <1>5, <1>7

LEMMA ImportedCounted ==
  ASSUME IInv, NEW c \in Client, at[c] = "making"
  PROVE  Imported(c) \subseteq 0..writes
<1>1. CASE task[c].kind = "iso"
  BY <1>1 DEF Imported
<1>2. CASE task[c].kind # "iso"
  <2>1. TypeOK /\ TaskAt /\ Counted
    BY DEF IInv
  <2>2. task[c] \in Task /\ Users(task[c].file) \in Path
    BY <1>2, <2>1, AtWork
  <2>3. task[c].kind = "import"
    BY <1>2, <2>1, <2>2, Tasks DEF TaskAt
  <2>4. DiskType
    BY <2>1, TypeParts
  <2>5. dir[Users(task[c].file)] \in Layer
    BY <2>1, <2>2, <2>3, <2>4 DEF TaskAt, DiskType
  <2> QED BY <1>2, <2>1, <2>5 DEF Imported, Counted
<1> QED BY <1>1, <1>2

LEMMA ImageMadeKeeps ==
  ASSUME IInv, NEW c \in Client, ImageMade(c)
  PROVE  IInv'
<1> USE Parts, PartsNext
<1>1. /\ at[c] = "making" /\ AfterImage(c)
      /\ UNCHANGED <<conf, dir, chain, job, sock, mine, runs, writes, tasks, lost, promised>>
  BY DEF ImageMade, procVars
<1>2. TypeOK'
  BY ClientTypes DEF ClientNext, Files
<1>3. DiskType /\ ClientType /\ HistoryType /\ QemuType
  BY TypeParts
<1> DEFINE n == task[c].vm
           l == making[c]
<1>4. n \in Name /\ Own(n) \in Path
  BY <1>1, AtWork
<1>5. /\ l \in Layer
      /\ \A p \in Path : dir[p] = l => p = Own(n)
      /\ \A k \in Machine : \A i \in DOMAIN chain[k] : chain[k][i] # l
      /\ dir[Own(n)] = l => lost[n] = {}
  BY <1>1 DEF MakingAt
<1>6. PICK whole \in BOOLEAN :
        /\ layer' = [layer EXCEPT ![making[c]].data = IF whole THEN Imported(c) ELSE {},
                                 ![making[c]].whole = whole]
        /\ IF dir[Own(task[c].vm)] = making[c]
           THEN /\ told' = [told EXCEPT ![task[c].vm] = IF whole THEN Imported(c) ELSE {}]
                /\ failed' = IF whole THEN failed \ {task[c].vm} ELSE failed \cup {task[c].vm}
           ELSE UNCHANGED <<told, failed>>
  BY DEF ImageMade
<1> DEFINE data == IF whole THEN Imported(c) ELSE {}
<1>7. data \subseteq 0..writes
  BY <1>1, ImportedCounted
<1>8. /\ layer' = [layer EXCEPT ![l].data = data, ![l].whole = whole]
      /\ dir[Own(n)] = l => told' = [told EXCEPT ![n] = data]
      /\ dir[Own(n)] = l => failed' = IF whole THEN failed \ {n} ELSE failed \cup {n}
      /\ dir[Own(n)] # l => UNCHANGED <<told, failed>>
  BY <1>6
<1> HIDE DEF n, l, data
<1>9. /\ layer'[l].data = data /\ layer'[l].whole = whole
      /\ \A k \in Layer : k # l => layer'[k] = layer[k]
  BY <1>3, <1>5, <1>8 DEF DiskType, Layers
<1>10. /\ dir[Own(n)] = l => told'[n] = data
       /\ \A k \in Name : k # n => told'[k] = told[k]
  BY <1>3, <1>4, <1>8 DEF HistoryType
<1>11. \A k \in Name : dir[Own(k)] = l => k = n
  BY <1>4, <1>5, Paths
<1>12. \A f \in File : dir[Users(f)] # l
  BY <1>4, <1>5, Paths
<1>13. \A m \in Machine : \A i \in DOMAIN chain[m] : layer'[chain[m][i]] = layer[chain[m][i]]
  BY <1>3, <1>5, <1>9 DEF QemuType
<1>14. \A p \in Path : dir[p] # l /\ dir[p] # NoLayer => layer'[dir[p]] = layer[dir[p]]
  BY <1>3, <1>9 DEF DiskType
<1>15. \A k \in Name : dir[Own(k)] # l => told'[k] = told[k]
  BY <1>8, <1>10
<1>16. Files'
  <2>1. Injective' /\ JobAt'
    BY <1>1 DEF Files, Injective, JobAt
  <2>2. \A k \in Name : told'[k] \subseteq 0..writes
    BY <1>7, <1>10, <1>15 DEF Files, Counted
  <2>3. \A k \in Layer : layer'[k].data \subseteq 0..writes
    BY <1>7, <1>9 DEF Files, Counted
  <2>4. Counted'
    BY <1>1, <2>2, <2>3 DEF Files, Counted
  <2>5. ASSUME NEW k \in Name, dir[Own(k)] # NoLayer
        PROVE  layer'[dir[Own(k)]].data = told'[k] \ lost[k]
    <3>1. CASE dir[Own(k)] = l
      <4>1. k = n /\ lost[k] = {} /\ told'[k] = data
        BY <1>5, <1>10, <1>11, <3>1
      <4> QED BY <1>9, <3>1, <4>1
    <3>2. CASE dir[Own(k)] # l
      <4>1. layer'[dir[Own(k)]] = layer[dir[Own(k)]] /\ told'[k] = told[k]
        BY <1>14, <1>15, <2>5, <3>2, Paths
      <4> QED BY <2>5, <4>1 DEF Files, RollbackExact, Opens
    <3> QED BY <3>1, <3>2
  <2>6. RollbackExact'
    BY <1>1, <2>5 DEF RollbackExact, Opens
  <2>7. \A f \in File : dir[Users(f)] # NoLayer => layer'[dir[Users(f)]] = layer[dir[Users(f)]]
    BY <1>12, <1>14, Paths
  <2>8. BackupComplete'
    BY <1>1, <2>7 DEF Files, BackupComplete
  <2> QED BY <2>1, <2>4, <2>6, <2>8 DEF Files
<1>17. Chains'
  <2>1. NoLayerTwice' /\ Bottom'
    BY <1>1 DEF Chains, NoLayerTwice, Bottom
  <2>2. MineSeen'
    BY <1>1, <1>13, ViewKeeps DEF Chains, MineSeen
  <2> QED BY <2>1, <2>2 DEF Chains
<1>18. /\ at'[c] \in {"idle", "install"}
       /\ \A d \in Client : d # c => at'[d] = at[d] /\ task'[d] = task[d] /\ making'[d] = making[d]
  BY <1>1, <1>3, AfterImageMoves
<1>19. MakingAt' /\ TaskAt'
  BY <1>1, <1>18, AwayKeeps
<1>20. Explained'
  <2> SUFFICES ASSUME NEW k \in conf' \ failed'
               PROVE  \/ \E d \in Client : at'[d] = "image" /\ task'[d].vm = k
                      \/ \E d \in Client : at'[d] = "making" /\ task'[d].vm = k /\ dir'[Own(k)] = making'[d]
                      \/ dir'[Own(k)] # NoLayer /\ layer'[dir'[Own(k)]].whole
    BY DEF Explained
  <2>1. k \in Name /\ Own(k) \in Path
    BY <1>1, <1>3, Paths DEF DiskType
  <2>2. CASE dir[Own(k)] = l
    <3>1. k = n /\ whole
      BY <1>8, <1>11, <2>1, <2>2
    <3> QED BY <1>1, <1>5, <1>9, <2>2, <3>1, DiskAssumption
  <2>3. CASE dir[Own(k)] # l
    <3>1. k \in conf \ failed
      <4>1. k \in conf /\ k \notin failed'
        BY <1>1
      <4>2. CASE dir[Own(n)] = l
        <5>1. k # n
          BY <2>3, <4>2
        <5> QED BY <1>8, <4>1, <4>2, <5>1
      <4>3. CASE dir[Own(n)] # l
        BY <1>8, <4>1, <4>3
      <4> QED BY <4>2, <4>3
    <3>2. CASE \E d \in Client : at[d] = "image" /\ task[d].vm = k
      BY <1>1, <1>18, <3>2
    <3>3. CASE \E d \in Client : at[d] = "making" /\ task[d].vm = k /\ dir[Own(k)] = making[d]
      <4>1. PICK d \in Client : at[d] = "making" /\ task[d].vm = k /\ dir[Own(k)] = making[d]
        BY <3>3
      <4>2. d # c
        BY <2>3, <4>1 DEF l
      <4> QED BY <1>1, <1>18, <4>1, <4>2
    <3>4. CASE dir[Own(k)] # NoLayer /\ layer[dir[Own(k)]].whole
      BY <1>1, <1>14, <2>1, <2>3, <3>4
    <3> QED BY <3>1, <3>2, <3>3, <3>4 DEF Explained
  <2> QED BY <2>2, <2>3
<1> QED BY <1>2, <1>16, <1>17, <1>19, <1>20

\* Files do not depend on who has them open, as long as nobody opens the target
\* of a backup.
LEMMA OpenedFiles ==
  ASSUME Files, UNCHANGED <<dir, layer, writes, told, lost, promised>>,
         \A m \in Machine : job'[m] # NoJob =>
           /\ job'[m] = job[m]
           /\ \A k \in Machine : \A i \in DOMAIN chain'[k] : chain'[k][i] # job[m].target
  PROVE  Files'
<1>1. Injective' /\ RollbackExact' /\ BackupComplete'
  BY DEF Files, Injective, RollbackExact, BackupComplete, Opens
<1>2. JobAt'
  BY DEF Files, JobAt
<1>3. Counted'
  BY DEF Files, Counted
<1> QED BY <1>1, <1>2, <1>3 DEF Files

\* A start opens what no backup and no qemu-img writes to.
LEMMA RunsKeeps ==
  ASSUME TypeOK, Chains, NEW n \in Name, NEW m \in Machine, Runs(n, m), UNCHANGED <<dir, layer>>
  PROVE  /\ Chains'
         /\ \A k \in Machine : job[k] # NoJob /\ (\A j \in Machine : \A i \in DOMAIN chain[j] : chain[j][i] # job[k].target)
              => \A j \in Machine : \A i \in DOMAIN chain'[j] : chain'[j][i] # job[k].target
         /\ \A d \in Client : at[d] = "making" /\ (\A j \in Machine : \A i \in DOMAIN chain[j] : chain[j][i] # making[d])
              => \A j \in Machine : \A i \in DOMAIN chain'[j] : chain'[j][i] # making[d]
<1> DEFINE l == dir[Own(n)]
<1>1. /\ chain[m] = <<>> /\ l \notin InUse
      /\ chain' = [chain EXCEPT ![m] = <<l>>]
      /\ mine' = [mine EXCEPT ![m] = {}]
  BY DEF Runs, Opens
<1> HIDE DEF l
<1>2. QemuType /\ HistoryType
  BY TypeParts
<1>3. chain'[m] = <<l>> /\ \A k \in Machine : k # m => chain'[k] = chain[k]
  BY <1>1, <1>2 DEF QemuType
<1>4. DOMAIN chain'[m] = {1} /\ chain'[m][1] = l
  BY <1>3
<1>5. /\ \A k \in Machine : \A i \in DOMAIN chain[k] : chain[k][i] # l
      /\ \A k \in Machine : job[k] # NoJob => job[k].target # l
      /\ \A d \in Client : at[d] = "making" => making[d] # l
  BY <1>1, NotInUse
<1>6. NoLayerTwice'
  <2> SUFFICES ASSUME NEW j \in Machine, NEW k \in Machine,
                      NEW x \in DOMAIN chain'[j], NEW y \in DOMAIN chain'[k],
                      chain'[j][x] = chain'[k][y]
               PROVE  j = k /\ x = y
    BY DEF NoLayerTwice
  <2>1. CASE j = m /\ k = m
    BY <1>4, <2>1
  <2>2. CASE j = m /\ k # m
    BY <1>3, <1>4, <1>5, <2>2
  <2>3. CASE j # m /\ k = m
    BY <1>3, <1>4, <1>5, <2>3
  <2>4. CASE j # m /\ k # m
    BY <1>3, <2>4 DEF Chains, NoLayerTwice
  <2> QED BY <2>1, <2>2, <2>3, <2>4
<1>7. Bottom'
  BY <1>3, <1>4 DEF Chains, Bottom
<1>8. MineSeen'
  <2> SUFFICES ASSUME NEW k \in Machine
               PROVE  mine'[k] \subseteq View(k)'
    BY DEF MineSeen
  <2>1. CASE k = m
    BY <1>1, <1>2, <2>1 DEF HistoryType
  <2>2. CASE k # m
    BY <1>1, <1>2, <1>3, <2>2, ViewKeeps DEF HistoryType, Chains, MineSeen
  <2> QED BY <2>1, <2>2
<1>9. \A k \in Machine : job[k] # NoJob /\ (\A j \in Machine : \A i \in DOMAIN chain[j] : chain[j][i] # job[k].target)
        => \A j \in Machine : \A i \in DOMAIN chain'[j] : chain'[j][i] # job[k].target
  BY <1>3, <1>4, <1>5
<1>10. \A d \in Client : at[d] = "making" /\ (\A j \in Machine : \A i \in DOMAIN chain[j] : chain[j][i] # making[d])
         => \A j \in Machine : \A i \in DOMAIN chain'[j] : chain'[j][i] # making[d]
  BY <1>3, <1>4, <1>5
<1> QED BY <1>6, <1>7, <1>8, <1>9, <1>10 DEF Chains

LEMMA InstallKeeps ==
  ASSUME IInv, NEW c \in Client, Install(c)
  PROVE  IInv'
<1> USE Parts, PartsNext
<1>1. /\ at[c] = "install" /\ ToIdle(c)
      /\ UNCHANGED <<conf, dir, layer, job, sock, writes, tasks, told, lost, failed, promised>>
      /\ (\E m \in Machine : Runs(task[c].vm, m)) \/ UNCHANGED <<runs, chain, mine>>
  BY DEF Install, diskHistory
<1>2. TypeOK'
  BY ClientTypes DEF ClientNext, Files
<1>3. /\ at'[c] = "idle"
      /\ \A d \in Client : d # c => at'[d] = at[d] /\ task'[d] = task[d] /\ making'[d] = making[d]
  BY <1>1, TypeParts, Idles
<1>4. Explained'
  BY <1>1, <1>3, AwayExplained
<1>5. CASE UNCHANGED <<runs, chain, mine>>
  <2>1. Files' /\ Chains'
    BY <1>1, <1>5, SameFiles, SameChains DEF Files, Chains
  <2>2. MakingAt' /\ TaskAt'
    BY <1>1, <1>3, <1>5, AwayKeeps
  <2> QED BY <1>2, <1>4, <2>1, <2>2
<1>6. CASE \E m \in Machine : Runs(task[c].vm, m)
  <2>1. PICK m \in Machine : Runs(task[c].vm, m)
    BY <1>6
  <2>2. task[c].vm \in Name
    BY <1>1, AtWork
  <2>3. /\ Chains'
        /\ \A k \in Machine : job[k] # NoJob /\ (\A j \in Machine : \A i \in DOMAIN chain[j] : chain[j][i] # job[k].target)
             => \A j \in Machine : \A i \in DOMAIN chain'[j] : chain'[j][i] # job[k].target
        /\ \A d \in Client : at[d] = "making" /\ (\A j \in Machine : \A i \in DOMAIN chain[j] : chain[j][i] # making[d])
             => \A j \in Machine : \A i \in DOMAIN chain'[j] : chain'[j][i] # making[d]
    BY <1>1, <2>1, <2>2, RunsKeeps
  <2>4. Files'
    BY <1>1, <2>3, OpenedFiles DEF Files, JobAt
  <2>5. MakingAt'
    BY <1>1, <1>3, <2>3 DEF MakingAt
  <2>6. TaskAt'
    BY <1>1, <1>3 DEF TaskAt
  <2> QED BY <1>2, <1>4, <2>3, <2>4, <2>5, <2>6
<1> QED BY <1>1, <1>5, <1>6

-----------------------------------------------------------------------------
(* The steps on a VM.                                                      *)

LEMMA StartKeeps ==
  ASSUME IInv, NEW n \in Name, NEW m \in Machine, Start(n, m)
  PROVE  IInv'
<1> USE Parts, PartsNext
<1>1. /\ Runs(n, m)
      /\ UNCHANGED <<conf, dir, layer, job, at, task, making, writes, tasks, told, lost, failed, promised>>
  BY DEF Start, diskHistory, clientVars
<1>2. TypeOK'
  BY VmTypes DEF VmNext, Files
<1>3. /\ Chains'
      /\ \A k \in Machine : job[k] # NoJob /\ (\A j \in Machine : \A i \in DOMAIN chain[j] : chain[j][i] # job[k].target)
           => \A j \in Machine : \A i \in DOMAIN chain'[j] : chain'[j][i] # job[k].target
      /\ \A d \in Client : at[d] = "making" /\ (\A j \in Machine : \A i \in DOMAIN chain[j] : chain[j][i] # making[d])
           => \A j \in Machine : \A i \in DOMAIN chain'[j] : chain'[j][i] # making[d]
  BY <1>1, RunsKeeps
<1>4. Files'
  BY <1>1, <1>3, OpenedFiles DEF Files, JobAt
<1>5. MakingAt'
  BY <1>1, <1>3 DEF MakingAt
<1>6. TaskAt'
  BY <1>1 DEF TaskAt
<1>7. Explained'
  BY <1>1 DEF Explained
<1> QED BY <1>2, <1>3, <1>4, <1>5, <1>6, <1>7

LEMMA DeleteKeeps ==
  ASSUME IInv, NEW n \in Name, Delete(n)
  PROVE  IInv'
<1> USE Parts, PartsNext
<1>1. /\ conf' = conf \ {n} /\ failed' = failed \ {n}
      /\ dir' = [dir EXCEPT ![Own(n)] = NoLayer, ![Temp(n)] = NoLayer]
      /\ told' = [told EXCEPT ![n] = {}]
      /\ lost' = [lost EXCEPT ![n] = {}]
      /\ UNCHANGED <<layer, chain, job, mine, at, task, making, runs, writes, tasks, promised>>
  BY DEF Delete, Unregister, clientVars
<1>2. TypeOK'
  BY VmTypes DEF VmNext, Files
<1>3. DiskType /\ QemuType /\ HistoryType
  BY TypeParts
<1>4. Own(n) \in Path /\ Temp(n) \in Path
  BY Paths
<1>5. /\ dir'[Own(n)] = NoLayer
      /\ \A p \in Path : dir'[p] = dir[p] \/ dir'[p] = NoLayer
      /\ \A f \in File : dir'[Users(f)] = dir[Users(f)]
      /\ \A k \in Name : k # n => dir'[Own(k)] = dir[Own(k)]
  BY <1>1, <1>3, <1>4, Paths DEF DiskType
<1>6. /\ told'[n] = {} /\ lost'[n] = {}
      /\ \A k \in Name : k # n => told'[k] = told[k] /\ lost'[k] = lost[k]
  BY <1>1, <1>3 DEF HistoryType
<1>7. Files'
  <2>1. Injective'
    BY <1>5 DEF Files, Injective
  <2>2. JobAt'
    <3>1. \A m \in Machine : job[m] # NoJob => job[m].file \in File
      BY <1>3 DEF QemuType, Jobs
    <3> QED BY <1>1, <1>5, <3>1 DEF Files, JobAt
  <2>3. Counted'
    BY <1>1, <1>6 DEF Files, Counted
  <2>4. RollbackExact'
    <3>1. ASSUME NEW k \in Name, dir'[Own(k)] # NoLayer
          PROVE  layer'[dir'[Own(k)]].data = told'[k] \ lost'[k]
      <4>1. k # n
        BY <1>5, <3>1
      <4> QED BY <1>1, <1>5, <1>6, <3>1, <4>1 DEF Files, RollbackExact, Opens
    <3> QED BY <3>1 DEF RollbackExact, Opens
  <2>5. BackupComplete'
    BY <1>1, <1>5 DEF Files, BackupComplete
  <2> QED BY <2>1, <2>2, <2>3, <2>4, <2>5 DEF Files
<1>8. Chains'
  <2>1. \A m \in Machine : \A i \in DOMAIN chain[m] : chain[m][i] # NoLayer
    BY <1>3, DiskAssumption DEF QemuType
  <2>2. Bottom'
    <3> SUFFICES ASSUME NEW m \in Machine, NEW k \in Name, NEW i \in DOMAIN chain[m],
                        chain[m][i] = dir'[Own(k)]
                 PROVE  i = 1
      BY <1>1 DEF Bottom
    <3>1. dir'[Own(k)] = dir[Own(k)]
      BY <1>5, <2>1, Paths
    <3> QED BY <3>1 DEF Chains, Bottom
  <2>3. NoLayerTwice'
    BY <1>1 DEF Chains, NoLayerTwice
  <2>4. MineSeen'
    BY <1>1 DEF Chains, MineSeen, View
  <2> QED BY <2>2, <2>3, <2>4 DEF Chains
<1>9. MakingAt'
  <2> SUFFICES ASSUME NEW d \in Client, at'[d] = "making"
               PROVE  /\ making'[d] \in Layer
                      /\ \A q \in Path : dir'[q] = making'[d] => q = Own(task'[d].vm)
                      /\ \A k \in Machine : \A i \in DOMAIN chain'[k] : chain'[k][i] # making'[d]
                      /\ dir'[Own(task'[d].vm)] = making'[d] => lost'[task'[d].vm] = {}
    BY DEF MakingAt
  <2>1. at[d] = "making" /\ making[d] \in Layer /\ making[d] # NoLayer /\ task[d].vm \in Name
    BY <1>1, AtWork, DiskAssumption DEF MakingAt
  <2>2. \A q \in Path : dir'[q] = making[d] => q = Own(task[d].vm)
    BY <1>5, <2>1 DEF MakingAt
  <2>3. dir'[Own(task[d].vm)] = making[d] => lost'[task[d].vm] = {}
    BY <1>5, <1>6, <2>1 DEF MakingAt
  <2>4. \A k \in Machine : \A i \in DOMAIN chain[k] : chain[k][i] # making[d]
    BY <2>1 DEF MakingAt
  <2>5. at' = at /\ task' = task /\ making' = making /\ chain' = chain
    BY <1>1
  <2> QED BY <2>1, <2>2, <2>3, <2>4, <2>5
<1>10. TaskAt'
  <2>1. ASSUME NEW d \in Client, at[d] = "making", task[d].kind = "import"
        PROVE  dir'[Users(task[d].file)] # NoLayer
    <3>1. task[d].file \in File
      BY <2>1, AtWork
    <3> QED BY <1>5, <2>1, <3>1 DEF TaskAt
  <2> QED BY <1>1, <2>1 DEF TaskAt
<1>11. Explained'
  <2> SUFFICES ASSUME NEW k \in conf' \ failed'
               PROVE  \/ \E d \in Client : at'[d] = "image" /\ task'[d].vm = k
                      \/ \E d \in Client : at'[d] = "making" /\ task'[d].vm = k /\ dir'[Own(k)] = making'[d]
                      \/ dir'[Own(k)] # NoLayer /\ layer'[dir'[Own(k)]].whole
    BY DEF Explained
  <2>1. k # n /\ k \in conf \ failed /\ k \in Name
    BY <1>1, <1>3 DEF DiskType
  <2>2. dir'[Own(k)] = dir[Own(k)]
    BY <1>5, <2>1
  <2> QED BY <1>1, <2>1, <2>2 DEF Explained
<1> QED BY <1>2, <1>7, <1>8, <1>9, <1>10, <1>11

-----------------------------------------------------------------------------
(* The steps of a QEMU process.                                            *)

LEMMA EndsKeeps ==
  ASSUME IInv, NEW m \in Machine, Ends(m)
  PROVE  IInv'
<1> USE Parts, PartsNext
<1>1. /\ chain' = [chain EXCEPT ![m] = <<>>]
      /\ job' = [job EXCEPT ![m] = NoJob]
      /\ mine' = [mine EXCEPT ![m] = {}]
      /\ UNCHANGED <<conf, dir, layer, at, task, making, runs, writes, tasks, told, lost, failed, promised>>
  BY DEF Ends, clientVars, diskHistory
<1>2. TypeOK'
  BY MachineTypes DEF MachineNext
<1>3. QemuType /\ HistoryType
  BY TypeParts
<1>4. DOMAIN chain'[m] = {} /\ \A k \in Machine : k # m => chain'[k] = chain[k]
  BY <1>1, <1>3 DEF QemuType
<1>5. \A k \in Machine : job'[k] # NoJob => job'[k] = job[k]
  BY <1>1, <1>3 DEF QemuType
<1>6. \A k \in Machine : \A i \in DOMAIN chain'[k] : i \in DOMAIN chain[k] /\ chain'[k][i] = chain[k][i]
  BY <1>4
<1>7. Files'
  BY <1>1, <1>5, <1>6, OpenedFiles DEF Files, JobAt
<1>8. Chains'
  <2>1. NoLayerTwice'
    BY <1>6 DEF Chains, NoLayerTwice
  <2>2. Bottom'
    BY <1>1, <1>6 DEF Chains, Bottom
  <2>3. ASSUME NEW k \in Machine
        PROVE  mine'[k] \subseteq View(k)'
    <3>1. CASE k = m
      BY <1>1, <1>3, <3>1 DEF HistoryType
    <3>2. CASE k # m
      BY <1>1, <1>3, <1>4, <3>2, ViewKeeps DEF HistoryType, Chains, MineSeen
    <3> QED BY <3>1, <3>2
  <2> QED BY <2>1, <2>2, <2>3 DEF Chains, MineSeen
<1>9. MakingAt'
  BY <1>1, <1>6 DEF MakingAt
<1>10. TaskAt'
  BY <1>1 DEF TaskAt
<1>11. Explained'
  BY <1>1 DEF Explained
<1> QED BY <1>2, <1>7, <1>8, <1>9, <1>10, <1>11

\* A guest writes what was never written, to the uppermost layer of its own chain.
LEMMA GuestWritesKeeps ==
  ASSUME IInv, NEW m \in Machine, GuestWrites(m)
  PROVE  IInv'
<1> USE Parts, PartsNext
<1> DEFINE top == Last(chain[m])
           w == writes + 1
<1>1. /\ chain[m] # <<>> /\ writes' = w
      /\ layer' = [layer EXCEPT ![top].data = @ \cup {w}]
      /\ mine' = [mine EXCEPT ![m] = @ \cup {w}]
      /\ told' = [n \in Name |-> IF Serves(m, n) THEN told[n] \cup {w} ELSE told[n]]
      /\ lost' = [n \in Name |-> IF Serves(m, n) /\ Len(chain[m]) > 1
                                 THEN lost[n] \cup {w} ELSE lost[n]]
      /\ UNCHANGED <<conf, dir, chain, job, at, task, making, runs, tasks, failed, promised>>
  BY DEF GuestWrites, clientVars
<1>2. TypeOK'
  BY MachineTypes DEF MachineNext
<1>3. DiskType /\ QemuType /\ HistoryType /\ CountType
  BY TypeParts
<1>4. /\ top \in Layer /\ 1 \in DOMAIN chain[m]
      /\ Len(chain[m]) \in DOMAIN chain[m] /\ Len(chain[m]) \in Nat
      /\ top = chain[m][Len(chain[m])] /\ DOMAIN chain[m] = 1..Len(chain[m])
  BY <1>1, <1>3, LastType
<1>5. writes \in Nat
  BY <1>3, DiskAssumption DEF CountType
<1>6. w \notin 0..writes /\ 0..writes \subseteq 0..w /\ w \in 0..w
  BY <1>5
<1> HIDE DEF top, w
<1>7. /\ layer'[top].data = layer[top].data \cup {w} /\ layer'[top].whole = layer[top].whole
      /\ \A l \in Layer : l # top => layer'[l] = layer[l]
  BY <1>1, <1>3, <1>4 DEF DiskType, Layers
<1>8. \A l \in Layer : /\ layer[l].data \subseteq layer'[l].data
                       /\ layer'[l].whole = layer[l].whole
                       /\ layer'[l].data \subseteq layer[l].data \cup {w}
  BY <1>7
<1>9. \A p \in Path : dir[p] # NoLayer => dir[p] \in Layer
  BY <1>3 DEF DiskType
<1>10. Files'
  <2>1. Injective' /\ JobAt'
    BY <1>1 DEF Files, Injective, JobAt
  <2>2. Counted'
    <3>1. ASSUME NEW n \in Name
          PROVE  told'[n] \subseteq 0..w /\ lost'[n] \subseteq 0..w
      BY <1>1, <1>6 DEF Files, Counted
    <3>2. \A l \in Layer : layer'[l].data \subseteq 0..w
      BY <1>6, <1>8 DEF Files, Counted
    <3>3. \A k \in Machine : job'[k] # NoJob => job'[k].copy \subseteq 0..w
      BY <1>1, <1>6 DEF Files, Counted
    <3> QED BY <1>1, <3>1, <3>2, <3>3 DEF Counted
  <2>3. ASSUME NEW n \in Name, dir[Own(n)] # NoLayer
        PROVE  layer'[dir[Own(n)]].data = told'[n] \ lost'[n]
    <3>1. layer[dir[Own(n)]].data = told[n] \ lost[n]
      BY <2>3 DEF Files, RollbackExact, Opens
    <3>2. w \notin told[n] /\ w \notin lost[n]
      BY <1>6 DEF Files, Counted
    <3>3. /\ told'[n] = IF Serves(m, n) THEN told[n] \cup {w} ELSE told[n]
          /\ lost'[n] = IF Serves(m, n) /\ Len(chain[m]) > 1 THEN lost[n] \cup {w} ELSE lost[n]
      BY <1>1
    <3>4. CASE dir[Own(n)] = top
      <4>1. Len(chain[m]) = 1
        BY <1>4, <3>4 DEF Chains, Bottom
      <4>2. Serves(m, n)
        BY <1>1, <1>4, <3>4, <4>1 DEF Serves
      <4>3. told'[n] = told[n] \cup {w} /\ lost'[n] = lost[n]
        BY <3>3, <4>1, <4>2
      <4> QED BY <1>7, <3>1, <3>2, <3>4, <4>3
    <3>5. CASE dir[Own(n)] # top
      <4>1. layer'[dir[Own(n)]] = layer[dir[Own(n)]]
        BY <1>7, <1>9, <2>3, <3>5, Paths
      <4>2. CASE Serves(m, n)
        <5>1. Len(chain[m]) # 1
          BY <1>4, <3>5, <4>2 DEF Serves
        <5>2. Len(chain[m]) > 1
          <6> DEFINE len == Len(chain[m])
          <6>1. len \in 1..len /\ len \in Nat /\ len # 1
            BY <1>4, <5>1
          <6> HIDE DEF len
          <6>2. len > 1
            BY <6>1
          <6> QED BY <6>2 DEF len
        <5>3. told'[n] = told[n] \cup {w} /\ lost'[n] = lost[n] \cup {w}
          BY <3>3, <4>2, <5>2
        <5> QED BY <3>1, <3>2, <4>1, <5>3
      <4>3. CASE ~Serves(m, n)
        BY <3>1, <3>3, <4>1, <4>3
      <4> QED BY <4>2, <4>3
    <3> QED BY <3>4, <3>5
  <2>4. RollbackExact'
    BY <1>1, <2>3 DEF RollbackExact, Opens
  <2>5. ASSUME NEW f \in File, dir[Users(f)] # NoLayer, layer'[dir[Users(f)]].whole
        PROVE  promised[f] \subseteq layer'[dir[Users(f)]].data
    <3>1. dir[Users(f)] \in Layer
      BY <1>9, <2>5, Paths
    <3>2. promised[f] \subseteq layer[dir[Users(f)]].data
      BY <1>8, <2>5, <3>1 DEF Files, BackupComplete
    <3> QED BY <1>8, <3>1, <3>2
  <2>6. BackupComplete'
    BY <1>1, <2>5 DEF BackupComplete
  <2> QED BY <2>1, <2>2, <2>4, <2>6 DEF Files
<1>11. Chains'
  <2>1. NoLayerTwice' /\ Bottom'
    BY <1>1 DEF Chains, NoLayerTwice, Bottom
  <2>2. \A k \in Machine : \A i \in DOMAIN chain[k] : chain[k][i] \in Layer
    BY <1>3 DEF QemuType
  <2>3. \A k \in Machine : View(k) \subseteq View(k)'
    BY <1>1, <1>8, <2>2, ViewGrows
  <2>4. w \in View(m)'
    <3>1. top \in Members(chain'[m]) /\ w \in layer'[top].data
      BY <1>1, <1>4, <1>7 DEF Members
    <3> QED BY <3>1 DEF View
  <2>5. ASSUME NEW k \in Machine
        PROVE  mine'[k] \subseteq View(k)'
    <3>1. mine[k] \subseteq View(k)
      BY DEF Chains, MineSeen
    <3>2. CASE k = m
      BY <1>1, <1>3, <2>3, <2>4, <3>1, <3>2 DEF HistoryType
    <3>3. CASE k # m
      BY <1>1, <1>3, <2>3, <3>1, <3>3 DEF HistoryType
    <3> QED BY <3>2, <3>3
  <2> QED BY <2>1, <2>5 DEF Chains, MineSeen
<1>12. MakingAt'
  <2>1. ASSUME NEW d \in Client, at[d] = "making", dir[Own(task[d].vm)] = making[d]
        PROVE  lost'[task[d].vm] = {}
    <3>1. task[d].vm \in Name /\ lost[task[d].vm] = {} /\ chain[m][1] # making[d]
      BY <1>4, <2>1, AtWork DEF MakingAt
    <3>2. ~Serves(m, task[d].vm)
      BY <2>1, <3>1 DEF Serves
    <3> QED BY <1>1, <3>1, <3>2
  <2>2. at' = at /\ task' = task /\ making' = making /\ chain' = chain /\ dir' = dir
    BY <1>1
  <2>3. ASSUME NEW d \in Client, at[d] = "making"
        PROVE  /\ making[d] \in Layer
               /\ \A p \in Path : dir[p] = making[d] => p = Own(task[d].vm)
               /\ \A k \in Machine : \A i \in DOMAIN chain[k] : chain[k][i] # making[d]
    BY <2>3 DEF MakingAt
  <2> QED BY <2>1, <2>2, <2>3 DEF MakingAt
<1>13. TaskAt'
  BY <1>1 DEF TaskAt
<1>14. Explained'
  <2>1. \A n \in Name : dir[Own(n)] # NoLayer => layer'[dir[Own(n)]].whole = layer[dir[Own(n)]].whole
    BY <1>8, <1>9, Paths
  <2>2. conf \subseteq Name
    BY <1>3 DEF DiskType
  <2> QED BY <1>1, <2>1, <2>2 DEF Explained
<1> QED BY <1>2, <1>10, <1>11, <1>12, <1>13, <1>14

\* A backup ends: its file holds what was promised.
LEMMA JobEndsKeeps ==
  ASSUME IInv, NEW m \in Machine, JobEnds(m)
  PROVE  IInv'
<1> USE Parts, PartsNext
<1> DEFINE l == job[m].target
           f == job[m].file
           copy == job[m].copy
<1>1. /\ job[m] # NoJob
      /\ layer' = [layer EXCEPT ![l].data = copy, ![l].whole = TRUE]
      /\ job' = [job EXCEPT ![m] = NoJob]
      /\ UNCHANGED <<conf, dir, chain, mine, at, task, making, runs, writes, tasks, told, lost, failed, promised>>
  BY DEF JobEnds, clientVars, diskHistory
<1>2. TypeOK'
  BY MachineTypes DEF MachineNext
<1>3. DiskType /\ QemuType
  BY TypeParts
<1>4. l \in Layer /\ f \in File
  BY <1>1, <1>3 DEF QemuType, Jobs
<1>5. /\ dir[Users(f)] = l /\ promised[f] \subseteq copy /\ copy \subseteq 0..writes
      /\ \A k \in Machine : \A i \in DOMAIN chain[k] : chain[k][i] # l
  BY <1>1 DEF Files, JobAt, Counted
<1> HIDE DEF l, f, copy
<1>6. /\ layer'[l].data = copy
      /\ \A k \in Layer : k # l => layer'[k] = layer[k]
  BY <1>1, <1>3, <1>4 DEF DiskType, Layers
<1>7. l # NoLayer /\ \A p \in Path : dir[p] = l => p = Users(f)
  BY <1>4, <1>5, Paths, DiskAssumption DEF Files, Injective
<1>8. \A p \in Path : p # Users(f) /\ dir[p] # NoLayer => layer'[dir[p]] = layer[dir[p]]
  BY <1>3, <1>6, <1>7 DEF DiskType
<1>9. \A k \in Machine : job'[k] # NoJob => job'[k] = job[k]
  BY <1>1, <1>3 DEF QemuType
<1>10. \A n \in Name : dir[Own(n)] # NoLayer => layer'[dir[Own(n)]] = layer[dir[Own(n)]]
  BY <1>4, <1>8, Paths
<1>11. Files'
  <2>1. Injective'
    BY <1>1 DEF Files, Injective
  <2>2. JobAt'
    BY <1>1, <1>9 DEF Files, JobAt
  <2>3. Counted'
    BY <1>1, <1>5, <1>6, <1>9 DEF Files, Counted
  <2>4. RollbackExact'
    BY <1>1, <1>10 DEF Files, RollbackExact, Opens
  <2>5. ASSUME NEW g \in File, dir[Users(g)] # NoLayer, layer'[dir[Users(g)]].whole
        PROVE  promised[g] \subseteq layer'[dir[Users(g)]].data
    <3>1. CASE g = f
      BY <1>5, <1>6, <3>1
    <3>2. CASE g # f
      <4>1. layer'[dir[Users(g)]] = layer[dir[Users(g)]]
        BY <1>4, <1>8, <2>5, <3>2, Paths
      <4> QED BY <2>5, <4>1 DEF Files, BackupComplete
    <3> QED BY <3>1, <3>2
  <2>6. BackupComplete'
    BY <1>1, <2>5 DEF BackupComplete
  <2> QED BY <2>1, <2>2, <2>3, <2>4, <2>6 DEF Files
<1>12. Chains'
  <2>1. NoLayerTwice' /\ Bottom'
    BY <1>1 DEF Chains, NoLayerTwice, Bottom
  <2>2. \A k \in Machine : \A i \in DOMAIN chain[k] : layer'[chain[k][i]] = layer[chain[k][i]]
    BY <1>3, <1>5, <1>6 DEF QemuType
  <2>3. MineSeen'
    BY <1>1, <2>2, ViewKeeps DEF Chains, MineSeen
  <2> QED BY <2>1, <2>3 DEF Chains
<1>13. MakingAt' /\ TaskAt'
  BY <1>1 DEF MakingAt, TaskAt
<1>14. Explained'
  <2>1. conf \subseteq Name
    BY <1>3 DEF DiskType
  <2> QED BY <1>1, <1>10, <2>1 DEF Explained
<1> QED BY <1>2, <1>11, <1>12, <1>13, <1>14

-----------------------------------------------------------------------------
(* Snapshots and backups.                                                  *)

\* Those who make images are not disturbed by a file of another that is written.
LEMMA MakersKeep ==
  ASSUME TypeOK, MakingAt, TaskAt, lost' = lost,
         \A d \in Client : at'[d] \in {"image", "making"} =>
           at'[d] = at[d] /\ task'[d] = task[d] /\ making'[d] = making[d],
         \A d \in Client : at'[d] = "backup" => task'[d].kind = "backup",
         \A d \in Client : at[d] = "making" =>
           /\ \A q \in Path : dir'[q] = making[d] => dir[q] = making[d]
           /\ \A k \in Machine : \A i \in DOMAIN chain'[k] : chain'[k][i] # making[d],
         \A f \in File : dir[Users(f)] # NoLayer => dir'[Users(f)] # NoLayer
  PROVE  MakingAt' /\ TaskAt'
<1>1. \A d \in Client : at[d] = "making" => Own(task[d].vm) \in Path
  BY AtWork
<1>2. ASSUME NEW d \in Client, at'[d] = "making"
      PROVE  /\ making'[d] \in Layer
             /\ \A q \in Path : dir'[q] = making'[d] => q = Own(task'[d].vm)
             /\ \A k \in Machine : \A i \in DOMAIN chain'[k] : chain'[k][i] # making'[d]
             /\ dir'[Own(task'[d].vm)] = making'[d] => lost'[task'[d].vm] = {}
  <2>1. at[d] = "making" /\ task'[d] = task[d] /\ making'[d] = making[d]
    BY <1>2
  <2> QED BY <1>1, <2>1 DEF MakingAt
<1>3. \A d \in Client : at[d] = "making" /\ task[d].kind = "import" => task[d].file \in File
  BY AtWork
<1>4. TaskAt'
  BY <1>3 DEF TaskAt
<1> QED BY <1>2, <1>4 DEF MakingAt

\* An overlay is empty and new: it hides nothing, and no disk is changed.
LEMMA OverlayKeeps ==
  ASSUME IInv, NEW n \in Name, NEW p \in Path, Overlay(n, p), \A k \in Name : p # Own(k),
         UNCHANGED <<job, mine, writes, told, lost>>,
         \A f \in File : promised'[f] = IF Users(f) = p THEN {} ELSE promised[f]
  PROVE  /\ Files' /\ Chains'
         /\ \A k \in Name : /\ dir'[Own(k)] = dir[Own(k)]
                            /\ dir[Own(k)] # NoLayer => layer'[dir[Own(k)]] = layer[dir[Own(k)]]
         /\ \A d \in Client : at[d] = "making" =>
              /\ \A q \in Path : dir'[q] = making[d] => dir[q] = making[d]
              /\ \A k \in Machine : \A i \in DOMAIN chain'[k] : chain'[k][i] # making[d]
         /\ \A f \in File : dir[Users(f)] # NoLayer => dir'[Users(f)] # NoLayer
<1> USE Parts
<1> DEFINE m == sock[n]
           l == Target(p)
           new == [Blank(FALSE) EXCEPT !.whole = TRUE]
<1>1. /\ m # NoMachine /\ job[m] = NoJob /\ Possible(p)
      /\ dir' = [dir EXCEPT ![p] = l]
      /\ layer' = [layer EXCEPT ![l] = new]
      /\ chain' = [chain EXCEPT ![m] = Append(@, l)]
  BY DEF Overlay
<1>2. DiskType /\ QemuType
  BY TypeParts
<1>3. Injective /\ JobAt
  BY DEF Files
<1>4. /\ l \in Layer /\ l # NoLayer /\ dir'[p] = l
      /\ \A q \in Path : q # p => dir'[q] = dir[q] /\ dir'[q] # l
      /\ \A k \in Machine : \A i \in DOMAIN chain[k] : chain[k][i] # l
      /\ \A k \in Machine : job[k] # NoJob => job[k].target # l /\ Users(job[k].file) # p
      /\ \A d \in Client : at[d] = "making" => making[d] # l
      /\ Injective'
  BY <1>1, <1>3, FreshFile
<1>5. /\ layer'[l] = new
      /\ \A k \in Layer : k # l => layer'[k] = layer[k]
      /\ \A q \in Path : q # p /\ dir[q] # NoLayer => layer'[dir[q]] = layer[dir[q]]
      /\ \A k \in Machine : \A i \in DOMAIN chain[k] : layer'[chain[k][i]] = layer[chain[k][i]]
  BY <1>1, <1>3, FreshKeeps
<1>6. m \in Machine /\ chain[m] # <<>> /\ chain[m] \in Seq(Layer)
  BY <1>1, <1>2 DEF QemuType
<1>7. new.data = {} /\ Blank(FALSE).data = {}
  BY BlankType DEF Blank
<1> HIDE DEF m, l, new
<1>8. chain'[m] = Append(chain[m], l) /\ \A k \in Machine : k # m => chain'[k] = chain[k]
  BY <1>1, <1>2, <1>6 DEF QemuType
<1>9. /\ \A i \in DOMAIN chain[m] : i \in DOMAIN chain'[m] /\ chain'[m][i] = chain[m][i]
      /\ \A i \in DOMAIN chain'[m] : i \in DOMAIN chain[m] \/ (i = Len(chain[m]) + 1 /\ chain'[m][i] = l)
  BY <1>4, <1>6, <1>8
<1>10. \A k \in Machine : \A i \in DOMAIN chain'[k] :
         \/ i \in DOMAIN chain[k] /\ chain'[k][i] = chain[k][i]
         \/ k = m /\ i = Len(chain[m]) + 1 /\ chain'[k][i] = l
  BY <1>8, <1>9
<1>11. \A k \in Name : Own(k) \in Path /\ Own(k) # p
  BY Paths
<1>12. \A k \in Name : /\ dir'[Own(k)] = dir[Own(k)]
                       /\ dir[Own(k)] # NoLayer => layer'[dir[Own(k)]] = layer[dir[Own(k)]]
  BY <1>4, <1>5, <1>11
<1>13. Files'
  <2>1. JobAt'
    <3> SUFFICES ASSUME NEW k \in Machine, job[k] # NoJob
                 PROVE  /\ dir'[Users(job[k].file)] = job[k].target
                        /\ promised'[job[k].file] \subseteq job[k].copy
                        /\ \A j \in Machine : \A i \in DOMAIN chain'[j] : chain'[j][i] # job[k].target
      BY DEF JobAt
    <3>1. job[k].file \in File /\ Users(job[k].file) # p /\ job[k].target # l
      BY <1>2, <1>4 DEF QemuType, Jobs
    <3>2. dir'[Users(job[k].file)] = dir[Users(job[k].file)]
      BY <1>4, <3>1, Paths
    <3>3. promised'[job[k].file] = promised[job[k].file]
      BY <3>1
    <3>4. \A j \in Machine : \A i \in DOMAIN chain'[j] : chain'[j][i] # job[k].target
      BY <1>3, <1>10, <3>1 DEF JobAt
    <3> QED BY <1>3, <3>2, <3>3, <3>4 DEF JobAt
  <2>2. Counted'
    <3>1. \A k \in Layer : layer'[k].data \subseteq 0..writes
      BY <1>4, <1>5, <1>7 DEF Files, Counted
    <3> QED BY <3>1 DEF Files, Counted
  <2>3. RollbackExact'
    BY <1>12 DEF Files, RollbackExact, Opens
  <2>4. ASSUME NEW f \in File, dir'[Users(f)] # NoLayer, layer'[dir'[Users(f)]].whole
        PROVE  promised'[f] \subseteq layer'[dir'[Users(f)]].data
    <3>1. CASE Users(f) = p
      BY <3>1
    <3>2. CASE Users(f) # p
      <4>1. dir'[Users(f)] = dir[Users(f)] /\ layer'[dir[Users(f)]] = layer[dir[Users(f)]]
        BY <1>4, <1>5, <2>4, <3>2, Paths
      <4> QED BY <2>4, <3>2, <4>1 DEF Files, BackupComplete
    <3> QED BY <3>1, <3>2
  <2>5. BackupComplete'
    BY <2>4 DEF BackupComplete
  <2> QED BY <1>4, <2>1, <2>2, <2>3, <2>5 DEF Files
<1>14. Chains'
  <2>1. NoLayerTwice'
    <3> SUFFICES ASSUME NEW j \in Machine, NEW k \in Machine,
                        NEW x \in DOMAIN chain'[j], NEW y \in DOMAIN chain'[k],
                        chain'[j][x] = chain'[k][y]
                 PROVE  j = k /\ x = y
      BY DEF NoLayerTwice
    <3>1. CASE x \in DOMAIN chain[j] /\ chain'[j][x] = chain[j][x]
      <4>1. chain'[j][x] # l
        BY <1>4, <3>1
      <4>2. (y \in DOMAIN chain[k] /\ chain'[k][y] = chain[k][y]) \/ chain'[k][y] = l
        BY <1>10
      <4>3. y \in DOMAIN chain[k] /\ chain[j][x] = chain[k][y]
        BY <3>1, <4>1, <4>2
      <4> QED BY <3>1, <4>3 DEF Chains, NoLayerTwice
    <3>2. CASE j = m /\ x = Len(chain[m]) + 1 /\ chain'[j][x] = l
      BY <1>4, <1>10, <3>2
    <3> QED BY <1>10, <3>1, <3>2
  <2>2. Bottom'
    <3> SUFFICES ASSUME NEW k \in Machine, NEW v \in Name, NEW i \in DOMAIN chain'[k],
                        chain'[k][i] = dir'[Own(v)]
                 PROVE  i = 1
      BY DEF Bottom
    <3>1. dir'[Own(v)] # l /\ dir'[Own(v)] = dir[Own(v)]
      BY <1>4, <1>11
    <3>2. i \in DOMAIN chain[k] /\ chain[k][i] = dir[Own(v)]
      BY <1>10, <3>1
    <3> QED BY <3>2 DEF Chains, Bottom
  <2>3. MineSeen'
    <3>1. \A k \in Machine : View(k) \subseteq View(k)'
      <4>1. ASSUME NEW k \in Machine
            PROVE  \A i \in DOMAIN chain[k] : /\ i \in DOMAIN chain'[k]
                                             /\ chain'[k][i] = chain[k][i]
                                             /\ layer[chain[k][i]].data \subseteq layer'[chain[k][i]].data
        BY <1>5, <1>8, <1>9
      <4> QED BY <4>1, ViewGrows
    <3> QED BY <3>1 DEF Chains, MineSeen
  <2> QED BY <2>1, <2>2, <2>3 DEF Chains
<1>15. ASSUME NEW d \in Client, at[d] = "making"
       PROVE  /\ \A q \in Path : dir'[q] = making[d] => dir[q] = making[d]
              /\ \A k \in Machine : \A i \in DOMAIN chain'[k] : chain'[k][i] # making[d]
  <2>1. making[d] # l /\ \A k \in Machine : \A i \in DOMAIN chain[k] : chain[k][i] # making[d]
    BY <1>4, <1>15 DEF MakingAt
  <2> QED BY <1>4, <1>10, <2>1
<1>16. \A f \in File : dir[Users(f)] # NoLayer => dir'[Users(f)] # NoLayer
  BY <1>4, Paths
<1> QED BY <1>12, <1>13, <1>14, <1>15, <1>16

LEMMA TakeSnapshotKeeps ==
  ASSUME IInv, NEW n \in Name, NEW f \in File, TakeSnapshot(n, f)
  PROVE  IInv'
<1> USE Parts, PartsNext
<1>1. /\ Overlay(n, Users(f))
      /\ promised' = [promised EXCEPT ![f] = {}]
      /\ UNCHANGED <<conf, job, sock, mine, at, task, making, runs, writes, told, lost, failed>>
  BY DEF TakeSnapshot, clientVars, diskHistory
<1>2. TypeOK'
  BY VmTypes DEF VmNext, Files
<1>3. DiskType /\ HistoryType
  BY TypeParts
<1>4. Users(f) \in Path /\ \A k \in Name : Users(f) # Own(k)
  BY Paths
<1>5. \A g \in File : promised'[g] = IF Users(g) = Users(f) THEN {} ELSE promised[g]
  BY <1>1, <1>3, Paths DEF HistoryType
<1>6. /\ Files' /\ Chains'
      /\ \A k \in Name : /\ dir'[Own(k)] = dir[Own(k)]
                         /\ dir[Own(k)] # NoLayer => layer'[dir[Own(k)]] = layer[dir[Own(k)]]
      /\ \A d \in Client : at[d] = "making" =>
           /\ \A q \in Path : dir'[q] = making[d] => dir[q] = making[d]
           /\ \A k \in Machine : \A i \in DOMAIN chain'[k] : chain'[k][i] # making[d]
      /\ \A g \in File : dir[Users(g)] # NoLayer => dir'[Users(g)] # NoLayer
  BY <1>1, <1>4, <1>5, OverlayKeeps
<1>7. \A d \in Client : at'[d] = "backup" => task'[d].kind = "backup"
  BY <1>1 DEF TaskAt
<1>8. MakingAt' /\ TaskAt'
  BY <1>1, <1>6, <1>7, MakersKeep
<1>9. Explained'
  BY <1>1, <1>3, <1>6 DEF Explained, DiskType
<1> QED BY <1>2, <1>6, <1>8, <1>9

LEMMA BeginBackupKeeps ==
  ASSUME IInv, NEW c \in Client, NEW t \in Task, BeginBackup(c, t)
  PROVE  IInv'
<1> USE Parts, PartsNext
<1> DEFINE p == Temp(t.vm)
<1>1. /\ at[c] = "idle" /\ t.kind = "backup" /\ GoTo(c, "backup")
      /\ task' = [task EXCEPT ![c] = t]
      /\ Overlay(t.vm, p) \/ UNCHANGED <<dir, layer, chain>>
      /\ UNCHANGED <<conf, job, sock, mine, making, runs, writes, told, lost, failed, promised>>
  BY DEF BeginBackup, diskHistory
<1>2. TypeOK'
  BY ClientTypes DEF ClientNext, Files
<1>3. ClientType /\ DiskType
  BY TypeParts
<1>4. /\ at'[c] = "backup" /\ task'[c] = t
      /\ \A d \in Client : d # c => at'[d] = at[d] /\ task'[d] = task[d] /\ making'[d] = making[d]
  BY <1>1, <1>3, Moves DEF ClientType
<1>5. t.vm \in Name /\ p \in Path
  BY Tasks, Paths
<1>6. /\ Files' /\ Chains'
      /\ \A k \in Name : /\ dir'[Own(k)] = dir[Own(k)]
                         /\ dir[Own(k)] # NoLayer => layer'[dir[Own(k)]] = layer[dir[Own(k)]]
      /\ \A d \in Client : at[d] = "making" =>
           /\ \A q \in Path : dir'[q] = making[d] => dir[q] = making[d]
           /\ \A k \in Machine : \A i \in DOMAIN chain'[k] : chain'[k][i] # making[d]
      /\ \A g \in File : dir[Users(g)] # NoLayer => dir'[Users(g)] # NoLayer
  <2>1. CASE Overlay(t.vm, p)
    <3>1. \A k \in Name : p # Own(k)
      BY <1>5, Paths
    <3>2. \A f \in File : promised'[f] = IF Users(f) = p THEN {} ELSE promised[f]
      BY <1>1, <1>5, Paths
    <3> QED BY <1>1, <1>5, <2>1, <3>1, <3>2, OverlayKeeps
  <2>2. CASE UNCHANGED <<dir, layer, chain>>
    <3>1. Files' /\ Chains'
      BY <1>1, <2>2, SameFiles, SameChains DEF Files, Chains
    <3> QED BY <2>2, <3>1 DEF MakingAt
  <2> QED BY <1>1, <2>1, <2>2
<1>7. \A d \in Client : at'[d] = "backup" => task'[d].kind = "backup"
  BY <1>1, <1>4 DEF TaskAt
<1>8. \A d \in Client : at'[d] \in {"image", "making"} =>
        at'[d] = at[d] /\ task'[d] = task[d] /\ making'[d] = making[d]
  BY <1>4
<1>9. MakingAt' /\ TaskAt'
  BY <1>1, <1>6, <1>7, <1>8, MakersKeep
<1>10. Explained'
  <2> SUFFICES ASSUME NEW n \in conf' \ failed'
               PROVE  \/ \E d \in Client : at'[d] = "image" /\ task'[d].vm = n
                      \/ \E d \in Client : at'[d] = "making" /\ task'[d].vm = n /\ dir'[Own(n)] = making'[d]
                      \/ dir'[Own(n)] # NoLayer /\ layer'[dir'[Own(n)]].whole
    BY DEF Explained
  <2>1. n \in conf \ failed /\ n \in Name
    BY <1>1, <1>3 DEF DiskType
  <2> QED BY <1>1, <1>4, <1>6, <2>1, ReasonKeeps
<1> QED BY <1>2, <1>6, <1>9, <1>10

\* What a guest has in its disk is in the layers that a backup copies.
LEMMA SeenInView ==
  ASSUME IInv, NEW n \in Name, NEW m \in Machine, Serves(m, n)
  PROVE  Seen(n, m) \subseteq View(m)
<1>1. QemuType /\ DiskType /\ RollbackExact /\ MineSeen
  BY Parts, TypeParts DEF Files, Chains
<1>2. chain[m] # <<>> /\ chain[m][1] = dir[Own(n)]
  BY DEF Serves
<1>3. 1 \in DOMAIN chain[m] /\ chain[m][1] \in Layer
  BY <1>1, <1>2, LastType DEF QemuType
<1>4. layer[dir[Own(n)]].data = told[n] \ lost[n]
  BY <1>1, <1>2, <1>3, DiskAssumption DEF RollbackExact, Opens
<1>5. layer[dir[Own(n)]].data \subseteq View(m)
  BY <1>1, <1>2, <1>3, ViewType
<1> QED BY <1>1, <1>4, <1>5 DEF Seen, MineSeen

\* A backup that begins copies what the guest has in its disk.
LEMMA BackupBegins ==
  ASSUME IInv, NEW f \in File, NEW n \in Name, NEW m \in Machine,
         job[m] = NoJob, Possible(Users(f)),
         dir' = [dir EXCEPT ![Users(f)] = Target(Users(f))],
         layer' = [layer EXCEPT ![Target(Users(f))] = Blank(TRUE)],
         job' = [job EXCEPT ![m] = [target |-> Target(Users(f)), file |-> f, copy |-> View(m)]],
         promised' = [promised EXCEPT ![f] = IF Serves(m, n) THEN Seen(n, m) ELSE {}],
         UNCHANGED <<chain, mine, writes, told, lost>>
  PROVE  /\ Files' /\ Chains'
         /\ \A k \in Name : /\ dir'[Own(k)] = dir[Own(k)]
                            /\ dir[Own(k)] # NoLayer => layer'[dir[Own(k)]] = layer[dir[Own(k)]]
         /\ \A d \in Client : at[d] = "making" =>
              /\ \A q \in Path : dir'[q] = making[d] => dir[q] = making[d]
              /\ \A k \in Machine : \A i \in DOMAIN chain'[k] : chain'[k][i] # making[d]
         /\ \A g \in File : dir[Users(g)] # NoLayer => dir'[Users(g)] # NoLayer
<1> USE Parts
<1> DEFINE p == Users(f)
           l == Target(p)
           new == [target |-> l, file |-> f, copy |-> View(m)]
<1>1. job'[m] = new
  BY TypeParts DEF QemuType
<1>2. DiskType /\ QemuType /\ HistoryType /\ CountType
  BY TypeParts
<1>3. Injective /\ JobAt /\ p \in Path
  BY Paths DEF Files
<1>4. /\ l \in Layer /\ l # NoLayer /\ dir'[p] = l
      /\ \A q \in Path : q # p => dir'[q] = dir[q] /\ dir'[q] # l
      /\ \A k \in Machine : \A i \in DOMAIN chain[k] : chain[k][i] # l
      /\ \A k \in Machine : job[k] # NoJob => job[k].target # l /\ Users(job[k].file) # p
      /\ \A d \in Client : at[d] = "making" => making[d] # l
      /\ Injective'
  BY <1>3, FreshFile
<1>5. /\ layer'[l] = Blank(TRUE)
      /\ \A k \in Layer : k # l => layer'[k] = layer[k]
      /\ \A q \in Path : q # p /\ dir[q] # NoLayer => layer'[dir[q]] = layer[dir[q]]
      /\ \A k \in Machine : \A i \in DOMAIN chain[k] : layer'[chain[k][i]] = layer[chain[k][i]]
  BY <1>3, FreshKeeps
<1>6. /\ new.target = l /\ new.file = f /\ new.copy = View(m)
      /\ Blank(TRUE).data = {} /\ Blank(TRUE).whole = FALSE
  BY BlankType DEF Blank
<1>7. job'[m] = new /\ \A k \in Machine : k # m => job'[k] = job[k]
  BY <1>1, <1>2 DEF QemuType
<1>8. \A k \in Machine : job[k] # NoJob => job[k].file \in File
  BY <1>2 DEF QemuType, Jobs
<1>9. /\ promised'[f] \subseteq View(m)
      /\ \A g \in File : g # f => promised'[g] = promised[g]
  BY <1>2, SeenInView DEF HistoryType
<1>10. View(m) \subseteq 0..writes
  <2>1. \A k \in Members(chain[m]) : k \in Layer
    BY <1>2 DEF Members, QemuType
  <2> QED BY <2>1 DEF View, Files, Counted
<1> HIDE DEF new, l, p
<1>11. p = Users(f)
  BY DEF p
<1>12. \A k \in Name : /\ dir'[Own(k)] = dir[Own(k)]
                       /\ dir[Own(k)] # NoLayer => layer'[dir[Own(k)]] = layer[dir[Own(k)]]
  BY <1>11, <1>4, <1>5, Paths
<1>13. Files'
  <2>1. JobAt'
    <3> SUFFICES ASSUME NEW k \in Machine, job'[k] # NoJob
                 PROVE  /\ dir'[Users(job'[k].file)] = job'[k].target
                        /\ promised'[job'[k].file] \subseteq job'[k].copy
                        /\ \A j \in Machine : \A i \in DOMAIN chain[j] : chain[j][i] # job'[k].target
      BY DEF JobAt
    <3>1. CASE k = m
      BY <1>11, <1>4, <1>6, <1>7, <1>9, <3>1
    <3>2. CASE k # m
      <4>1. job'[k] = job[k] /\ job[k].file \in File /\ Users(job[k].file) # p
        BY <1>11, <1>4, <1>7, <1>8, <3>2
      <4>2. dir'[Users(job[k].file)] = dir[Users(job[k].file)] /\ promised'[job[k].file] = promised[job[k].file]
        BY <1>11, <1>4, <1>9, <4>1, Paths
      <4> QED BY <1>3, <4>1, <4>2 DEF JobAt
    <3> QED BY <3>1, <3>2
  <2>2. Counted'
    <3>1. \A k \in Layer : layer'[k].data \subseteq 0..writes
      BY <1>11, <1>4, <1>5, <1>6 DEF Files, Counted
    <3>2. \A k \in Machine : job'[k] # NoJob => job'[k].copy \subseteq 0..writes
      BY <1>6, <1>7, <1>10 DEF Files, Counted
    <3> QED BY <3>1, <3>2 DEF Files, Counted
  <2>3. RollbackExact'
    BY <1>12 DEF Files, RollbackExact, Opens
  <2>4. ASSUME NEW g \in File, dir'[Users(g)] # NoLayer, layer'[dir'[Users(g)]].whole
        PROVE  promised'[g] \subseteq layer'[dir'[Users(g)]].data
    <3>1. g # f
      <4>1. layer'[dir'[p]].whole = FALSE
        BY <1>11, <1>4, <1>5, <1>6
      <4> QED BY <1>11, <2>4, <4>1
    <3>2. dir'[Users(g)] = dir[Users(g)] /\ layer'[dir[Users(g)]] = layer[dir[Users(g)]]
      BY <1>11, <1>4, <1>5, <2>4, <3>1, Paths
    <3> QED BY <1>9, <2>4, <3>1, <3>2 DEF Files, BackupComplete
  <2>5. BackupComplete'
    BY <2>4 DEF BackupComplete
  <2> QED BY <1>4, <2>1, <2>2, <2>3, <2>5 DEF Files
<1>14. Chains'
  <2>1. NoLayerTwice'
    BY DEF Chains, NoLayerTwice
  <2>2. Bottom'
    BY <1>12 DEF Chains, Bottom
  <2>3. MineSeen'
    BY <1>5, ViewKeeps DEF Chains, MineSeen
  <2> QED BY <2>1, <2>2, <2>3 DEF Chains
<1>15. ASSUME NEW d \in Client, at[d] = "making"
       PROVE  /\ \A q \in Path : dir'[q] = making[d] => dir[q] = making[d]
              /\ \A k \in Machine : \A i \in DOMAIN chain'[k] : chain'[k][i] # making[d]
  <2>1. making[d] # l /\ \A k \in Machine : \A i \in DOMAIN chain[k] : chain[k][i] # making[d]
    BY <1>11, <1>4, <1>15 DEF MakingAt
  <2> QED BY <1>4, <2>1
<1>16. \A g \in File : dir[Users(g)] # NoLayer => dir'[Users(g)] # NoLayer
  BY <1>11, <1>4, Paths
<1> QED BY <1>12, <1>13, <1>14, <1>15, <1>16

LEMMA DriveBackupKeeps ==
  ASSUME IInv, NEW c \in Client, DriveBackup(c)
  PROVE  IInv'
<1> USE Parts, PartsNext
<1> DEFINE n == task[c].vm
           f == task[c].file
           m == sock[n]
           l == Target(Users(f))
<1>1. /\ at[c] = "backup" /\ GoTo(c, "poll")
      /\ \/ /\ m # NoMachine
            /\ job[m] = NoJob
            /\ Possible(Users(f))
            /\ dir' = [dir EXCEPT ![Users(f)] = l]
            /\ layer' = [layer EXCEPT ![l] = Blank(TRUE)]
            /\ job' = [job EXCEPT ![m] = [target |-> l, file |-> f, copy |-> View(m)]]
            /\ promised' = [promised EXCEPT ![f] = IF Serves(m, n) THEN Seen(n, m) ELSE {}]
         \/ UNCHANGED <<dir, layer, job, promised>>
      /\ UNCHANGED <<conf, chain, mine, task, making, runs, writes, tasks, told, lost, failed>>
  BY DEF DriveBackup, diskHistory, Synced
<1>2. TypeOK'
  BY ClientTypes DEF ClientNext, Files
<1>3. ClientType /\ DiskType /\ QemuType
  BY TypeParts
<1>4. /\ at'[c] = "poll"
      /\ \A d \in Client : d # c => at'[d] = at[d] /\ task'[d] = task[d] /\ making'[d] = making[d]
  BY <1>1, <1>3, Moves
<1>5. n \in Name /\ f \in File
  <2>1. task[c] \in Task /\ task[c].kind = "backup"
    BY <1>1, AtWork DEF TaskAt
  <2> QED BY <2>1, Tasks
<1>6. /\ Files' /\ Chains'
      /\ \A k \in Name : /\ dir'[Own(k)] = dir[Own(k)]
                         /\ dir[Own(k)] # NoLayer => layer'[dir[Own(k)]] = layer[dir[Own(k)]]
      /\ \A d \in Client : at[d] = "making" =>
           /\ \A q \in Path : dir'[q] = making[d] => dir[q] = making[d]
           /\ \A k \in Machine : \A i \in DOMAIN chain'[k] : chain'[k][i] # making[d]
      /\ \A g \in File : dir[Users(g)] # NoLayer => dir'[Users(g)] # NoLayer
  <2>1. CASE UNCHANGED <<dir, layer, job, promised>>
    <3>1. Files' /\ Chains'
      BY <1>1, <2>1, SameFiles, SameChains DEF Files, Chains
    <3> QED BY <1>1, <2>1, <3>1 DEF MakingAt
  <2>2. CASE ~UNCHANGED <<dir, layer, job, promised>>
    <3>1. m \in Machine
      BY <1>1, <1>3, <1>5, <2>2 DEF QemuType
    <3> HIDE DEF n, f, m
    <3> QED BY <1>1, <1>5, <2>2, <3>1, BackupBegins
  <2> QED BY <2>1, <2>2
<1>7. \A d \in Client : at'[d] = "backup" => task'[d].kind = "backup"
  BY <1>1, <1>4 DEF TaskAt
<1>8. \A d \in Client : at'[d] \in {"image", "making"} =>
        at'[d] = at[d] /\ task'[d] = task[d] /\ making'[d] = making[d]
  BY <1>4
<1>9. MakingAt' /\ TaskAt'
  BY <1>1, <1>6, <1>7, <1>8, MakersKeep
<1>10. Explained'
  <2> SUFFICES ASSUME NEW k \in conf' \ failed'
               PROVE  \/ \E d \in Client : at'[d] = "image" /\ task'[d].vm = k
                      \/ \E d \in Client : at'[d] = "making" /\ task'[d].vm = k /\ dir'[Own(k)] = making'[d]
                      \/ dir'[Own(k)] # NoLayer /\ layer'[dir'[Own(k)]].whole
    BY DEF Explained
  <2>1. k \in conf \ failed /\ k \in Name
    BY <1>1, <1>3 DEF DiskType
  <2> QED BY <1>1, <1>4, <1>6, <2>1, ReasonKeeps
<1> QED BY <1>2, <1>6, <1>9, <1>10

-----------------------------------------------------------------------------
(* Theorems.                                                               *)

LEMMA Initial ==
  ASSUME Init
  PROVE  IInv
<1>1. DiskType
  <2>1. dir \in [Path -> Layer \cup {NoLayer}]
    <3>1. \A p \in Path : p[1] = "file" => p[2] \in File
      BY DEF Path, Own, Temp, Users
    <3> QED BY <3>1, DiskAssumption DEF Init
  <2>2. [data |-> {0}, whole |-> TRUE, plain |-> TRUE] \in Layers
    BY DiskAssumption DEF Layers, Write
  <2> QED BY <2>1, <2>2 DEF Init, DiskType
<1>2. QemuType
  BY DEF Init, QemuType
<1>3. ClientType /\ CountType /\ HistoryType
  BY DiskAssumption DEF Init, ClientType, CountType, HistoryType, Places
<1>4. TypeOK
  BY <1>1, <1>2, <1>3, TypeParts
<1>5. \A n \in Name : dir[Own(n)] = NoLayer /\ dir[Temp(n)] = NoLayer
  BY Paths DEF Init, Own, Temp
<1>6. \A f \in File : dir[Users(f)] = Given[f]
  BY Paths DEF Init, Users
<1>7. Injective
  <2> SUFFICES ASSUME NEW p \in Path, NEW q \in Path, dir[p] = dir[q], dir[p] # NoLayer
               PROVE  p = q
    BY DEF Injective
  <2>1. PICK f \in File : p = Users(f)
    BY <1>5 DEF Path
  <2>2. PICK g \in File : q = Users(g)
    BY <1>5 DEF Path
  <2> QED BY <1>6, <2>1, <2>2, DiskAssumption
<1>8. \A m \in Machine : DOMAIN chain[m] = {} /\ job[m] = NoJob /\ mine[m] = {}
  BY DEF Init
<1>9. \A c \in Client : at[c] = "idle"
  BY DEF Init
<1>10. NoLayerTwice /\ Bottom /\ JobAt /\ MakingAt /\ TaskAt /\ MineSeen
  BY <1>8, <1>9 DEF NoLayerTwice, Bottom, JobAt, MakingAt, TaskAt, MineSeen
<1>11. Counted
  BY <1>8 DEF Init, Counted
<1>12. RollbackExact /\ BackupComplete /\ Explained
  BY <1>5 DEF Init, RollbackExact, BackupComplete, Explained, Opens
<1> QED BY <1>4, <1>7, <1>10, <1>11, <1>12 DEF IInv

\* Every step keeps the invariant, and so does a step that changes nothing.
LEMMA Inductive ==
  ASSUME IInv, [Next]_vars
  PROVE  IInv'
<1>1. ASSUME NEW c \in Client, ClientNext(c)
      PROVE  IInv'
  BY <1>1, BeginCreateKeeps, BeginBackupKeeps, MakeImageKeeps, NoImageKeeps, ImageMadeKeeps,
     InstallKeeps, DriveBackupKeeps, KilledKeeps DEF ClientNext
<1>2. ASSUME NEW n \in Name, VmNext(n)
      PROVE  IInv'
  BY <1>2, DeleteKeeps, StartKeeps, TakeSnapshotKeeps DEF VmNext
<1>3. ASSUME NEW m \in Machine, MachineNext(m)
      PROVE  IInv'
  BY <1>3, GuestWritesKeeps, JobEndsKeeps, EndsKeeps DEF MachineNext
<1>4. CASE UNCHANGED vars
  <2>1. UNCHANGED <<conf, dir, layer, chain, job, sock, mine, at, task, making, runs, writes, tasks,
                    told, lost, failed, promised>>
    BY <1>4 DEF vars, procVars, clientVars, diskHistory
  <2>2. TypeOK'
    <3>1. DiskType' /\ QemuType' /\ ClientType' /\ CountType' /\ HistoryType'
      BY <2>1, Parts, TypeParts DEF DiskType, QemuType, ClientType, CountType, HistoryType
    <3> QED BY <3>1, TypePartsNext
  <2>3. Files' /\ Chains'
    BY <2>1, Parts, SameFiles, SameChains DEF Files, Chains
  <2>4. MakingAt' /\ TaskAt' /\ Explained'
    BY <2>1, Parts DEF MakingAt, TaskAt, Explained
  <2> QED BY <2>2, <2>3, <2>4, PartsNext
<1> QED BY <1>1, <1>2, <1>3, <1>4 DEF Next

(* The inductive invariant holds in every behaviour: the facts about layers,
   QEMU processes and clients from which the properties below follow. *)
THEOREM Invariance == Spec => []IInv
<1>1. Init => IInv
  BY Initial
<1>2. IInv /\ [Next]_vars => IInv'
  BY Inductive
<1> QED BY <1>1, <1>2, PTL DEF Spec

\* Every variable has its type: in particular, a process that is about nothing
\* has no task, and a monitor socket that is connected leads to a process that runs.
THEOREM TypeCorrect == Spec => []TypeOK
<1>1. IInv => TypeOK
  BY DEF IInv
<1> QED BY <1>1, Invariance, PTL

\* For any number of VMs, processes, files and layers, and in whatever order
\* they are created, started, snapshotted, backed up, deleted and killed: the
\* next start of a VM finds what its guests wrote before any snapshot.
THEOREM RollbackIsExact == Spec => []RollbackExact
<1>1. IInv => RollbackExact
  BY DEF IInv
<1> QED BY <1>1, Invariance, PTL

\* A backup that ended has all that the guest had in its disk when it began.
THEOREM BackupIsComplete == Spec => []BackupComplete
<1>1. IInv => BackupComplete
  BY DEF IInv
<1> QED BY <1>1, Invariance, PTL

\* A VM that is registered and not being created has all of its disk, or its
\* creation failed.
THEOREM DiskIsExplained == Spec => []DiskExplained
<1>1. IInv => DiskExplained
  BY DEF IInv, Explained, DiskExplained
<1> QED BY <1>1, Invariance, PTL
=============================================================================
