---------------------------- MODULE VmLife_proof ----------------------------
(***************************************************************************)
(* Proofs about VmLife: for any number of users, virtual machines, pids    *)
(* and crashes, the pid file and the socket lead to the QEMU process of a  *)
(* VM, of which there is only one.                                         *)
(***************************************************************************)
EXTENDS VmLife, FiniteSetTheorems, TLAPS

\* The process that got through its start.
Serves(p, n) == IsQemu(p, n) /\ proc[p].mode \in {"running", "paused"}

(***************************************************************************)
(* A lock is held, and a socket listened at, only by a process of that VM; *)
(* the pid file names the holder of the lock, unless that has died; and,   *)
(* as long as its files are left alone, every process that runs has both.  *)
(* Every menu but the list is about a VM.                                  *)
(***************************************************************************)
LockHeld == \A n \in Name : lock[n] # NoPid => Serves(lock[n], n)
SockHeld == \A n \in Name : sock[n] # NoPid => Serves(sock[n], n)
HasBoth == \A n \in Name \ orphaned : \A p \in Pid :
             Serves(p, n) => lock[n] = p /\ sock[n] = p
VmChosen == \A c \in Client : at[c] # "list" => vm[c] \in Name
IInv == TypeOK /\ VmChosen /\ LockHeld /\ SockHeld /\ PidFileTrue /\ HasBoth

\* A process is not somebody's else, and not another VM's.
LEMMA Kinds ==
  ASSUME NEW n \in Name, NEW m \in Mode
  PROVE  /\ Qemu(n, m) \notin {Free, Other} /\ Free # Other
         /\ Qemu(n, m).kind = "qemu" /\ Qemu(n, m).vm = n /\ Qemu(n, m).mode = m
         /\ Free.kind # "qemu" /\ Other.kind # "qemu"
<1>1. Qemu(n, m).kind = "qemu" /\ Qemu(n, m).vm = n /\ Qemu(n, m).mode = m
  BY DEF Qemu
<1>2. Free.kind = "free" /\ Other.kind = "other"
  BY DEF Free, Other
<1> QED BY <1>1, <1>2

\* A process that is somebody's is one of that VM, in one of its modes.
LEMMA Shape ==
  ASSUME TypeOK, NEW p \in Pid, proc[p].kind = "qemu"
  PROVE  \E n \in Name : \E m \in Mode : proc[p] = Qemu(n, m) /\ proc[p].vm = n /\ proc[p].mode = m
<1>1. proc[p] \in {Free, Other} \cup {Qemu(n, m) : n \in Name, m \in Mode}
  BY DEF TypeOK, Process
<1>2. Free.kind # "qemu" /\ Other.kind # "qemu"
  BY DEF Free, Other
<1>3. PICK n \in Name, m \in Mode : proc[p] = Qemu(n, m)
  BY <1>1, <1>2
<1> QED BY <1>3, Kinds

LEMMA IInvInit == Init => IInv
<1> SUFFICES ASSUME Init PROVE IInv
  OBVIOUS
<1>1. TypeOK
  BY LifeAssumption DEF Init, TypeOK, Process
<1>2. \A p \in Pid : proc[p].kind # "qemu"
  BY DEF Init, Free, Other
<1> QED BY <1>1, <1>2 DEF Init, IInv, VmChosen, LockHeld, SockHeld, PidFileTrue, HasBoth, Serves, IsQemu

-----------------------------------------------------------------------------
(* Types, and what the menus are about.                                    *)

LEMMA MenuType ==
  ASSUME TypeOK, VmChosen, NEW c \in Client, ToList(c) \/ AfterManage(c), at[c] # "list"
  PROVE  /\ at' \in [Client -> {"list", "start", "saved", "manage", "asked", "kill"}]
         /\ vm' \in [Client -> Name \cup {NoName}]
         /\ sawPaused' \in [Client -> BOOLEAN]
         /\ victim' \in [Client -> Pid \cup {NoPid}]
         /\ VmChosen'
<1> USE DEF TypeOK, VmChosen
<1>1. CASE ToList(c)
  BY <1>1 DEF ToList, GoTo
<1>2. CASE AfterManage(c)
  <2>1. CASE ToList(c)
    BY <1>1, <2>1
  <2>2. CASE GoTo(c, "manage") /\ victim' = [victim EXCEPT ![c] = NoPid]
             /\ UNCHANGED <<vm, sawPaused>>
    BY <2>2 DEF GoTo
  <2> QED BY <1>2, <2>1, <2>2 DEF AfterManage
<1> QED BY <1>1, <1>2

LEMMA FreeType == {Free, Other} \subseteq Process
BY DEF Process

LEMMA ProcType ==
  ASSUME TypeOK, NEW p, NEW v \in Process
  PROVE  [proc EXCEPT ![p] = v] \in [Pid -> Process]
BY DEF TypeOK

LEMMA DiesType ==
  ASSUME TypeOK, NEW p, Dies(p)
  PROVE  /\ proc' \in [Pid -> Process]
         /\ conf' \subseteq Name
         /\ pidfile' \in [Name -> Pid \cup {NoPid}]
         /\ lock' \in [Name -> Pid \cup {NoPid}]
         /\ sock' \in [Name -> Pid \cup {NoPid}]
         /\ stale' \subseteq Name
<1>1. Free \in Process
  BY DEF Process
<1>2. proc' \in [Pid -> Process]
  BY <1>1, ProcType DEF Dies
<1>3. lock' \in [Name -> Pid \cup {NoPid}] /\ sock' \in [Name -> Pid \cup {NoPid}]
  BY DEF TypeOK, Dies
<1>4. stale' \subseteq Name /\ conf' \subseteq Name /\ pidfile' \in [Name -> Pid \cup {NoPid}]
  BY DEF TypeOK, Dies
<1> QED BY <1>2, <1>3, <1>4

LEMMA SetModeType ==
  ASSUME TypeOK, NEW n \in Name, NEW m \in Mode, SetMode(n, m)
  PROVE  proc' \in [Pid -> Process]
<1>1. Qemu(n, m) \in Process
  BY DEF Process
<1> QED BY <1>1, ProcType DEF SetMode, TypeOK

LEMMA TypeNext == IInv /\ [Next]_vars => TypeOK' /\ VmChosen'
<1> SUFFICES ASSUME TypeOK, VmChosen, [Next]_vars PROVE TypeOK' /\ VmChosen'
  BY DEF IInv
<1>1. ASSUME NEW c \in Client, NEW n \in Name, Select(c, n)
      PROVE  TypeOK' /\ VmChosen'
  BY <1>1 DEF Select, GoTo, Answers, TypeOK, VmChosen, fileVars, boundVars
<1>2. ASSUME NEW c \in Client, NEW n \in Name, DeleteVm(c, n)
      PROVE  TypeOK' /\ VmChosen'
  <2>1. CASE ToList(c)
    BY <1>2, <2>1 DEF DeleteVm, ToList, GoTo, TypeOK, VmChosen, boundVars
  <2>2. CASE UNCHANGED clientVars
    BY <1>2, <2>2 DEF DeleteVm, TypeOK, VmChosen, clientVars, boundVars
  <2> QED BY <1>2, <2>1, <2>2 DEF DeleteVm
<1>3. ASSUME NEW c \in Client, NEW n \in Name, AddVm(c, n)
      PROVE  TypeOK' /\ VmChosen'
  BY <1>3 DEF AddVm, TypeOK, VmChosen, clientVars, boundVars
<1>4. ASSUME NEW c \in Client, NEW n \in Name, SaveVm(c, n)
      PROVE  TypeOK' /\ VmChosen'
  <2>1. CASE UNCHANGED clientVars
    BY <1>4, <2>1 DEF SaveVm, TypeOK, VmChosen, clientVars, boundVars
  <2>2. CASE ToList(c)
    BY <1>4, <2>2 DEF SaveVm, ToList, GoTo, TypeOK, VmChosen, boundVars
  <2>3. CASE GoTo(c, "saved") /\ UNCHANGED <<vm, sawPaused, victim>> /\ Ui[c] = "xdialog"
    <3>1. vm[c] \in Name
      BY <1>4, <2>3 DEF SaveVm, VmChosen
    <3> QED BY <1>4, <2>3, <3>1 DEF SaveVm, GoTo, TypeOK, VmChosen, boundVars
  <2>4. Ui[c] \in {"cli", "term", "xdialog"}
    BY LifeAssumption
  <2> QED BY <1>4, <2>1, <2>2, <2>3, <2>4 DEF SaveVm
<1>5. ASSUME NEW c \in Client, NEW n \in Name, NEW p \in Pid, StartVm(c, n, p)
      PROVE  TypeOK' /\ VmChosen'
  <2>1. starts' \in 0..MaxStarts
    BY <1>5, LifeAssumption DEF StartVm, TypeOK
  <2>2. proc' \in [Pid -> Process]
    BY <1>5 DEF StartVm, TypeOK, Mode, Process
  <2>3. CASE ToList(c)
    BY <1>5, <2>1, <2>2, <2>3 DEF StartVm, Record, ToList, GoTo, TypeOK, VmChosen
  <2>4. CASE UNCHANGED clientVars
    BY <1>5, <2>1, <2>2, <2>4 DEF StartVm, Record, TypeOK, VmChosen, clientVars
  <2> QED BY <1>5, <2>3, <2>4 DEF StartVm
<1>6. ASSUME NEW c \in Client, Back(c)
      PROVE  TypeOK' /\ VmChosen'
  BY <1>6, MenuType DEF Back, TypeOK, fileVars, boundVars
<1>7. ASSUME NEW c \in Client, Pause(c) \/ Resume(c)
      PROVE  TypeOK' /\ VmChosen'
  <2>1. vm[c] \in Name
    BY <1>7 DEF Pause, Resume, VmChosen
  <2>2. proc' \in [Pid -> Process]
    BY <1>7, <2>1, SetModeType DEF Pause, Resume, Mode
  <2>3. AfterManage(c) /\ at[c] # "list"
    BY <1>7 DEF Pause, Resume
  <2> QED BY <1>7, <2>2, <2>3, MenuType DEF Pause, Resume, TypeOK, fileVars, boundVars
<1>8. ASSUME NEW c \in Client, KillAsk(c)
      PROVE  TypeOK' /\ VmChosen'
  BY <1>8 DEF KillAsk, GoTo, TypeOK, VmChosen, fileVars, boundVars
<1>9. ASSUME NEW c \in Client, KillRead(c)
      PROVE  TypeOK' /\ VmChosen'
  <2>1. vm[c] \in Name /\ at[c] # "list"
    BY <1>9 DEF KillRead, VmChosen
  <2>2. CASE AfterManage(c)
    BY <1>9, <2>1, <2>2, MenuType DEF KillRead, TypeOK, fileVars, boundVars
  <2>3. CASE victim' = [victim EXCEPT ![c] = pidfile[vm[c]]] /\ GoTo(c, "kill")
             /\ UNCHANGED <<vm, sawPaused>>
    BY <1>9, <2>1, <2>3 DEF KillRead, GoTo, TypeOK, VmChosen, fileVars, boundVars
  <2> QED BY <1>9, <2>2, <2>3 DEF KillRead
<1>10. ASSUME NEW c \in Client, KillSend(c)
       PROVE  TypeOK' /\ VmChosen'
  <2>1. AfterManage(c) /\ at[c] # "list" /\ UNCHANGED <<boundVars, orphaned>>
    BY <1>10 DEF KillSend
  <2>2. CASE UNCHANGED <<proc, fileVars, stale>>
    BY <2>1, <2>2, MenuType DEF TypeOK, fileVars, boundVars
  <2>3. CASE Dies(victim[c])
    BY <2>1, <2>3, DiesType, MenuType DEF TypeOK, boundVars
  <2> QED BY <1>10, <2>2, <2>3 DEF KillSend
<1>11. ASSUME NEW p \in Pid, Claim(p)
       PROVE  TypeOK' /\ VmChosen'
  <2>1. proc[p].vm \in Name
    BY <1>11, Shape DEF Claim
  <2>2. proc' \in [Pid -> Process]
    BY <1>11, <2>1 DEF Claim, TypeOK, Mode, Process
  <2>3. /\ pidfile' \in [Name -> Pid \cup {NoPid}] /\ lock' \in [Name -> Pid \cup {NoPid}]
        /\ sock' \in [Name -> Pid \cup {NoPid}] /\ stale' \subseteq Name
    BY <1>11, <2>1 DEF Claim, Arguments, TypeOK
  <2>4. UNCHANGED <<conf, clientVars, boundVars, orphaned>>
    BY <1>11 DEF Claim
  <2> QED BY <2>2, <2>3, <2>4 DEF TypeOK, VmChosen, clientVars, boundVars
<1>12. ASSUME NEW p \in Pid, PowerOff(p)
       PROVE  TypeOK' /\ VmChosen'
  <2>1. proc' \in [Pid -> Process]
    BY <1>12, ProcType, FreeType DEF PowerOff
  <2> QED BY <1>12, <2>1 DEF PowerOff, TypeOK, VmChosen, clientVars, boundVars
<1>13. ASSUME NEW p \in Pid, Crash(p)
       PROVE  TypeOK' /\ VmChosen'
  <2>1. crashes' \in 0..MaxCrash
    BY <1>13, LifeAssumption DEF Crash, TypeOK
  <2> QED BY <1>13, <2>1, DiesType DEF Crash, TypeOK, VmChosen, clientVars
<1>14. ASSUME NEW p \in Pid, OtherBegins(p) \/ OtherEnds(p)
       PROVE  TypeOK' /\ VmChosen'
  <2>1. proc' \in [Pid -> Process]
    BY <1>14, ProcType, FreeType DEF OtherBegins, OtherEnds
  <2> QED
    BY <1>14, <2>1
       DEF OtherBegins, OtherEnds, TypeOK, VmChosen, fileVars, clientVars, boundVars
<1>15. CASE UNCHANGED vars
  BY <1>15 DEF vars, TypeOK, VmChosen, fileVars, clientVars, boundVars
<1> QED
  BY <1>1, <1>2, <1>3, <1>4, <1>5, <1>6, <1>7, <1>8, <1>9, <1>10, <1>11, <1>12, <1>13,
     <1>14, <1>15 DEF Next, ClientNext, MachineNext

-----------------------------------------------------------------------------
(* The files and the processes.                                            *)

FilesOk == LockHeld /\ SockHeld /\ PidFileTrue /\ HasBoth

\* As long as the same processes serve the same VMs, the files go on telling
\* the truth.
LEMMA SameFiles ==
  ASSUME TypeOK, FilesOk, UNCHANGED <<pidfile, lock, sock, stale, orphaned>>,
         \A p \in Pid, n \in Name : Serves(p, n)' <=> Serves(p, n)
  PROVE  FilesOk'
<1> USE DEF FilesOk, TypeOK
<1>1. LockHeld'
  BY DEF LockHeld
<1>2. SockHeld'
  BY DEF SockHeld
<1>3. PidFileTrue'
  BY <1>1 DEF PidFileTrue, LockHeld, Serves
<1>4. HasBoth'
  BY DEF HasBoth
<1> QED BY <1>1, <1>2, <1>3, <1>4

\* Who is not concerned by a change of one process.
LEMMA OthersServe ==
  ASSUME TypeOK, NEW p, NEW v, proc' = [proc EXCEPT ![p] = v],
         NEW q \in Pid, q # p, NEW n
  PROVE  (Serves(q, n)' <=> Serves(q, n)) /\ (IsQemu(q, n)' <=> IsQemu(q, n))
BY DEF Serves, IsQemu, TypeOK

LEMMA DiesFiles ==
  ASSUME TypeOK, FilesOk, NEW p, Dies(p), orphaned' = orphaned
  PROVE  FilesOk'
<1> USE DEF FilesOk, TypeOK
<1>1. proc' = [proc EXCEPT ![p] = Free]
  BY DEF Dies
<1>2. \A n \in Name : lock'[n] # NoPid => lock'[n] = lock[n] /\ lock[n] # p
  BY DEF Dies
<1>3. \A n \in Name : sock'[n] # NoPid => sock'[n] = sock[n] /\ sock[n] # p
  BY DEF Dies
<1>4. LockHeld'
  BY <1>1, <1>2, OthersServe DEF LockHeld
<1>5. SockHeld'
  BY <1>1, <1>3, OthersServe DEF SockHeld
<1>6. PidFileTrue'
  <2> SUFFICES ASSUME NEW n \in Name, n \notin stale', pidfile'[n] # NoPid
               PROVE  (IsQemu(pidfile[n], n) /\ lock[n] = pidfile[n])'
    BY DEF PidFileTrue
  <2>1. n \notin stale /\ lock[n] # p /\ pidfile'[n] = pidfile[n] /\ lock'[n] = lock[n]
    BY DEF Dies
  <2>2. lock[n] = pidfile[n]
    BY <2>1 DEF PidFileTrue
  <2> QED BY <2>1, <2>2, <1>4 DEF LockHeld, Serves
<1>7. HasBoth'
  <2> SUFFICES ASSUME NEW n \in Name \ orphaned, NEW q \in Pid, Serves(q, n)'
               PROVE  lock'[n] = q /\ sock'[n] = q
    BY DEF HasBoth
  <2>1. q # p
    BY <1>1 DEF Serves, IsQemu, Free
  <2>2. lock[n] = q /\ sock[n] = q
    BY <1>1, <2>1, OthersServe DEF HasBoth
  <2> QED BY <2>1, <2>2 DEF Dies
<1> QED BY <1>4, <1>5, <1>6, <1>7

LEMMA SetModeFiles ==
  ASSUME TypeOK, FilesOk, NEW n \in Name, NEW m \in {"running", "paused"}, SetMode(n, m),
         UNCHANGED <<pidfile, lock, sock, stale, orphaned>>
  PROVE  FilesOk'
<1>1. ASSUME NEW q \in Pid, NEW k \in Name
      PROVE  Serves(q, k)' <=> Serves(q, k)
  <2>1. CASE ~Answers(n)
    BY <2>1 DEF SetMode, Serves, IsQemu
  <2>2. CASE Answers(n)
    <3>1. proc' = [proc EXCEPT ![sock[n]] = Qemu(n, m)] /\ Serves(sock[n], n)
      BY <2>2 DEF SetMode, Answers, FilesOk, SockHeld
    <3>2. CASE q = sock[n]
      BY <3>1, <3>2 DEF Serves, IsQemu, TypeOK, Qemu
    <3>3. CASE q # sock[n]
      BY <3>1, <3>3, OthersServe
    <3> QED BY <3>2, <3>3
  <2> QED BY <2>1, <2>2
<1> QED BY <1>1, SameFiles

LEMMA StartFiles ==
  ASSUME TypeOK, FilesOk, NEW c \in Client, NEW n \in Name, NEW p \in Pid, StartVm(c, n, p)
  PROVE  FilesOk'
<1>1. proc[p] = Free /\ proc' = [proc EXCEPT ![p] = Qemu(n, "starting")]
  BY DEF StartVm
<1>2. \A q \in Pid, k \in Name : Serves(q, k)' <=> Serves(q, k)
  <2> SUFFICES ASSUME NEW q \in Pid, NEW k \in Name PROVE Serves(q, k)' <=> Serves(q, k)
    OBVIOUS
  <2>1. CASE q = p
    BY <1>1, <2>1 DEF Serves, IsQemu, TypeOK, Qemu, Free
  <2>2. CASE q # p
    BY <1>1, <2>2, OthersServe
  <2> QED BY <2>1, <2>2
<1> QED BY <1>2, SameFiles DEF StartVm, Record

LEMMA DeleteFiles ==
  ASSUME TypeOK, FilesOk, NEW c \in Client, NEW n \in Name, DeleteVm(c, n)
  PROVE  FilesOk'
<1> USE DEF FilesOk, TypeOK
<1>1. proc' = proc /\ pidfile' = [pidfile EXCEPT ![n] = NoPid]
      /\ lock' = [lock EXCEPT ![n] = NoPid] /\ sock' = [sock EXCEPT ![n] = NoPid]
      /\ stale' = stale \ {n}
  BY DEF DeleteVm
<1>2. \A q, k : (Serves(q, k)' <=> Serves(q, k)) /\ (IsQemu(q, k)' <=> IsQemu(q, k))
  BY <1>1 DEF Serves, IsQemu
<1>3. LockHeld' /\ SockHeld'
  BY <1>1, <1>2 DEF LockHeld, SockHeld
<1>4. PidFileTrue'
  BY <1>1, <1>2 DEF PidFileTrue
<1>5. HasBoth'
  <2>1. orphaned \subseteq orphaned' /\ (n \notin orphaned' => \A p \in Pid : ~IsQemu(p, n))
    BY DEF DeleteVm
  <2> QED BY <1>1, <1>2, <2>1 DEF HasBoth, Serves
<1> QED BY <1>3, <1>4, <1>5

LEMMA ClaimFiles ==
  ASSUME TypeOK, FilesOk, NEW p \in Pid, Claim(p)
  PROVE  FilesOk'
<1> USE DEF FilesOk, TypeOK
<1>1. PICK n \in Name : proc[p] = Qemu(n, "starting") /\ proc[p].vm = n
  BY Shape DEF Claim
<1>2. \A k : ~Serves(p, k)
  BY <1>1 DEF Serves, Claim
<1>3. \A k \in Name : lock[k] # p /\ sock[k] # p
  BY <1>2, LifeAssumption DEF LockHeld, SockHeld
<1>4. orphaned' = orphaned
  BY DEF Claim
<1>5. CASE lock[n] = NoPid
  <2>1. /\ proc' = [proc EXCEPT ![p] = Qemu(n, "running")]
        /\ pidfile' = [pidfile EXCEPT ![n] = p] /\ lock' = [lock EXCEPT ![n] = p]
        /\ sock' = [sock EXCEPT ![n] = p] /\ stale' = stale \ {n}
    BY <1>1, <1>5 DEF Claim, Arguments
  <2>2. \A k : Serves(p, k)' <=> k = n
    BY <2>1 DEF Serves, IsQemu, Qemu
  <2>3. \A q \in Pid \ {p}, k \in Name : Serves(q, k)' <=> Serves(q, k)
    BY <2>1, OthersServe
  <2>4. LockHeld' /\ SockHeld'
    BY <1>3, <2>1, <2>2, <2>3 DEF LockHeld, SockHeld
  <2>5. PidFileTrue'
    <3> SUFFICES ASSUME NEW k \in Name, k \notin stale', pidfile'[k] # NoPid
                 PROVE  (IsQemu(pidfile[k], k) /\ lock[k] = pidfile[k])'
      BY DEF PidFileTrue
    <3>1. lock'[k] = pidfile'[k]
      BY <2>1 DEF PidFileTrue
    <3> QED BY <3>1, <2>4 DEF LockHeld, Serves
  <2>6. HasBoth'
    <3> SUFFICES ASSUME NEW k \in Name \ orphaned, NEW q \in Pid, Serves(q, k)'
                 PROVE  lock'[k] = q /\ sock'[k] = q
      BY <1>4 DEF HasBoth
    <3>1. CASE k = n
      BY <1>5, <2>1, <2>3, <3>1, LifeAssumption DEF HasBoth
    <3>2. CASE k # n
      BY <2>1, <2>2, <2>3, <3>2 DEF HasBoth
    <3> QED BY <3>1, <3>2
  <2> QED BY <2>4, <2>5, <2>6
<1>6. CASE lock[n] # NoPid
  <2>1. proc' = [proc EXCEPT ![p] = Free] /\ UNCHANGED <<pidfile, lock, sock, stale>>
    BY <1>1, <1>6 DEF Claim, Arguments
  <2>2. \A k : ~Serves(p, k)'
    BY <2>1 DEF Serves, IsQemu, Free
  <2>3. \A q \in Pid, k \in Name : Serves(q, k)' <=> Serves(q, k)
    BY <1>2, <2>1, <2>2, OthersServe
  <2> QED BY <1>4, <2>1, <2>3, SameFiles
<1> QED BY <1>5, <1>6

LEMMA PowerOffFiles ==
  ASSUME TypeOK, FilesOk, NEW p \in Pid, PowerOff(p)
  PROVE  FilesOk'
<1> USE DEF FilesOk, TypeOK
<1>1. PICK n \in Name : proc[p].vm = n /\ Serves(p, n) /\ \A k : Serves(p, k) => k = n
  <2>1. proc[p].kind = "qemu" /\ proc[p].mode = "running"
    BY DEF PowerOff
  <2>2. PICK n \in Name : proc[p].vm = n
    BY <2>1, Shape
  <2> QED BY <2>1, <2>2 DEF Serves, IsQemu
<1>2. /\ proc' = [proc EXCEPT ![p] = Free] /\ orphaned' = orphaned
      /\ pidfile' = [pidfile EXCEPT ![n] = NoPid] /\ lock' = [lock EXCEPT ![n] = NoPid]
      /\ sock' = [sock EXCEPT ![n] = NoPid] /\ stale' = stale \ {n}
  BY <1>1 DEF PowerOff
<1>3. \A k : ~Serves(p, k)'
  BY <1>2 DEF Serves, IsQemu, Free
<1>4. \A q \in Pid \ {p}, k \in Name : Serves(q, k)' <=> Serves(q, k)
  BY <1>2, OthersServe
<1>5. LockHeld'
  BY <1>1, <1>2, <1>4 DEF LockHeld
<1>6. SockHeld'
  BY <1>1, <1>2, <1>4 DEF SockHeld
<1>7. PidFileTrue'
  <2> SUFFICES ASSUME NEW k \in Name, k \notin stale', pidfile'[k] # NoPid
               PROVE  (IsQemu(pidfile[k], k) /\ lock[k] = pidfile[k])'
    BY DEF PidFileTrue
  <2>1. lock'[k] = pidfile'[k]
    BY <1>2 DEF PidFileTrue
  <2> QED BY <2>1, <1>5 DEF LockHeld, Serves
<1>8. HasBoth'
  BY <1>1, <1>2, <1>3, <1>4 DEF HasBoth
<1> QED BY <1>5, <1>6, <1>7, <1>8

LEMMA FilesNext == IInv /\ [Next]_vars => FilesOk'
<1> SUFFICES ASSUME TypeOK, VmChosen, FilesOk, [Next]_vars PROVE FilesOk'
  BY DEF IInv, FilesOk
<1>1. CASE proc' = proc /\ UNCHANGED <<pidfile, lock, sock, stale, orphaned>>
  BY <1>1, SameFiles DEF Serves, IsQemu
<1>2. ASSUME NEW c \in Client, NEW n \in Name, DeleteVm(c, n)
      PROVE  FilesOk'
  BY <1>2, DeleteFiles
<1>3. ASSUME NEW c \in Client, NEW n \in Name, NEW p \in Pid, StartVm(c, n, p)
      PROVE  FilesOk'
  BY <1>3, StartFiles
<1>4. ASSUME NEW c \in Client, Pause(c) \/ Resume(c)
      PROVE  FilesOk'
  <2>1. vm[c] \in Name
    BY <1>4 DEF Pause, Resume, VmChosen
  <2> QED BY <1>4, <2>1, SetModeFiles DEF Pause, Resume, fileVars
<1>5. ASSUME NEW c \in Client, KillSend(c)
      PROVE  FilesOk'
  BY <1>1, <1>5, DiesFiles DEF KillSend, fileVars
<1>6. ASSUME NEW p \in Pid, Claim(p)
      PROVE  FilesOk'
  BY <1>6, ClaimFiles
<1>7. ASSUME NEW p \in Pid, PowerOff(p)
      PROVE  FilesOk'
  BY <1>7, PowerOffFiles
<1>8. ASSUME NEW p \in Pid, Crash(p)
      PROVE  FilesOk'
  BY <1>8, DiesFiles DEF Crash
<1>9. ASSUME NEW p \in Pid, OtherBegins(p) \/ OtherEnds(p)
      PROVE  FilesOk'
  <2>1. PICK v \in {Free, Other} : proc[p] \in {Free, Other} /\ proc' = [proc EXCEPT ![p] = v]
    BY <1>9 DEF OtherBegins, OtherEnds
  <2>2. \A k : ~Serves(p, k) /\ ~Serves(p, k)'
    BY <2>1 DEF Serves, IsQemu, Free, Other, TypeOK
  <2>3. \A q \in Pid, k \in Name : Serves(q, k)' <=> Serves(q, k)
    BY <2>1, <2>2, OthersServe
  <2> QED BY <1>9, <2>3, SameFiles DEF OtherBegins, OtherEnds, fileVars
<1>10. ASSUME NEW c \in Client,
              \/ \E n \in Name : Select(c, n) \/ AddVm(c, n) \/ SaveVm(c, n)
              \/ Back(c) \/ KillAsk(c) \/ KillRead(c)
       PROVE  FilesOk'
  BY <1>1, <1>10 DEF Select, AddVm, SaveVm, Back, KillAsk, KillRead, fileVars
<1>11. CASE UNCHANGED vars
  BY <1>1, <1>11 DEF vars, fileVars
<1> QED
  BY <1>2, <1>3, <1>4, <1>5, <1>6, <1>7, <1>8, <1>9, <1>10, <1>11
     DEF Next, ClientNext, MachineNext

-----------------------------------------------------------------------------
\* The state of the files and processes is always well formed.
THEOREM Invariance == Spec => []IInv
<1>1. IInv /\ [Next]_vars => IInv'
  BY TypeNext, FilesNext DEF IInv, FilesOk
<1> QED BY <1>1, IInvInit, PTL DEF Spec

THEOREM TypeCorrect == Spec => []TypeOK
BY Invariance, PTL DEF IInv

\* The pid that ImageKill reads is that of a QEMU process of this VM, unless
\* such a process died without removing its pid file.
THEOREM PidFileIsTrue == Spec => []PidFileTrue
BY Invariance, PTL DEF IInv

\* At most one QEMU process serves a VM, unless it was deleted while running.
THEOREM OneQemu == Spec => []OneQemuPerVm
<1>1. IInv => OneQemuPerVm
  <2> SUFFICES ASSUME IInv, NEW n \in Name \ orphaned
               PROVE  Cardinality(Up(n)) <= 1
    BY DEF OneQemuPerVm
  <2>1. \A p \in Up(n) : p = lock[n]
    <3> SUFFICES ASSUME NEW p \in Pid, IsQemu(p, n), proc[p].mode # "starting"
                 PROVE  p = lock[n]
      BY DEF Up
    <3>1. Serves(p, n)
      BY Shape DEF IInv, Serves, IsQemu, Mode
    <3> QED BY <3>1 DEF IInv, HasBoth
  <2>2. Up(n) \subseteq {lock[n]}
    BY <2>1
  <2>3. Cardinality({lock[n]}) = 1 /\ IsFiniteSet({lock[n]})
    BY FS_Singleton
  <2> QED BY <2>2, <2>3, FS_Subset
<1> QED BY <1>1, Invariance, PTL

\* It listens at the VM's socket, so that every front end finds it.
THEOREM Found == Spec => []RunningIsFound
<1>1. IInv => RunningIsFound
  <2> SUFFICES ASSUME IInv, NEW n \in Name \ orphaned, NEW p \in Pid, IsQemu(p, n),
                      proc[p].mode # "starting"
               PROVE  sock[n] = p
    BY DEF RunningIsFound, Up
  <2>1. Serves(p, n)
    BY Shape DEF IInv, Serves, IsQemu, Mode
  <2> QED BY <2>1 DEF IInv, HasBoth
<1> QED BY <1>1, Invariance, PTL
=============================================================================
