------------------------- MODULE ConfigStore_proof -------------------------
(***************************************************************************)
(* Proofs about ConfigStore: what holds however the processes overlap, and *)
(* that they implement the registry as long as they keep apart.            *)
(***************************************************************************)
EXTENDS ConfigStore, TLAPS

(***************************************************************************)
(* What a busy process holds: a VM to work on; contents, once it is about  *)
(* to write; and an open file only while it writes.                        *)
(***************************************************************************)
HoldsOk(p) ==
  /\ pc[p] # "idle" => target[p] \in Name
  /\ pc[p] \in {"open", "reopen", "close"} => buffer[p] \in Settings
  /\ linked[p] => pc[p] = "close"

IInv == TypeOK /\ \A p \in Proc : HoldsOk(p)

-----------------------------------------------------------------------------
\* Settings overridden by settings are settings.
LEMMA OverrideType ==
  ASSUME NEW a \in Settings, NEW b \in Settings
  PROVE  Override(a, b) \in Settings
BY DEF Override, Settings

\* ImageConfigUpdate and ImageConfigExpand yield settings, from a NULL tree too.
LEMMA UpdatedType ==
  ASSUME NEW a \in Settings \cup {Null}, NEW b \in Settings
  PROVE  Updated(a, b) \in Settings
BY OverrideType DEF Updated, Settings, NoSettings

LEMMA NoSettingsType == NoSettings \in Settings
BY DEF NoSettings, Settings

\* What ImageConfigLoad returns.
LEMMA LoadedType ==
  ASSUME NEW n \in Name
  PROVE  Loaded(n) \in Settings \cup {Null}
BY DEF Loaded

-----------------------------------------------------------------------------
LEMMA IInvInit == Init => IInv
BY StoreAssumption, NoSettingsType DEF Init, IInv, HoldsOk, TypeOK

\* The end of an operation keeps the type invariant, and leaves nothing held.
LEMMA IdleKeeps ==
  ASSUME IInv, NEW p \in Proc, ToIdle(p),
         file' \in [Name -> Settings \cup {Absent, Empty}],
         opno' \in 0..MaxOps, cut' \subseteq Name,
         intended' \in [Name -> SUBSET Settings]
  PROVE  IInv'
<1>1. TypeOK'
  BY NoSettingsType DEF IInv, TypeOK, ToIdle
<1>2. \A q \in Proc : HoldsOk(q)'
  BY DEF IInv, HoldsOk, TypeOK, ToIdle
<1> QED BY <1>1, <1>2 DEF IInv

LEMMA IInvNext == IInv /\ [Next]_vars => IInv'
<1> SUFFICES ASSUME IInv, [Next]_vars PROVE IInv'
  OBVIOUS
<1> USE DEF IInv
<1>1. ASSUME NEW p \in Proc, NEW n \in Name, NEW s \in Settings, BeginAdd(p, n, s)
      PROVE IInv'
  BY <1>1, StoreAssumption DEF BeginAdd, MayBegin, TypeOK, HoldsOk
<1>2. ASSUME NEW p \in Proc, NEW n \in Name, NEW s \in Settings, BeginChange(p, n, s)
      PROVE IInv'
  BY <1>2, StoreAssumption DEF BeginChange, MayBegin, TypeOK, HoldsOk
<1>3. ASSUME NEW p \in Proc, NEW n \in Name, BeginDelete(p, n)
      PROVE IInv'
  BY <1>3, StoreAssumption DEF BeginDelete, MayBegin, TypeOK, HoldsOk
<1>4. ASSUME NEW p \in Proc, NEW m \in Name, Unlink(p, m)
      PROVE IInv'
  BY <1>4 DEF Unlink, TypeOK, HoldsOk
<1>5. ASSUME NEW p \in Proc, NEW n \in Name, Read(p, n)
      PROVE IInv'
  BY <1>5, LoadedType, StoreAssumption DEF Read, MayBegin, TypeOK, HoldsOk
<1>6. ASSUME NEW p \in Proc, Load(p)
      PROVE IInv'
  <2>1. target[p] \in Name
    BY <1>6 DEF Load, HoldsOk
  <2>2. Updated(Loaded(target[p]), options[p]) \in Settings
    BY <2>1, LoadedType, UpdatedType DEF TypeOK
  <2> QED BY <1>6, <2>2 DEF Load, TypeOK, HoldsOk
<1>7. ASSUME NEW p \in Proc, OpenW(p)
      PROVE IInv'
  BY <1>7 DEF OpenW, TypeOK, HoldsOk
<1>8. ASSUME NEW p \in Proc, Close(p)
      PROVE IInv'
  <2>1. buffer[p] \in Settings
    BY <1>8 DEF Close, HoldsOk
  <2>2. file' \in [Name -> Settings \cup {Absent, Empty}]
    BY <1>8, <2>1 DEF Close, Flush, TypeOK
  <2>3. intended' \in [Name -> SUBSET Settings]
    BY <1>8, <2>1 DEF Close, TypeOK
  <2> QED BY <1>8, <2>2, <2>3, IdleKeeps DEF Close, TypeOK
<1>9. ASSUME NEW p \in Proc, Deleted(p) \/ ReadDone(p)
      PROVE IInv'
  BY <1>9, IdleKeeps DEF Deleted, ReadDone, TypeOK
<1>10. ASSUME NEW p \in Proc, Killed(p)
       PROVE IInv'
  <2>1. cut' \subseteq Name
    BY <1>10 DEF Killed, TypeOK, HoldsOk
  <2> QED BY <1>10, <2>1, IdleKeeps DEF Killed, TypeOK
<1>11. CASE UNCHANGED vars
  BY <1>11 DEF vars, procVars, TypeOK, HoldsOk
<1> QED
  BY <1>1, <1>2, <1>3, <1>4, <1>5, <1>6, <1>7, <1>8, <1>9, <1>10, <1>11 DEF Next

\* The state of the directory and of the processes is always well formed; in
\* particular nothing but settings is ever written to a file.
THEOREM Invariance == Spec => []IInv
BY IInvInit, IInvNext, PTL DEF Spec

THEOREM TypeCorrect == Spec => []TypeOK
BY Invariance, PTL DEF IInv

-----------------------------------------------------------------------------
LEMMA EmptyNext == IInv /\ EmptyExplained /\ [Next]_vars => EmptyExplained'
<1> SUFFICES ASSUME IInv, EmptyExplained, [Next]_vars,
                    NEW n \in Name, file'[n] = Empty
             PROVE  n \in cut' \/ \E p \in Proc :
                                     pc'[p] = "close" /\ linked'[p] /\ target'[p] = n
  BY DEF EmptyExplained
<1> USE DEF IInv, TypeOK
<1>1. ASSUME NEW p \in Proc, NEW m \in Name, NEW s \in Settings,
             BeginAdd(p, m, s) \/ BeginChange(p, m, s) \/ BeginDelete(p, m) \/ Read(p, m)
      PROVE  n \in cut' \/ \E q \in Proc :
                              pc'[q] = "close" /\ linked'[q] /\ target'[q] = n
  BY <1>1 DEF EmptyExplained, BeginAdd, BeginChange, BeginDelete, Read, MayBegin
<1>2. ASSUME NEW p \in Proc, NEW m \in Name, Unlink(p, m)
      PROVE  n \in cut' \/ \E q \in Proc :
                              pc'[q] = "close" /\ linked'[q] /\ target'[q] = n
  <2>1. n # m /\ file[n] = Empty
    BY <1>2, StoreAssumption DEF Unlink
  <2> QED BY <1>2, <2>1 DEF EmptyExplained, Unlink
<1>3. ASSUME NEW p \in Proc, Load(p)
      PROVE  n \in cut' \/ \E q \in Proc :
                              pc'[q] = "close" /\ linked'[q] /\ target'[q] = n
  BY <1>3 DEF EmptyExplained, Load
<1>4. ASSUME NEW p \in Proc, OpenW(p)
      PROVE  n \in cut' \/ \E q \in Proc :
                              pc'[q] = "close" /\ linked'[q] /\ target'[q] = n
  <2>1. CASE target[p] = n
    BY <1>4, <2>1 DEF OpenW
  <2>2. CASE target[p] # n
    BY <1>4, <2>2 DEF EmptyExplained, OpenW
  <2> QED BY <2>1, <2>2
<1>5. ASSUME NEW p \in Proc, Close(p)
      PROVE  n \in cut' \/ \E q \in Proc :
                              pc'[q] = "close" /\ linked'[q] /\ target'[q] = n
  <2>1. buffer[p] # Empty
    BY <1>5, StoreAssumption DEF Close, HoldsOk
  <2>2. ~(linked[p] /\ target[p] = n) /\ file[n] = Empty
    BY <1>5, <2>1 DEF Close, Flush
  <2> QED BY <1>5, <2>2 DEF EmptyExplained, Close, ToIdle
<1>6. ASSUME NEW p \in Proc, Deleted(p) \/ ReadDone(p)
      PROVE  n \in cut' \/ \E q \in Proc :
                              pc'[q] = "close" /\ linked'[q] /\ target'[q] = n
  BY <1>6 DEF EmptyExplained, Deleted, ReadDone, ToIdle
<1>7. ASSUME NEW p \in Proc, Killed(p)
      PROVE  n \in cut' \/ \E q \in Proc :
                              pc'[q] = "close" /\ linked'[q] /\ target'[q] = n
  BY <1>7 DEF EmptyExplained, Killed, ToIdle
<1>8. CASE UNCHANGED vars
  BY <1>8 DEF EmptyExplained, vars, procVars
<1> QED
  BY <1>1, <1>2, <1>3, <1>4, <1>5, <1>6, <1>7, <1>8 DEF Next

\* An empty configuration is always one that is being written or whose writer
\* was killed, for any number of processes and VMs and any naming of them.
THEOREM EmptyIsExplained == Spec => []EmptyExplained
<1>1. Init => EmptyExplained
  BY StoreAssumption DEF Init, EmptyExplained
<1> QED BY <1>1, Invariance, EmptyNext, PTL DEF Spec

-----------------------------------------------------------------------------
LEMMA BlendNext == IInv /\ NeverBlended /\ [Next]_vars => NeverBlended'
<1> SUFFICES ASSUME IInv, NeverBlended, [Next]_vars,
                    NEW n \in Name, file'[n] \in Settings
             PROVE  file'[n] \in intended'[n]
  BY DEF NeverBlended
<1> USE DEF IInv, TypeOK, NeverBlended
<1>1. CASE file' = file /\ intended' = intended
  BY <1>1
<1>2. ASSUME NEW p \in Proc, NEW m \in Name, Unlink(p, m)
      PROVE  file'[n] \in intended'[n]
  BY <1>2, StoreAssumption DEF Unlink
<1>3. ASSUME NEW p \in Proc, OpenW(p)
      PROVE  file'[n] \in intended'[n]
  BY <1>3, StoreAssumption DEF OpenW
<1>4. ASSUME NEW p \in Proc, Close(p)
      PROVE  file'[n] \in intended'[n]
  BY <1>4 DEF Close, Flush
<1> QED
  BY <1>1, <1>2, <1>3, <1>4
     DEF Next, BeginAdd, BeginChange, BeginDelete, Read, Load, Deleted, ReadDone, Killed,
         vars

\* What can be loaded is what one of the writers meant to write.
THEOREM NothingBlended == Spec => []NeverBlended
<1>1. Init => NeverBlended
  BY StoreAssumption DEF Init, NeverBlended
<1> QED BY <1>1, Invariance, BlendNext, PTL DEF Spec

-----------------------------------------------------------------------------
(***************************************************************************)
(* ConfigStore implements Registry while no two processes are at work on   *)
(* one VM, none is killed, and no name continues another one after a dot.  *)
(***************************************************************************)
Apart == Exclusive /\ \A n \in Name : Covers[n] = {n}

(***************************************************************************)
(* What a process has in hand, at each place, about the VM it works on and *)
(* nobody else does.                                                       *)
(***************************************************************************)
InHand(p) ==
  /\ pc[p] = "open" => buffer[p] = options[p]
  /\ pc[p] = "reopen" => buffer[p] = Updated(Loaded(target[p]), options[p])
  /\ pc[p] = "close" => linked[p] /\ file[target[p]] = Empty
  /\ pc[p] = "read" => buffer[p] = Loaded(target[p])
  /\ pc[p] = "unlink" => todo[p] \subseteq {target[p]}
  /\ pc[p] # "unlink" => todo[p] = {}

KeptApart == \A p, q \in Proc : p # q /\ Busy(p) /\ Busy(q) => target[p] # target[q]

RInv == IInv /\ EmptyExplained /\ cut = {} /\ KeptApart /\ \A p \in Proc : InHand(p)

-----------------------------------------------------------------------------
LEMMA RInvInit == Init => RInv
<1> SUFFICES ASSUME Init PROVE RInv
  OBVIOUS
<1>1. IInv
  BY IInvInit
<1>2. EmptyExplained
  BY StoreAssumption DEF Init, EmptyExplained
<1>3. cut = {} /\ KeptApart /\ \A p \in Proc : InHand(p)
  BY DEF Init, KeptApart, Busy, InHand
<1> QED BY <1>1, <1>2, <1>3 DEF RInv

\* Whoever begins has the VM for itself.
LEMMA Alone ==
  ASSUME Apart, RInv, NEW p \in Proc, NEW n \in Name,
         MayBegin(p, {n}), NEW q \in Proc, Busy(q)
  PROVE  target[q] # n
BY DEF Apart, RInv, IInv, HoldsOk, MayBegin, Touches, Busy

\* Setting the place and the VM of p alone keeps the processes apart.
LEMMA ApartKept ==
  ASSUME Apart, RInv, NEW p \in Proc,
         \A q \in Proc \ {p} : pc'[q] = pc[q] /\ target'[q] = target[q],
         \/ pc'[p] = "idle"
         \/ Busy(p) /\ target'[p] = target[p]
         \/ \A q \in Proc : Busy(q) => target[q] # target'[p]
  PROVE  KeptApart'
BY DEF RInv, KeptApart, Busy

\* What another process has in hand is not affected by a step of p.
LEMMA OthersInHand ==
  ASSUME Apart, RInv, NEW p \in Proc, NEW q \in Proc \ {p}, NEW n \in Name,
         pc'[q] = pc[q], target'[q] = target[q], buffer'[q] = buffer[q],
         options'[q] = options[q], linked'[q] = linked[q], todo'[q] = todo[q],
         \A m \in Name \ {n} : file'[m] = file[m],
         Busy(q) => file'[target[q]] = file[target[q]]
  PROVE  InHand(q)'
<1>1. CASE pc[q] = "idle"
  BY <1>1 DEF RInv, InHand
<1>2. CASE pc[q] # "idle"
  <2>1. Loaded(target[q])' = Loaded(target[q])
    BY <1>2 DEF Loaded, Busy
  <2>2. Updated(Loaded(target[q]), options[q])' = Updated(Loaded(target[q]), options[q])
    BY <2>1 DEF Updated, Override
  <2> QED BY <1>2, <2>1, <2>2 DEF RInv, InHand, Busy
<1> QED BY <1>1, <1>2

LEMMA RInvNext == Apart /\ RInv /\ [Next]_vars => RInv'
<1> SUFFICES ASSUME Apart, RInv, [Next]_vars
             PROVE  cut' = {} /\ KeptApart' /\ \A p \in Proc : InHand(p)'
  BY IInvNext, EmptyNext DEF RInv
<1> USE DEF IInv, TypeOK
<1>1. ASSUME NEW p \in Proc, NEW n \in Name, NEW s \in Settings,
             BeginAdd(p, n, s) \/ BeginChange(p, n, s)
      PROVE  cut' = {} /\ KeptApart' /\ \A q \in Proc : InHand(q)'
  <2>1. \A q \in Proc : Busy(q) => target[q] # n
    BY <1>1, Alone DEF BeginAdd, BeginChange
  <2>2. KeptApart'
    BY <1>1, <2>1, ApartKept DEF BeginAdd, BeginChange, RInv
  <2>3. \A q \in Proc \ {p} : InHand(q)'
    BY <1>1, OthersInHand DEF BeginAdd, BeginChange, RInv
  <2>4. InHand(p)'
    BY <1>1 DEF BeginAdd, BeginChange, MayBegin, RInv, InHand
  <2> QED BY <1>1, <2>2, <2>3, <2>4 DEF BeginAdd, BeginChange, RInv
<1>2. ASSUME NEW p \in Proc, NEW n \in Name, BeginDelete(p, n) \/ Read(p, n)
      PROVE  cut' = {} /\ KeptApart' /\ \A q \in Proc : InHand(q)'
  <2>1. MayBegin(p, {n}) /\ Covers[n] = {n}
    BY <1>2 DEF BeginDelete, Read, Apart
  <2>2. \A q \in Proc : Busy(q) => target[q] # n
    BY <2>1, Alone
  <2>3. KeptApart'
    BY <1>2, <2>2, ApartKept DEF BeginDelete, Read, RInv
  <2>4. \A q \in Proc \ {p} : InHand(q)'
    BY <1>2, OthersInHand DEF BeginDelete, Read, RInv
  <2>5. Loaded(n)' = Loaded(n)
    BY <1>2 DEF BeginDelete, Read, Loaded
  <2>6. InHand(p)'
    BY <1>2, <2>1, <2>5 DEF BeginDelete, Read, MayBegin, RInv, InHand
  <2> QED BY <1>2, <2>3, <2>4, <2>6 DEF BeginDelete, Read, RInv
<1>3. ASSUME NEW p \in Proc, NEW m \in Name, Unlink(p, m)
      PROVE  cut' = {} /\ KeptApart' /\ \A q \in Proc : InHand(q)'
  <2>1. m = target[p] /\ Busy(p)
    BY <1>3 DEF Unlink, RInv, InHand, Busy
  <2>2. \A q \in Proc \ {p} : Busy(q) => target[q] # m
    BY <2>1 DEF RInv, KeptApart
  <2>3. \A q \in Proc : linked'[q] = linked[q]
    BY <1>3, <2>1, <2>2 DEF Unlink, RInv, HoldsOk, Busy
  <2>4. KeptApart'
    BY <1>3, <2>1, ApartKept DEF Unlink
  <2>5. \A q \in Proc \ {p} : InHand(q)'
    BY <1>3, <2>2, <2>3, OthersInHand DEF Unlink, RInv
  <2>6. InHand(p)'
    BY <1>3, <2>1 DEF Unlink, RInv, InHand
  <2> QED BY <1>3, <2>4, <2>5, <2>6 DEF Unlink, RInv
<1>4. ASSUME NEW p \in Proc, Load(p)
      PROVE  cut' = {} /\ KeptApart' /\ \A q \in Proc : InHand(q)'
  <2>1. target[p] \in Name
    BY <1>4 DEF Load, RInv, HoldsOk
  <2>2. KeptApart'
    BY <1>4, ApartKept DEF Load, Busy
  <2>3. \A q \in Proc \ {p} : InHand(q)'
    BY <1>4, <2>1, OthersInHand DEF Load, RInv
  <2>4. Updated(Loaded(target[p]), options[p])' = Updated(Loaded(target[p]), options[p])
    BY <1>4 DEF Load, Updated, Override, Loaded
  <2>5. InHand(p)'
    BY <1>4, <2>4 DEF Load, RInv, InHand
  <2> QED BY <1>4, <2>2, <2>3, <2>5 DEF Load, RInv
<1>5. ASSUME NEW p \in Proc, OpenW(p)
      PROVE  cut' = {} /\ KeptApart' /\ \A q \in Proc : InHand(q)'
  <2>1. target[p] \in Name /\ Busy(p)
    BY <1>5 DEF OpenW, RInv, HoldsOk, Busy
  <2>2. \A q \in Proc \ {p} : Busy(q) => target[q] # target[p]
    BY <2>1 DEF RInv, KeptApart
  <2>3. KeptApart'
    BY <1>5, <2>1, ApartKept DEF OpenW
  <2>4. \A q \in Proc \ {p} : InHand(q)'
    BY <1>5, <2>1, <2>2, OthersInHand DEF OpenW, RInv, HoldsOk, Busy
  <2>5. InHand(p)'
    BY <1>5, <2>1 DEF OpenW, RInv, InHand
  <2> QED BY <1>5, <2>3, <2>4, <2>5 DEF OpenW, RInv
<1>6. ASSUME NEW p \in Proc, Close(p)
      PROVE  cut' = {} /\ KeptApart' /\ \A q \in Proc : InHand(q)'
  <2>1. target[p] \in Name /\ Busy(p)
    BY <1>6 DEF Close, RInv, HoldsOk, Busy
  <2>2. \A q \in Proc \ {p} : Busy(q) => target[q] # target[p]
    BY <2>1 DEF RInv, KeptApart
  <2>3. KeptApart'
    BY <1>6, ApartKept DEF Close, ToIdle, RInv
  <2>4. \A q \in Proc \ {p} : InHand(q)'
    BY <1>6, <2>1, <2>2, OthersInHand DEF Close, ToIdle, Flush, RInv, HoldsOk, Busy
  <2>5. InHand(p)'
    BY <1>6 DEF Close, ToIdle, RInv, InHand
  <2> QED BY <1>6, <2>3, <2>4, <2>5 DEF Close, RInv
<1>7. ASSUME NEW p \in Proc, Deleted(p) \/ ReadDone(p)
      PROVE  cut' = {} /\ KeptApart' /\ \A q \in Proc : InHand(q)'
  <2>1. target[p] \in Name
    BY <1>7 DEF Deleted, ReadDone, RInv, HoldsOk
  <2>2. KeptApart'
    BY <1>7, ApartKept DEF Deleted, ReadDone, ToIdle, RInv
  <2>3. \A q \in Proc \ {p} : InHand(q)'
    BY <1>7, <2>1, OthersInHand DEF Deleted, ReadDone, ToIdle, RInv
  <2>4. InHand(p)'
    BY <1>7 DEF Deleted, ReadDone, ToIdle, RInv, InHand
  <2> QED BY <1>7, <2>2, <2>3, <2>4 DEF Deleted, ReadDone, RInv
<1>8. \A p \in Proc : ~Killed(p)
  BY DEF Killed, Apart
<1>9. CASE UNCHANGED vars
  BY <1>9 DEF vars, procVars, RInv, KeptApart, Busy, InHand, Updated, Override, Loaded
<1> QED
  BY <1>1, <1>2, <1>3, <1>4, <1>5, <1>6, <1>7, <1>8, <1>9 DEF Next

-----------------------------------------------------------------------------
(* The registry that is seen from outside.                                 *)

\* While a VM is being written its settings are those in the writer's buffer.
WritersSeen == \A p \in Proc : pc[p] = "close" => RegistryView[target[p]] = buffer[p]

LEMMA ViewOfWriter == RInv => WritersSeen
<1> SUFFICES ASSUME RInv, NEW p \in Proc, pc[p] = "close"
             PROVE  RegistryView[target[p]] = buffer[p]
  BY DEF WritersSeen
<1>1. target[p] \in Name /\ Busy(p)
  BY DEF RInv, IInv, HoldsOk, Busy
<1>2. Writing(target[p]) = {p}
  BY <1>1 DEF Writing, RInv, KeptApart, Busy
<1> QED BY <1>1, <1>2 DEF RegistryView

LEMMA ViewOfWriterNext == RInv' => WritersSeen'
BY ViewOfWriter, PTL

\* Otherwise they are those in the file, which is not empty then.
LEMMA ViewOfFile ==
  RInv => \A n \in Name : (\A p \in Proc : pc[p] = "close" => target[p] # n)
                            => RegistryView[n] = file[n] /\ file[n] # Empty
<1> SUFFICES ASSUME RInv, NEW n \in Name, \A p \in Proc : pc[p] = "close" => target[p] # n
             PROVE  RegistryView[n] = file[n] /\ file[n] # Empty
  OBVIOUS
<1>1. Writing(n) = {}
  BY DEF Writing
<1>2. file[n] # Empty
  BY DEF RInv, EmptyExplained
<1> QED BY <1>1, <1>2 DEF RegistryView

\* A step that touches neither the writers of a VM nor its file is not seen.
LEMMA SameView ==
  ASSUME NEW n \in Name,
         \A q \in Proc : pc'[q] = "close" /\ target'[q] = n <=> pc[q] = "close" /\ target[q] = n,
         file'[n] = file[n],
         \A q \in Proc : pc[q] = "close" => buffer'[q] = buffer[q]
  PROVE  RegistryView'[n] = RegistryView[n]
<1>1. Writing(n)' = Writing(n)
  BY DEF Writing
<1>2. \A q \in Writing(n) : buffer'[q] = buffer[q]
  BY DEF Writing
<1>3. (CHOOSE q \in Writing(n) : TRUE)' = CHOOSE q \in Writing(n) : TRUE
  BY <1>1
<1>4. CASE Writing(n) = {}
  BY <1>1, <1>4 DEF RegistryView
<1>5. CASE Writing(n) # {}
  BY <1>1, <1>2, <1>3, <1>5 DEF RegistryView
<1> QED BY <1>4, <1>5

LEMMA ViewUnchanged ==
  ASSUME \A n \in Name : RegistryView'[n] = RegistryView[n]
  PROVE  RegistryView' = RegistryView
<1>1. RegistryView = [n \in Name |-> RegistryView[n]]
  BY DEF RegistryView
<1>2. RegistryView' = [n \in Name |-> RegistryView'[n]]
  BY DEF RegistryView
<1> QED BY <1>1, <1>2

LEMMA ViewInit == Init => Reg!Init
<1> SUFFICES ASSUME Init PROVE Reg!Init
  OBVIOUS
<1>1. RegistryView \in [Name -> Settings \cup {Absent}]
  BY DEF Init, RegistryView, Writing
<1>2. AskedView = [p \in Proc |-> [kind |-> "none"]]
  BY DEF Init, AskedView
<1> QED BY <1>1, <1>2 DEF Reg!Init, Reg!Settings, Settings, Reg!NoRequest

-----------------------------------------------------------------------------
(* The steps.                                                              *)

\* What the others have asked for is not affected by a step of p.
LEMMA AskedStep ==
  ASSUME NEW p \in Proc, NEW r, AskedView'[p] = r,
         \A q \in Proc \ {p} : pc'[q] = pc[q] /\ target'[q] = target[q]
                               /\ options'[q] = options[q] /\ todo'[q] = todo[q]
  PROVE  AskedView' = [AskedView EXCEPT ![p] = r]
<1>1. \A q \in Proc \ {p} : AskedView'[q] = AskedView[q]
  BY DEF AskedView, Asks
<1>2. AskedView = [q \in Proc |-> AskedView[q]]
  BY DEF AskedView
<1>3. AskedView' = [q \in Proc |-> AskedView'[q]]
  BY DEF AskedView
<1> QED BY <1>1, <1>2, <1>3

LEMMA BeginAsks ==
  ASSUME Apart, RInv, NEW p \in Proc, NEW n \in Name, NEW s \in Settings,
         BeginAdd(p, n, s) \/ BeginChange(p, n, s)
  PROVE  Reg!Next
<1> USE DEF RInv, IInv, TypeOK
<1> DEFINE r == [kind |-> IF pc'[p] = "open" THEN "add" ELSE "change",
                 name |-> n, settings |-> s]
<1>1. pc[p] = "idle" /\ pc'[p] \in {"open", "load"} /\ target'[p] = n /\ options'[p] = s
  BY DEF BeginAdd, BeginChange, MayBegin
<1>2. AskedView[p].kind = "none"
  BY <1>1 DEF AskedView
<1>3. AskedView'[p] = r
  BY <1>1 DEF AskedView, Asks
<1>4. AskedView' = [AskedView EXCEPT ![p] = r]
  BY <1>3, AskedStep DEF BeginAdd, BeginChange
<1>5. \A m \in Name : RegistryView'[m] = RegistryView[m]
  BY <1>1, SameView DEF BeginAdd, BeginChange
<1>6. r \in Reg!Request
  BY DEF Reg!Request, Reg!Settings, Settings
<1> QED BY <1>2, <1>4, <1>5, <1>6, ViewUnchanged DEF Reg!Next, Reg!Ask

LEMMA DeleteAsks ==
  ASSUME Apart, RInv, NEW p \in Proc, NEW n \in Name, BeginDelete(p, n)
  PROVE  [Reg!Next]_<<RegistryView, AskedView>>
<1> USE DEF RInv, IInv, TypeOK
<1> DEFINE r == [kind |-> "delete", name |-> n, settings |-> options[p]]
<1>1. pc[p] = "idle" /\ pc'[p] = "unlink" /\ target'[p] = n /\ options'[p] = options[p]
  BY DEF BeginDelete, MayBegin
<1>2. AskedView[p] = [kind |-> "none"]
  BY <1>1 DEF AskedView
<1>3. \A m \in Name : RegistryView'[m] = RegistryView[m]
  BY <1>1, SameView DEF BeginDelete
<1>4. CASE todo'[p] = {}
  <2>1. AskedView'[p] = AskedView[p]
    BY <1>1, <1>2, <1>4 DEF AskedView
  <2>2. AskedView' = [AskedView EXCEPT ![p] = AskedView[p]]
    BY <2>1, AskedStep DEF BeginDelete
  <2>3. AskedView' = AskedView
    BY <2>2 DEF AskedView
  <2> QED BY <1>3, <2>3, ViewUnchanged
<1>5. CASE todo'[p] # {}
  <2>1. AskedView'[p] = r
    BY <1>1, <1>5 DEF AskedView, Asks
  <2>2. AskedView' = [AskedView EXCEPT ![p] = r]
    BY <2>1, AskedStep DEF BeginDelete
  <2>3. r \in Reg!Request
    BY DEF Reg!Request, Reg!Settings, Settings
  <2>4. Reg!Ask(p, r)
    BY <1>2, <1>3, <2>2, ViewUnchanged DEF Reg!Ask
  <2> QED BY <2>3, <2>4 DEF Reg!Next
<1> QED BY <1>4, <1>5

\* Truncating the file is where what was asked for takes effect.
LEMMA OpenTakesEffect ==
  ASSUME Apart, RInv, RInv', NEW p \in Proc, OpenW(p)
  PROVE  Reg!Next
<1> USE DEF RInv, IInv, TypeOK
<1> DEFINE t == target[p]
<1>1. t \in Name /\ Busy(p) /\ pc'[p] = "close" /\ target'[p] = t /\ buffer'[p] = buffer[p]
  BY DEF OpenW, HoldsOk, Busy
<1>2. \A q \in Proc : pc[q] = "close" => target[q] # t
  BY <1>1 DEF OpenW, KeptApart, Busy
<1>3. RegistryView[t] = file[t] /\ file[t] # Empty
  BY <1>1, <1>2, ViewOfFile
<1>4. WritersSeen'
  BY ViewOfWriterNext
<1>5. RegistryView'[t] = buffer[p]
  BY <1>1, <1>4 DEF WritersSeen
<1>6. \A n \in Name \ {t} : RegistryView'[n] = RegistryView[n]
  <2> SUFFICES ASSUME NEW n \in Name \ {t} PROVE RegistryView'[n] = RegistryView[n]
    OBVIOUS
  <2> QED BY <1>1, SameView DEF OpenW
<1>7. RegistryView' = [RegistryView EXCEPT ![t] = buffer[p]]
  <2>1. RegistryView = [n \in Name |-> RegistryView[n]]
    BY DEF RegistryView
  <2>2. RegistryView' = [n \in Name |-> RegistryView'[n]]
    BY DEF RegistryView
  <2> QED BY <1>5, <1>6, <2>1, <2>2
<1>8. AskedView'[p] = Reg!NoRequest
  BY <1>1 DEF AskedView, Reg!NoRequest
<1>9. AskedView' = [AskedView EXCEPT ![p] = Reg!NoRequest]
  BY <1>8, AskedStep DEF OpenW
<1>10. AskedView[p].kind # "none" /\ AskedView[p].name = t
       /\ buffer[p] = Reg!Effect(AskedView[p])
  <2>1. CASE pc[p] = "open"
    <3>1. AskedView[p] = Asks(p, "add")
      BY <2>1 DEF AskedView
    <3> QED BY <2>1, <3>1 DEF InHand, Asks, Reg!Effect
  <2>2. CASE pc[p] = "reopen"
    <3>1. AskedView[p] = Asks(p, "change")
      BY <2>2 DEF AskedView
    <3>2. buffer[p] = Updated(Loaded(t), options[p])
      BY <2>2 DEF InHand
    <3>3. CASE file[t] = Absent
      BY <1>3, <3>1, <3>2, <3>3, StoreAssumption
         DEF Asks, Reg!Effect, Updated, Loaded, NoSettings, Reg!NoSettings
    <3>4. CASE file[t] \in Settings
      BY <1>3, <3>1, <3>2, <3>4, StoreAssumption
         DEF Asks, Reg!Effect, Updated, Loaded, Override, Reg!Override
    <3> QED BY <1>1, <1>3, <3>3, <3>4
  <2> QED BY <2>1, <2>2 DEF OpenW
<1> QED BY <1>7, <1>9, <1>10 DEF Reg!Next, Reg!TakeEffect

\* What reaches the file is what could be seen already.
LEMMA CloseUnseen ==
  ASSUME Apart, RInv, RInv', NEW p \in Proc, Close(p)
  PROVE  UNCHANGED <<RegistryView, AskedView>>
<1> USE DEF RInv, IInv, TypeOK
<1>0. PICK t : t = target[p]
  OBVIOUS
<1>1. t = target[p] /\ t \in Name /\ pc[p] = "close" /\ Busy(p) /\ linked[p] /\ buffer[p] \in Settings
  BY <1>0 DEF Close, HoldsOk, Busy, InHand
<1>2. \A q \in Proc \ {p} : Busy(q) => target[q] # t
  BY <1>1 DEF KeptApart
<1>3. \A n \in Name \ {t} : RegistryView'[n] = RegistryView[n]
  <2> SUFFICES ASSUME NEW n \in Name \ {t} PROVE RegistryView'[n] = RegistryView[n]
    OBVIOUS
  <2>1. file'[n] = file[n]
    BY <1>1 DEF Close, Flush
  <2>2. ASSUME NEW q \in Proc
        PROVE  pc'[q] = "close" /\ target'[q] = n <=> pc[q] = "close" /\ target[q] = n
    <3>1. CASE q = p
      BY <1>1, <3>1 DEF Close, ToIdle
    <3>2. CASE q # p
      BY <3>2 DEF Close, ToIdle
    <3> QED BY <3>1, <3>2
  <2>3. Writing(n)' = Writing(n)
    BY <2>2 DEF Writing
  <2>4. \A q \in Writing(n) : buffer'[q] = buffer[q]
    BY <1>1 DEF Writing, Close, ToIdle
  <2>5. CASE Writing(n) = {}
    BY <2>1, <2>3, <2>5 DEF RegistryView
  <2>6. CASE Writing(n) # {}
    <3> DEFINE w == CHOOSE q \in Writing(n) : TRUE
    <3>1. w \in Writing(n)
      BY <2>6
    <3>2. RegistryView[n] = buffer[w]
      BY <2>6 DEF RegistryView
    <3>3. RegistryView'[n] = buffer'[w]
      BY <2>3, <2>6 DEF RegistryView
    <3> QED BY <2>4, <3>1, <3>2, <3>3
  <2> QED BY <2>5, <2>6
<1>4. RegistryView'[t] = RegistryView[t]
  <2>1. RegistryView[t] = buffer[p]
    BY <1>1, ViewOfWriter DEF WritersSeen
  <2>2. file'[t] = buffer[p]
    BY <1>1 DEF Close, Flush
  <2>3. Writing(t)' = {}
    BY <1>1, <1>2, StoreAssumption DEF Writing, Close, ToIdle, Busy
  <2> QED BY <1>1, <2>1, <2>2, <2>3 DEF RegistryView
<1>5. AskedView'[p] = AskedView[p]
  BY <1>1 DEF AskedView, Close, ToIdle
<1>6. AskedView' = [AskedView EXCEPT ![p] = AskedView[p]]
  BY <1>5, AskedStep DEF Close, ToIdle
<1>7. AskedView' = AskedView
  BY <1>6 DEF AskedView
<1> QED BY <1>3, <1>4, <1>7, ViewUnchanged

\* A delete takes effect when the file is unlinked.
LEMMA UnlinkTakesEffect ==
  ASSUME Apart, RInv, NEW p \in Proc, NEW m \in Name, Unlink(p, m)
  PROVE  Reg!Next
<1> USE DEF RInv, IInv, TypeOK
<1>1. m = target[p] /\ pc[p] = "unlink" /\ Busy(p) /\ todo[p] = {m} /\ todo'[p] = {}
  BY DEF Unlink, InHand, Busy
<1>2. \A q \in Proc : pc[q] = "close" => target[q] # m
  BY <1>1 DEF KeptApart, Busy
<1>3. RegistryView'[m] = Absent
  <2>1. Writing(m)' = {}
    BY <1>2 DEF Writing, Unlink
  <2>2. file'[m] = Absent
    BY DEF Unlink
  <2> QED BY <2>1, <2>2 DEF RegistryView
<1>4. \A n \in Name \ {m} : RegistryView'[n] = RegistryView[n]
  BY SameView DEF Unlink
<1>5. RegistryView' = [RegistryView EXCEPT ![m] = Absent]
  <2>1. RegistryView = [n \in Name |-> RegistryView[n]]
    BY DEF RegistryView
  <2>2. RegistryView' = [n \in Name |-> RegistryView'[n]]
    BY DEF RegistryView
  <2> QED BY <1>3, <1>4, <2>1, <2>2
<1>6. AskedView[p] = Asks(p, "delete")
  BY <1>1 DEF AskedView
<1>7. AskedView'[p] = Reg!NoRequest
  BY <1>1 DEF AskedView, Unlink, Reg!NoRequest
<1>8. AskedView' = [AskedView EXCEPT ![p] = Reg!NoRequest]
  BY <1>7, AskedStep DEF Unlink
<1>9. Reg!Effect(AskedView[p]) = Absent
  BY <1>6 DEF Asks, Reg!Effect
<1>10. AskedView[p].kind # "none" /\ AskedView[p].name = m
  BY <1>1, <1>6 DEF Asks
<1>11. Reg!TakeEffect(p)
  BY <1>5, <1>8, <1>9, <1>10 DEF Reg!TakeEffect
<1> QED BY <1>11 DEF Reg!Next

\* The other steps are not seen either.
LEMMA OtherStepsUnseen ==
  ASSUME Apart, RInv, NEW p \in Proc,
         Load(p) \/ Deleted(p) \/ ReadDone(p) \/ (\E n \in Name : Read(p, n))
  PROVE  UNCHANGED <<RegistryView, AskedView>>
<1> USE DEF RInv, IInv, TypeOK
<1>1. pc[p] # "close" /\ pc'[p] # "close" /\ file' = file
  BY DEF Load, Deleted, ReadDone, ToIdle, Read, MayBegin
<1>2. \A n \in Name : RegistryView'[n] = RegistryView[n]
  <2> SUFFICES ASSUME NEW n \in Name PROVE RegistryView'[n] = RegistryView[n]
    OBVIOUS
  <2>1. \A q \in Proc : pc'[q] = "close" /\ target'[q] = n
                          <=> pc[q] = "close" /\ target[q] = n
    BY <1>1 DEF Load, Deleted, ReadDone, ToIdle, Read
  <2>2. \A q \in Proc : pc[q] = "close" => buffer'[q] = buffer[q]
    BY <1>1 DEF Load, Deleted, ReadDone, ToIdle, Read
  <2> QED BY <1>1, <2>1, <2>2, SameView
<1>3. AskedView'[p] = AskedView[p]
  BY DEF AskedView, Asks, Load, Deleted, ReadDone, ToIdle, Read, MayBegin
<1>4. AskedView' = [AskedView EXCEPT ![p] = AskedView[p]]
  BY <1>3, AskedStep DEF Load, Deleted, ReadDone, ToIdle, Read
<1>5. AskedView' = AskedView
  BY <1>4 DEF AskedView
<1> QED BY <1>2, <1>5, ViewUnchanged

LEMMA Simulation ==
  Apart /\ RInv /\ RInv' /\ [Next]_vars => [Reg!Next]_<<RegistryView, AskedView>>
<1> SUFFICES ASSUME Apart, RInv, RInv', [Next]_vars
             PROVE  [Reg!Next]_<<RegistryView, AskedView>>
  OBVIOUS
<1>1. ASSUME NEW p \in Proc, NEW n \in Name, NEW s \in Settings,
             BeginAdd(p, n, s) \/ BeginChange(p, n, s)
      PROVE  Reg!Next
  BY <1>1, BeginAsks
<1>2. ASSUME NEW p \in Proc, NEW n \in Name, BeginDelete(p, n)
      PROVE  [Reg!Next]_<<RegistryView, AskedView>>
  BY <1>2, DeleteAsks
<1>3. ASSUME NEW p \in Proc, NEW n \in Name, Unlink(p, n)
      PROVE  Reg!Next
  BY <1>3, UnlinkTakesEffect
<1>4. ASSUME NEW p \in Proc, NEW n \in Name, Read(p, n)
      PROVE  UNCHANGED <<RegistryView, AskedView>>
  BY <1>4, OtherStepsUnseen
<1>5. ASSUME NEW p \in Proc, Load(p) \/ Deleted(p) \/ ReadDone(p)
      PROVE  UNCHANGED <<RegistryView, AskedView>>
  BY <1>5, OtherStepsUnseen
<1>6. ASSUME NEW p \in Proc, OpenW(p)
      PROVE  Reg!Next
  BY <1>6, OpenTakesEffect
<1>7. ASSUME NEW p \in Proc, Close(p)
      PROVE  UNCHANGED <<RegistryView, AskedView>>
  BY <1>7, CloseUnseen
<1>8. \A p \in Proc : ~Killed(p)
  BY DEF Killed, Apart
<1>9. CASE UNCHANGED vars
  BY <1>9 DEF vars, procVars, RegistryView, AskedView, Asks, Writing
<1> QED
  BY <1>1, <1>2, <1>3, <1>4, <1>5, <1>6, <1>7, <1>8, <1>9 DEF Next

\* For any number of processes, VMs and settings: while the processes keep
\* apart, what they ask for happens atomically and exactly once.
THEOREM Refinement == ASSUME Apart PROVE Spec => ImplementsRegistry
<1>1. RInv /\ [Next]_vars => RInv'
  BY RInvNext
<1>2. RInv /\ RInv' /\ [Next]_vars => [Reg!Next]_<<RegistryView, AskedView>>
  BY Simulation
<1> QED BY <1>1, <1>2, RInvInit, ViewInit, PTL DEF Spec, ImplementsRegistry, Reg!Spec

\* Then, too, a load finds what is registered, and finds all of it.
THEOREM ReadsRegistered == ASSUME Apart PROVE Spec => []ReadsRegistry
<1>1. RInv => ReadsRegistry
  <2> SUFFICES ASSUME RInv, NEW p \in Proc, pc[p] = "read"
               PROVE  buffer[p] = IF RegistryView[target[p]] = Absent THEN Null
                                  ELSE RegistryView[target[p]]
    BY DEF ReadsRegistry
  <2> USE DEF RInv, IInv, TypeOK
  <2>1. target[p] \in Name /\ buffer[p] = Loaded(target[p])
    BY DEF HoldsOk, InHand
  <2>2. \A q \in Proc : pc[q] = "close" => target[q] # target[p]
    BY DEF KeptApart, Busy
  <2>3. RegistryView[target[p]] = file[target[p]] /\ file[target[p]] # Empty
    BY <2>1, <2>2, ViewOfFile
  <2> QED BY <2>1, <2>3, StoreAssumption DEF Loaded
<1>2. RInv /\ [Next]_vars => RInv'
  BY RInvNext
<1> QED BY <1>1, <1>2, RInvInit, PTL DEF Spec
=============================================================================
