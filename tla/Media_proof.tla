---------------------------- MODULE Media_proof ----------------------------
(***************************************************************************)
(* Proofs about Media: for any number of users, drives and paths, with     *)
(* whichever programs are there, archives do not get mixed up as long as   *)
(* no two paths end alike.                                                 *)
(***************************************************************************)
EXTENDS Media, TLAPS

\* The last parts of no two paths are the same.
Distinct == \A p, q \in Path : Base[p] = Base[q] => p = q

\* Every archive holds paths of its name only, also one that has been replaced;
\* what is in a drive bears the name of the path that was asked for.
OfName(f, a) == a # NoArchive => \A x \in a.holds : Base[x] = f[1]
Named == \A f \in File : OfName(f, archive[f])
InDrive == \A d \in Drive : Loaded(d) =>
             /\ asked[d] \in Path
             /\ drive[d].file \in File
             /\ Base[asked[d]] = drive[d].file[1]
             /\ OfName(drive[d].file, drive[d].kept)
IInv == TypeOK /\ Named /\ InDrive

LEMMA FileType ==
  ASSUME NEW j \in Job, j.format # "file"
  PROVE  FileOf(j) \in File /\ FileOf(j)[1] = Base[j.path]
BY DEF Job, FileOf, ArchiveOf, File, Format

LEMMA MediumType ==
  ASSUME NEW j \in Job
  PROVE  MediumOf(j) \in Medium
BY FileType DEF Job, MediumOf, Medium

\* A user whose program runs packs, into a file that is there already if the
\* program does not make a new one.
AtWork == \A u \in User : pc[u] = "pack" =>
            /\ job[u].format # "file"
            /\ Rewrites(job[u].format) => archive[FileOf(job[u])] # NoArchive
IInit == IInv /\ AtWork

LEMMA Initial == Init => IInit
BY MediaAssumption DEF Init, IInit, IInv, TypeOK, Named, InDrive, Loaded, OfName, AtWork

LEMMA WorkType ==
  ASSUME TypeOK, NEW u \in User, pc[u] # "idle"
  PROVE  job[u] \in Job
BY DEF TypeOK

-----------------------------------------------------------------------------
LEMMA BeginKeeps ==
  ASSUME IInit, NEW u \in User, NEW j \in Job, BeginMount(u, j) \/ BeginAdd(u, j)
  PROVE  IInit'
<1> USE DEF IInit, IInv, TypeOK
<1>1. j # NoJob
  BY MediaAssumption DEF Job
<1>2. archive' \in [File -> Archive \cup {NoArchive}] /\ Named'
  <2>1. CASE archive' = archive
    BY <2>1 DEF Named, OfName
  <2>2. CASE /\ j.format # "file"
             /\ archive' = [archive EXCEPT ![FileOf(j)] = [format |-> j.format, holds |-> {}]]
    <3>1. [format |-> j.format, holds |-> {}] \in Archive
      BY <2>2 DEF Job, Format, Archive
    <3> QED BY <2>2, <3>1 DEF Named, OfName
  <2> QED BY <2>1, <2>2 DEF BeginMount, BeginAdd
<1>3. UNCHANGED <<drive, asked, cleared>>
  BY DEF BeginMount, BeginAdd
<1>4. InDrive'
  BY <1>3 DEF InDrive, Loaded, OfName
<1>5. PICK place \in {"pack", "eject", "insert"} :
        /\ pc' = [pc EXCEPT ![u] = place]
        /\ place = "pack" => j.format # "file"
  BY DEF BeginMount, BeginAdd, GoTo, Order
<1>6. job' = [job EXCEPT ![u] = j] /\ jobs' \in 0..MaxJobs
  BY MediaAssumption DEF BeginMount, BeginAdd
<1>7. TypeOK'
  BY <1>1, <1>2, <1>3, <1>5, <1>6
<1>8. AtWork'
  <2> SUFFICES ASSUME NEW v \in User, pc'[v] = "pack"
               PROVE  /\ job'[v].format # "file"
                      /\ Rewrites(job'[v].format) => archive'[FileOf(job'[v])] # NoArchive
    BY DEF AtWork
  <2>1. \A g \in File : archive[g] # NoArchive => archive'[g] # NoArchive
    BY MediaAssumption, FileType DEF BeginMount, BeginAdd, Job, Format
  <2>2. CASE v = u
    <3>1. j.format # "file" /\ job'[v] = j
      BY <1>5, <1>6, <2>2
    <3>2. BeginMount(u, j)
      BY <1>5, <2>2, <3>1 DEF BeginAdd
    <3> QED BY <3>1, <3>2, FileType, MediaAssumption DEF BeginMount, Job, Format
  <2>3. CASE v # u
    <3>1. pc[v] = "pack" /\ job'[v] = job[v]
      BY <1>5, <1>6, <2>3
    <3>2. FileOf(job[v]) \in File
      BY <3>1, WorkType, FileType DEF AtWork
    <3> QED BY <2>1, <3>1, <3>2 DEF AtWork
  <2> QED BY <2>2, <2>3
<1> QED BY <1>2, <1>4, <1>7, <1>8

LEMMA PackKeeps ==
  ASSUME IInit, NEW u \in User, Pack(u)
  PROVE  IInit'
<1> USE DEF IInit, IInv, TypeOK
<1>0. PICK j \in Job : j = job[u]
  BY WorkType DEF Pack
<1>1. j.format # "file" /\ (Rewrites(j.format) => archive[FileOf(j)] # NoArchive)
  BY <1>0 DEF Pack, AtWork
<1>2. PICK f \in File : f = FileOf(j) /\ f[1] = Base[j.path]
  BY <1>1, FileType
<1>3. j.path \in Path /\ j.format \in Packed
  BY <1>1 DEF Job, Format
<1>4. /\ UNCHANGED <<job, jobs, asked, cleared>>
      /\ pc[u] = "pack" /\ pc' = [pc EXCEPT ![u] = "eject"]
  BY DEF Pack, GoTo, Order
<1>5. CASE UNCHANGED <<archive, drive>>
  <2>1. TypeOK' /\ AtWork'
    BY <1>0, <1>4, <1>5, MediaAssumption DEF AtWork
  <2> QED BY <1>4, <1>5, <2>1 DEF Named, InDrive, Loaded, OfName
<1>6. CASE Packing(j)
  <2>1. PICK a \in Archive :
          /\ archive' = [archive EXCEPT ![f] = a]
          /\ \A x \in a.holds : Base[x] = f[1]
    <3>1. CASE Rewrites(j.format)
      <4>1. archive[f] \in Archive /\ archive' = [archive EXCEPT ![f] = [archive[f] EXCEPT !.holds = @ \cup {j.path}]]
        BY <1>1, <1>2, <1>6, <3>1 DEF Packing
      <4>2. PICK a : a = [archive[f] EXCEPT !.holds = @ \cup {j.path}]
        OBVIOUS
      <4>3. a \in Archive /\ a.holds = archive[f].holds \cup {j.path}
        BY <1>3, <4>1, <4>2 DEF Archive
      <4> QED BY <1>1, <1>2, <4>1, <4>2, <4>3, <3>1 DEF Named, OfName
    <3>2. CASE ~Rewrites(j.format)
      <4>1. PICK h : h = (IF archive[f] = NoArchive THEN {} ELSE archive[f].holds)
        OBVIOUS
      <4>2. h \subseteq Path /\ \A x \in h : Base[x] = f[1]
        BY <4>1 DEF Named, OfName, Archive
      <4>3. archive' = [archive EXCEPT ![f] = [format |-> j.format, holds |-> {j.path} \cup h]]
        BY <1>2, <1>6, <3>2, <4>1 DEF Packing
      <4>4. [format |-> j.format, holds |-> {j.path} \cup h] \in Archive
        BY <1>3, <4>2 DEF Archive
      <4> QED BY <1>2, <4>2, <4>3, <4>4
    <3> QED BY <3>1, <3>2
  <2>2. archive' \in [File -> Archive \cup {NoArchive}] /\ Named'
    BY <2>1 DEF Named, OfName
  <2>3. \A d \in Drive : \/ drive'[d] = drive[d]
                        \/ /\ drive[d] = MediumOf(j) /\ drive[d] # NoMedium
                           /\ drive'[d] = [drive[d] EXCEPT !.kept = archive[f]]
    BY <1>2, <1>6 DEF Packing
  <2>4. drive' \in [Drive -> Medium \cup {NoMedium}]
    BY <1>2, <1>6 DEF Packing, Medium
  <2>5. InDrive'
    <3> SUFFICES ASSUME NEW d \in Drive, Loaded(d)'
                 PROVE  /\ asked[d] \in Path
                        /\ drive'[d].file \in File
                        /\ Base[asked[d]] = drive'[d].file[1]
                        /\ OfName(drive'[d].file, drive'[d].kept)
      BY <1>4 DEF InDrive, OfName
    <3>1. CASE drive'[d] = drive[d]
      BY <3>1 DEF InDrive, Loaded
    <3>2. CASE /\ drive[d] = MediumOf(j) /\ drive[d] # NoMedium
               /\ drive'[d] = [drive[d] EXCEPT !.kept = archive[f]]
      <4>1. drive[d] = [kind |-> "archive", file |-> f, kept |-> NoArchive]
        BY <1>1, <1>2, <3>2 DEF MediumOf
      <4>2. drive'[d] = [kind |-> "archive", file |-> f, kept |-> archive[f]]
        BY <3>2, <4>1
      <4>3. Loaded(d)
        BY <3>2, <4>1 DEF Loaded
      <4> QED BY <4>1, <4>2, <4>3 DEF InDrive, Named
    <3> QED BY <2>3, <3>1, <3>2
  <2>6. \A v \in User : pc'[v] = "pack" => pc[v] = "pack"
    BY <1>4
  <2>7. \A g \in File : archive[g] # NoArchive => archive'[g] # NoArchive
    BY <2>1, MediaAssumption DEF Archive
  <2>8. AtWork'
    BY <1>4, <2>6, <2>7, WorkType, FileType DEF AtWork
  <2>9. TypeOK'
    BY <1>0, <1>4, <2>2, <2>4, MediaAssumption
  <2> QED BY <2>2, <2>5, <2>8, <2>9
<1> QED BY <1>0, <1>5, <1>6 DEF Pack

-----------------------------------------------------------------------------
\* The two exchanges of a mount, and media-del, leave the archives alone.
LEMMA EjectKeeps ==
  ASSUME IInit, NEW u \in User, Eject(u)
  PROVE  IInit'
<1> USE DEF IInit, IInv, TypeOK
<1>1. job[u] \in Job
  BY WorkType DEF Eject
<1>2. UNCHANGED <<archive, jobs, asked, cleared, job>> /\ pc' = [pc EXCEPT ![u] = "insert"]
  BY DEF Eject, Onward, Order, GoTo
<1>3. \A d \in Drive : drive'[d] \in {drive[d], NoMedium}
  BY DEF Eject
<1>4. drive' \in [Drive -> Medium \cup {NoMedium}]
  BY DEF Eject
<1>5. TypeOK' /\ AtWork'
  BY <1>1, <1>2, <1>4, MediaAssumption DEF AtWork, Eject
<1>6. Named' /\ InDrive'
  BY <1>2, <1>3 DEF Named, InDrive, Loaded, OfName
<1> QED BY <1>5, <1>6

LEMMA InsertKeeps ==
  ASSUME IInit, NEW u \in User, Insert(u)
  PROVE  IInit'
<1> USE DEF IInit, IInv, TypeOK
<1>0. PICK j \in Job : j = job[u]
  BY WorkType DEF Insert
<1>1. /\ UNCHANGED <<archive, jobs>>
      /\ pc' = [pc EXCEPT ![u] = "idle"] /\ job' = [job EXCEPT ![u] = NoJob]
  BY DEF Insert, Onward, Done, Order, GoTo
<1>2. AtWork' /\ Named'
  BY <1>1 DEF AtWork, Named, OfName
<1>3. j.drive \in Drive /\ j.path \in Path
  BY DEF Job
<1>4. \/ UNCHANGED <<drive, asked>>
      \/ /\ drive' = [drive EXCEPT ![j.drive] = MediumOf(j)]
         /\ asked' = [asked EXCEPT ![j.drive] = j.path]
  BY <1>0 DEF Insert
<1>5. cleared' \subseteq Drive
  BY <1>0, <1>3 DEF Insert
<1>6. TypeOK'
  BY <1>1, <1>3, <1>4, <1>5, MediumType
<1>7. InDrive'
  <2>1. CASE UNCHANGED <<drive, asked>>
    BY <2>1 DEF InDrive, Loaded, OfName
  <2>2. CASE /\ drive' = [drive EXCEPT ![j.drive] = MediumOf(j)]
             /\ asked' = [asked EXCEPT ![j.drive] = j.path]
    <3> SUFFICES ASSUME NEW d \in Drive, Loaded(d)'
                 PROVE  /\ asked'[d] \in Path
                        /\ drive'[d].file \in File
                        /\ Base[asked'[d]] = drive'[d].file[1]
                        /\ OfName(drive'[d].file, drive'[d].kept)
      BY DEF InDrive, OfName
    <3>1. CASE d = j.drive
      BY <1>3, <2>2, <3>1, FileType DEF MediumOf, Loaded, OfName
    <3>2. CASE d # j.drive
      BY <1>3, <2>2, <3>2 DEF InDrive, Loaded
    <3> QED BY <3>1, <3>2
  <2> QED BY <1>4, <2>1, <2>2
<1> QED BY <1>2, <1>6, <1>7

LEMMA RemoveKeeps ==
  ASSUME IInit, NEW u \in User, NEW d \in Drive, Remove(u, d)
  PROVE  IInit'
<1> USE DEF IInit, IInv, TypeOK, Remove
<1>1. TypeOK' /\ AtWork' /\ Named'
  BY DEF AtWork, Named, OfName
<1>2. InDrive'
  BY DEF InDrive, Loaded, OfName
<1> QED BY <1>1, <1>2

LEMMA Step == IInit /\ [Next]_mediaVars => IInit'
<1>1. ASSUME IInit, UNCHANGED mediaVars PROVE IInit'
  BY <1>1 DEF IInit, IInv, TypeOK, Named, InDrive, Loaded, OfName, AtWork, mediaVars
<1>2. ASSUME IInit, Next PROVE IInit'
  BY <1>2, BeginKeeps, PackKeeps, EjectKeeps, InsertKeeps, RemoveKeeps DEF Next
<1> QED BY <1>1, <1>2

\* What the invariant says holds of all mounts, whatever their names.
LEMMA Invariance == Spec => []IInit
BY Initial, Step, PTL DEF Spec

\* Types; and a user has a mount to work on exactly while at work.
THEOREM TypeCorrect == Spec => []TypeOK
<1>1. IInit => TypeOK
  BY DEF IInit, IInv
<1> QED BY <1>1, Invariance, PTL

\* If no two paths end alike, nothing foreign is ever seen in a drive.
THEOREM NeverForeign ==
  ASSUME Distinct
  PROVE  Spec => []NothingForeign
<1>1. IInit => NothingForeign
  <2> SUFFICES ASSUME IInit, NEW d \in Drive, Loaded(d), Shown(drive[d]) # NoArchive,
                      NEW x \in Shown(drive[d]).holds
               PROVE  x = asked[d]
    BY DEF NothingForeign
  <2>1. drive[d].file \in File /\ asked[d] \in Path /\ Base[asked[d]] = drive[d].file[1]
    BY DEF IInit, IInv, InDrive
  <2>2. Base[x] = drive[d].file[1]
    BY <2>1 DEF IInit, IInv, InDrive, Named, OfName, Shown
  <2>3. drive[d].kept \in Archive \cup {NoArchive}
    BY DEF IInit, IInv, TypeOK, Medium, Loaded
  <2>4. x \in Path
    BY <2>1, <2>3 DEF IInit, IInv, TypeOK, Archive, Shown
  <2> QED BY <2>1, <2>2, <2>4 DEF Distinct
<1> QED BY <1>1, Invariance, PTL

-----------------------------------------------------------------------------
(* Why a drive is empty.                                                   *)

\* Whoever is at work has a job that could be begun.
Begun == \A u \in User : pc[u] # "idle" => job[u].format \in Tools \cup {"file"}

LEMMA BegunKeeps ==
  ASSUME TypeOK, Begun, [Next]_mediaVars
  PROVE  Begun'
<1> USE DEF TypeOK, Begun
<1>1. ASSUME NEW u \in User, NEW j \in Job, BeginMount(u, j) \/ BeginAdd(u, j)
      PROVE Begun'
  <2>1. job' = [job EXCEPT ![u] = j] /\ j.format \in Tools \cup {"file"}
    BY <1>1 DEF BeginMount, BeginAdd, CanPack
  <2>2. \A v \in User : v # u => pc'[v] = pc[v]
    BY <1>1 DEF BeginMount, BeginAdd, GoTo
  <2> QED BY <2>1, <2>2
<1>2. ASSUME NEW u \in User, Pack(u) \/ Eject(u) \/ Insert(u)
      PROVE Begun'
  <2>1. pc[u] # "idle" /\ \A v \in User : v # u => pc'[v] = pc[v]
    BY <1>2 DEF Pack, Eject, Insert, Onward, Done, GoTo
  <2>2. \/ job' = job
        \/ job' = [job EXCEPT ![u] = NoJob] /\ pc'[u] = "idle"
    BY <1>2 DEF Pack, Eject, Insert, Onward, Done, GoTo
  <2> QED BY <2>1, <2>2
<1>3. ASSUME NEW u \in User, NEW d \in Drive, Remove(u, d)
      PROVE Begun'
  BY <1>3 DEF Remove
<1>4. CASE UNCHANGED mediaVars
  BY <1>4 DEF mediaVars
<1> QED BY <1>1, <1>2, <1>3, <1>4 DEF Next

LEMMA EmptyKeeps ==
  ASSUME IInit, Begun, EmptyForAReason, [Next]_mediaVars
  PROVE  EmptyForAReason'
<1> USE DEF IInit, IInv, TypeOK
<1>1. ASSUME NEW u \in User, NEW j \in Job, BeginMount(u, j) \/ BeginAdd(u, j)
      PROVE EmptyForAReason'
  <2>1. UNCHANGED <<drive, cleared>> /\ pc[u] = "idle"
    BY <1>1 DEF BeginMount, BeginAdd
  <2>2. \A v \in User : v # u => pc'[v] = pc[v] /\ job'[v] = job[v]
    BY <1>1 DEF BeginMount, BeginAdd, GoTo
  <2> QED BY <2>1, <2>2 DEF EmptyForAReason
<1>2. ASSUME NEW u \in User, Pack(u)
      PROVE EmptyForAReason'
  <2>1. pc[u] = "pack" /\ job' = job /\ cleared' = cleared
    BY <1>2 DEF Pack
  <2>2. \A v \in User : pc[v] = "insert" => pc'[v] = "insert"
    BY <1>2 DEF Pack, GoTo
  <2>3. \A d \in Drive : drive[d] # NoMedium => drive'[d] # NoMedium
    <3> SUFFICES ASSUME NEW d \in Drive, drive[d] # NoMedium PROVE drive'[d] # NoMedium
      OBVIOUS
    <3>1. drive'[d] = drive[d] \/ drive'[d] = [drive[d] EXCEPT !.kept = archive[FileOf(job[u])]]
      BY <1>2 DEF Pack, Packing
    <3>2. CASE drive'[d] = drive[d]
      BY <3>2
    <3>3. CASE drive'[d] # drive[d]
      <4>1. drive' \in [Drive -> Medium \cup {NoMedium}]
        BY <1>2, PackKeeps
      <4>2. drive[d] = MediumOf(job[u]) /\ job[u] \in Job
        BY <1>2, <3>3, WorkType DEF Pack, Packing
      <4>3. job[u].format # "file"
        BY <1>2 DEF Pack, AtWork
      <4>4. drive[d] = [kind |-> "archive", file |-> FileOf(job[u]), kept |-> NoArchive]
        BY <4>2, <4>3 DEF MediumOf
      <4>5. FileOf(job[u]) \in File
        BY <4>2, <4>3, FileType
      <4>6. drive'[d] = [kind |-> "archive", file |-> FileOf(job[u]), kept |-> archive[FileOf(job[u])]]
        BY <3>1, <3>3, <4>4
      <4>7. drive'[d] \in Medium
        BY <4>5, <4>6 DEF Medium
      <4> QED BY <4>7, MediumAssumption
    <3> QED BY <3>2, <3>3
  <2> QED BY <2>1, <2>2, <2>3 DEF EmptyForAReason
<1>3. ASSUME NEW u \in User, Eject(u)
      PROVE EmptyForAReason'
  <2>1. /\ job' = job /\ cleared' = cleared
        /\ pc' = [pc EXCEPT ![u] = "insert"]
        /\ \A d \in Drive : drive'[d] = drive[d] \/ d = job[u].drive
    BY <1>3 DEF Eject, Onward, Order, GoTo
  <2> QED BY <2>1 DEF EmptyForAReason
<1>4. ASSUME NEW u \in User, Insert(u)
      PROVE EmptyForAReason'
  <2>1. PICK j \in Job : j = job[u]
    BY <1>4, WorkType DEF Insert
  <2>2. j.drive \in Drive /\ j.format \in Tools \cup {"file"} /\ MediumOf(j) # NoMedium
    BY <1>4, <2>1, MediumType, MediumAssumption DEF Job, Begun, Insert
  <2>3. \A v \in User : v # u => pc'[v] = pc[v] /\ job'[v] = job[v]
    BY <1>4 DEF Insert, Onward, Done, Order, GoTo
  <2>4. \/ /\ drive' = [drive EXCEPT ![j.drive] = MediumOf(j)]
           /\ cleared' = cleared \ {j.drive}
        \/ drive' = drive /\ cleared' = cleared \cup {j.drive}
    BY <1>4, <2>1, <2>2 DEF Insert
  <2>5. \A d \in Drive : drive'[d] = NoMedium =>
          d \in cleared' \/ (d # j.drive /\ d \notin cleared /\ drive[d] = NoMedium)
    BY <2>2, <2>4
  <2> QED BY <2>1, <2>3, <2>5 DEF EmptyForAReason
<1>5. ASSUME NEW u \in User, NEW d \in Drive, Remove(u, d)
      PROVE EmptyForAReason'
  BY <1>5 DEF Remove, EmptyForAReason
<1>6. CASE UNCHANGED mediaVars
  BY <1>6 DEF mediaVars, EmptyForAReason
<1> QED BY <1>1, <1>2, <1>3, <1>4, <1>5, <1>6 DEF Next

\* Whatever mounts overlap or fail, an empty drive has one of the reasons of
\* EmptyForAReason; a mount for which there is no program is none.
THEOREM EmptyIsExplained == Spec => []EmptyForAReason
<1> DEFINE Inv == IInit /\ Begun /\ EmptyForAReason
<1>1. Init => Inv
  BY Initial DEF Init, Begun, EmptyForAReason
<1>2. Inv /\ [Next]_mediaVars => Inv'
  <2>1. IInit => TypeOK
    BY DEF IInit, IInv
  <2> QED BY <2>1, Step, BegunKeeps, EmptyKeeps
<1>3. Inv => EmptyForAReason
  OBVIOUS
<1> HIDE DEF Inv
<1> QED BY <1>1, <1>2, <1>3, PTL DEF Spec
=============================================================================
