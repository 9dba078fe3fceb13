------------------------------- MODULE Media -------------------------------
(***************************************************************************)
(* Media in the drives of running VMs: MountItem and MountPath of mount.c, *)
(* ImageMediaAdd and ImageMediaRemove of images.c, as several users run    *)
(* them.  A mount packs a directory into an archive under /tmp, empties    *)
(* the drive and inserts the archive.  The archive is named for the last   *)
(* part of the path only, stays where it is, and the next mount of that    *)
(* name writes over it while a guest may be reading it.  Each exchange     *)
(* with QEMU is one step here; QmpSession has the steps of an exchange.    *)
(***************************************************************************)
EXTENDS Integers, Sequences, FiniteSets

CONSTANTS
  User,      \* qemu_mgr processes that mount
  Drive,     \* drives, each of some running VM
  Path,      \* files and directories of the host
  Base,      \* Base[p]: the last part of path p
  Tools,     \* the formats for which a program was found
  MaxJobs,   \* bound: mounts begun
  NoMedium, NoArchive, NoJob

Packed == {"iso", "tar", "tgz", "txz", "zip", "7za"}
Format == Packed \cup {"file"}

ASSUME MediaAssumption ==
  /\ Tools \subseteq Packed
  /\ MaxJobs \in Nat
  /\ NoArchive \notin [format : Packed, holds : SUBSET Path]
  /\ NoJob \notin [drive : Drive, format : Format, path : Path]

VARIABLES
  archive,   \* archive[f]: its format and the paths it holds, or NoArchive
  drive,     \* drive[d]: what is in it
  pc, job,   \* of each user
  jobs,      \* mounts begun so far
  (* history *)
  asked,     \* asked[d]: the path whose insertion was last carried out
  cleared    \* drives emptied by a user, or for a reason out of our hands

mediaVars == <<archive, drive, pc, job, jobs, asked, cleared>>

-----------------------------------------------------------------------------
\* A zip archive is given the suffix of a compressed tar archive.
Suffix(format) == CASE format = "zip" -> "tgz" [] format = "7za" -> "7z" [] OTHER -> format
OneName(path, format) == <<Base[CHOOSE p \in Path : TRUE], Suffix(format)>>  \* mutant
ArchiveOf(path, format) == <<Base[path], Suffix(format)>>
File == {<<b, s>> : b \in {Base[p] : p \in Path}, s \in {Suffix(f) : f \in Packed}}

Archive == [format : Packed, holds : SUBSET Path]
Job == [drive : Drive, format : Format, path : Path]

\* What is in a drive: a file of the host itself; or an archive, which is the
\* file of that name unless that has been replaced by another since.
Medium == [kind : {"file"}, path : Path]
            \cup [kind : {"archive"}, file : File, kept : Archive \cup {NoArchive}]
ASSUME MediumAssumption == NoMedium \notin Medium
FileOf(j) == ArchiveOf(j.path, j.format)
MediumOf(j) == IF j.format = "file" THEN [kind |-> "file", path |-> j.path]
               ELSE [kind |-> "archive", file |-> FileOf(j), kept |-> NoArchive]
Shown(m) == IF m.kept = NoArchive THEN archive[m.file] ELSE m.kept

Init ==
  /\ archive = [f \in File |-> NoArchive]
  /\ drive = [d \in Drive |-> NoMedium]
  /\ pc = [u \in User |-> "idle"]
  /\ job = [u \in User |-> NoJob]
  /\ jobs = 0
  /\ asked = [d \in Drive |-> NoMedium]
  /\ cleared = Drive

\* MountPath takes the medium out before it inserts the new one.
InsertFirst == <<"insert", "eject">>  \* mutant
Order == <<"eject", "insert">>

GoTo(u, place) == pc' = [pc EXCEPT ![u] = place]

\* A mount: without a program for the format nothing is done at all.
AnyTool(format) == TRUE  \* mutant
CanPack(format) == format \in Tools

Rewrites(format) == format \notin {"zip", "7za"}

BeginMount(u, j) ==
  /\ pc[u] = "idle"
  /\ jobs < MaxJobs
  /\ jobs' = jobs + 1
  /\ j.format = "file" \/ CanPack(j.format)
  /\ job' = [job EXCEPT ![u] = j]
  /\ GoTo(u, IF j.format = "file" THEN Order[1] ELSE "pack")
  \* tar and mkisofs truncate the file they are going to write.
  /\ archive' = IF j.format # "file" /\ Rewrites(j.format)
                THEN [archive EXCEPT ![FileOf(j)] = [format |-> j.format, holds |-> {}]]
                ELSE archive
  /\ UNCHANGED <<drive, asked, cleared>>

\* media-add without a prefix inserts at once.
BeginAdd(u, j) ==
  /\ pc[u] = "idle"
  /\ jobs < MaxJobs
  /\ jobs' = jobs + 1
  /\ j.format = "file"
  /\ job' = [job EXCEPT ![u] = j]
  /\ GoTo(u, "insert")
  /\ UNCHANGED <<archive, drive, asked, cleared>>

\* tar and mkisofs write into the file; zip and 7za add to an archive of their
\* own format, and replace the file by a new one of that name.
Packing(j) ==
  LET f == FileOf(j)  old == archive[f] IN
  IF Rewrites(j.format)
  THEN /\ archive' = [archive EXCEPT ![f].holds = @ \cup {j.path}]
       /\ UNCHANGED drive
  ELSE /\ old \in {NoArchive} \cup [format : {j.format}, holds : SUBSET Path]
       /\ archive' = [archive EXCEPT ![f] =
            [format |-> j.format,
             holds |-> {j.path} \cup (IF old = NoArchive THEN {} ELSE old.holds)]]
       /\ drive' = [d \in Drive |->
            IF drive[d] # NoMedium /\ drive[d] = MediumOf(j)
            THEN [drive[d] EXCEPT !.kept = old] ELSE drive[d]]

\* The program ends, with or without success: nobody looks.
Pack(u) ==
  /\ pc[u] = "pack"
  /\ GoTo(u, Order[1])
  /\ Packing(job[u]) \/ UNCHANGED <<archive, drive>>
  /\ UNCHANGED <<job, jobs, asked, cleared>>

KeepsJob(u) == UNCHANGED job /\ GoTo(u, "idle")  \* mutant
Done(u) == job' = [job EXCEPT ![u] = NoJob] /\ GoTo(u, "idle")

\* The step of the mount that follows, if any.
Onward(u, place) ==
  IF Order[1] = place THEN GoTo(u, Order[2]) /\ UNCHANGED job ELSE Done(u)

\* ImageMediaRemove as part of a mount: an exchange that may come to nothing.
Eject(u) ==
  /\ pc[u] = "eject"
  /\ \/ drive' = [drive EXCEPT ![job[u].drive] = NoMedium]
     \/ UNCHANGED drive
  /\ Onward(u, "eject")
  /\ UNCHANGED <<archive, jobs, asked, cleared>>

\* ImageMediaAdd.  It fails if there is no such file, and may be refused.
Exists(j) == j.format = "file" \/ FileOf(j) \in {f \in File : archive[f] # NoArchive}

Insert(u) ==
  /\ pc[u] = "insert"
  /\ LET j == job[u] IN
     \/ /\ Exists(j)
        /\ drive' = [drive EXCEPT ![j.drive] = MediumOf(j)]
        /\ asked' = [asked EXCEPT ![j.drive] = j.path]
        /\ cleared' = cleared \ {j.drive}
     \/ /\ UNCHANGED <<drive, asked>>
        /\ cleared' = IF j.format \in Tools \cup {"file"} THEN cleared \cup {j.drive}
                      ELSE cleared
  /\ Onward(u, "insert")
  /\ UNCHANGED <<archive, jobs>>

\* media-del.
Remove(u, d) ==
  /\ pc[u] = "idle"
  /\ drive[d] # NoMedium
  /\ drive' = [drive EXCEPT ![d] = NoMedium]
  /\ cleared' = cleared \cup {d}
  /\ UNCHANGED <<archive, pc, job, jobs, asked>>

Next ==
  \/ \E u \in User : \E j \in Job : BeginMount(u, j) \/ BeginAdd(u, j)
  \/ \E u \in User : Pack(u) \/ Eject(u) \/ Insert(u)
  \/ \E u \in User : \E d \in Drive : Remove(u, d)

Spec == Init /\ [][Next]_mediaVars

-----------------------------------------------------------------------------
(* Properties.                                                             *)

TypeOK ==
  /\ archive \in [File -> Archive \cup {NoArchive}]
  /\ drive \in [Drive -> Medium \cup {NoMedium}]
  /\ pc \in [User -> {"idle", "pack", "eject", "insert"}]
  /\ job \in [User -> Job \cup {NoJob}]
  /\ \A u \in User : pc[u] = "idle" <=> job[u] = NoJob
  /\ jobs \in 0..MaxJobs
  /\ asked \in [Drive -> Path \cup {NoMedium}]
  /\ cleared \subseteq Drive

Loaded(d) == drive[d] # NoMedium /\ drive[d].kind = "archive"

\* Whoever mounts what, over whichever archive that lies about or is in use,
\* and however their steps interleave: if no two paths end alike, a guest sees
\* nothing in a drive that does not belong to the path mounted there.
NothingForeign ==
  \A d \in Drive : (Loaded(d) /\ Shown(drive[d]) # NoArchive) =>
    Shown(drive[d]).holds \subseteq {asked[d]}

\* A drive is empty only if a user removed the medium, or QEMU or the program
\* that packs failed, or somebody has just emptied it to insert another one.
\* In particular a mount that cannot be carried out leaves the drive alone.
EmptyForAReason ==
  \A d \in Drive : drive[d] = NoMedium =>
    d \in cleared \/ \E u \in User : pc[u] = "insert" /\ job[u].drive = d
=============================================================================
