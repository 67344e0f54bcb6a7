----------------------------- MODULE Nhbackup -----------------------------
(***************************************************************************)
(* A backup medium and the runs of nhbackup that share it: a backup of     *)
(* each machine, a cleanup and a verification.  The program takes no lock, *)
(* so which runs overlap is up to whoever starts them: Overlap is the set  *)
(* of pairs of operations that may be under way at the same time.          *)
(***************************************************************************)
EXTENDS Backup, Cleanup, Verify

CONSTANT Overlap

Operation == {"backup", "cleanup", "verify"}

ASSUME OverlapAssumption ==
    \A s \in Overlap : \E a, b \in Operation : s = {a, b}

\* An index that is rewritten in place while it is read is outside the model.
ASSUME OverwriteAssumption ==
    OverwriteIndex => \A s \in Overlap : s = {"backup"}

vars == <<mvars, bk, cl, vf>>

TypeOK == MediumTypeOK /\ BackupTypeOK /\ CleanupTypeOK /\ VerifyTypeOK

Init == MediumInit /\ BackupInit /\ CleanupInit /\ VerifyInit

Running == {op \in Operation :
              \/ op = "backup" /\ \E p \in Host : BackingUp(p)
              \/ op = "cleanup" /\ Cleaning
              \/ op = "verify" /\ Verifying}

MayStart(op) == \A other \in Running : {op, other} \in Overlap

----------------------------------------------------------------------------
BackupNext(p) ==
    /\ \/ MayStart("backup") /\ \E d \in Date : StartBackup(p, d)
       \/ BackupStep(p)
    /\ UNCHANGED <<cl, vf>>

CleanupNext ==
    /\ (MayStart("cleanup") /\ StartCleanup) \/ CleanupStep
    /\ UNCHANGED <<bk, vf>>

VerifyNext ==
    /\ \/ MayStart("verify") /\ \E n \in DOMAIN idx : StartVerify(n)
       \/ VerifyStep
    /\ UNCHANGED <<bk, cl>>

\* A run dies: killed, out of disk, or an error from a filesystem call.
CrashBackup(p) ==
    /\ BackingUp(p) /\ Event
    /\ ExitBackup(p)
    /\ UNCHANGED <<files, idx, objs, tmps, cl, vf>>

CrashCleanup ==
    /\ Cleaning /\ Event
    /\ ExitCleanup
    /\ UNCHANGED <<files, medium, bk, vf>>

CrashVerify ==
    /\ Verifying /\ Event
    /\ vf' = VerifyIdle
    /\ UNCHANGED <<files, medium, bk, cl>>

Environment ==
    /\ \/ \E p \in Host, f \in File : Edit(p, f)
       \/ Tick
       \/ \E n \in Published : DeleteIndex(n)
    /\ UNCHANGED <<bk, cl, vf>>

Next ==
    \/ \E p \in Host : BackupNext(p) \/ CrashBackup(p)
    \/ CleanupNext \/ CrashCleanup
    \/ VerifyNext \/ CrashVerify
    \/ Environment

Spec == Init /\ [][Next]_vars

\* Once started a run goes on: no step of it waits for another run.
RunsProgress ==
    /\ \A p \in Host : WF_vars(BackupStep(p) /\ UNCHANGED <<cl, vf>>)
    /\ WF_vars(CleanupStep /\ UNCHANGED <<bk, vf>>)
    /\ WF_vars(VerifyStep /\ UNCHANGED <<bk, cl>>)

\* A backup that is due, or that failed, is started again sooner or later,
\* though never during a run it may not overlap with.
BackupsScheduled ==
    \A p \in Host : \A d \in Date :
       SF_vars(MayStart("backup") /\ StartBackup(p, d) /\ UNCHANGED <<cl, vf>>)

ProgressSpec == Spec /\ RunsProgress
FairSpec == ProgressSpec /\ BackupsScheduled

----------------------------------------------------------------------------
(***************************************************************************)
(* Safety.                                                                 *)
(***************************************************************************)
\* An object under its final name holds the bytes its name is the hash of,
\* whatever is edited while it is copied and wherever a run stops: the copy
\* goes to HASH.tmp, is rehashed as it is read, and only then gets its name
\* (backup.cc:313-343).
ObjectsIntact == \A h \in DOMAIN objs : Intact(h)

\* An index under its final name can be restored in full at any moment: it
\* has a line for each file and the repository the object of each hash, so
\* neither a backup that trusts in an object being there, nor a cleanup that
\* finds it unneeded, nor a crash of either breaks an older backup.
PublishedRestorable ==
    \A n \in Published : \A f \in File :
       \/ idx[n].data[f] # None
       \/ /\ idx[n].sha1[f] \in DOMAIN objs
          /\ Intact(idx[n].sha1[f])

\* The file has not changed since its stat data were taken, as far as anyone
\* who reads the time in seconds and each second's first change can tell.
Unchanged(p, f, st) == StatOf(src[p][f]) = st /\ ~ src[p][f].again

\* The line backup wrote for a file that has not changed since its stat
\* describes that file, though the line was made by reading it block by block
\* between edits, or from the hint of an earlier run (backup.cc:215-268).
LineSound ==
    \A p \in Host : BackingUp(p) /\ Draft(p) \in DOMAIN idx => LET x == idx[Draft(p)] IN
       \A f \in File : bk[p].stat[f] # None /\ Unchanged(p, f, bk[p].stat[f]) =>
          /\ x.data[f] \in {None, src[p][f].data}
          /\ x.sha1[f] \in {None, Hash(src[p][f].data)}

\* A hint that would be used (backup.cc:236-240) has the hash of the file it
\* is used for, if no second saw two changes of it.
HintSound ==
    \A p \in Host, f \in File :
       LET k == hintfile[p][f] IN
       HintFits(k, StatOf(src[p][f])) /\ ~ src[p][f].again
          => k.hash = Hash(src[p][f].data)

\* What a cleanup removes it removes on the word of every index that is on the
\* medium by then, each of them down to its [end]: one that is truncated, or
\* whose hashes are not all counted, stops it first (cleanup.cc:38-70).
SweepInformed ==
    cl.pc \in {"list", "sweep", "check", "remove"} =>
       \A n \in DOMAIN idx : idx[n].end /\ HashesOf(idx[n]) \subseteq cl.needed

\* A cleanup that comes to its end has left no .tmp of a dead backup and only
\* objects that an index needs, with --detect-bogus none with wrong contents,
\* but for files that it has reported as not removed (cleanup.cc:92-136).
SweepComplete ==
    cl.pc = "sweep" /\ cl.names = {} /\ DeleteClean =>
       /\ \A h \in DOMAIN tmps : <<h, "tmp">> \in cl.failed
       /\ \A h \in DOMAIN objs : \/ <<h, "obj">> \in cl.failed
                                 \/ h \in cl.needed /\ (DetectBogus => Intact(h))

\* A verification without an error so far has seen every object it has passed
\* intact, and they still are: what it says of the index is true when it ends.
VerifySound ==
    vf.pc = "verify" /\ vf.ok /\ vf.index \in {idx[n] : n \in Published} =>
       \A h \in HashesOf(vf.index) \ vf.left : h \in DOMAIN objs /\ Intact(h)

(***************************************************************************)
(* What a step may never do.                                               *)
(***************************************************************************)
\* Verification and cleanup take away no object that is both intact and
\* needed: --detect-bogus is to delete those "that are wrong" (hbackup.1).
OnlyWrongDeleted ==
    [][\A h \in DOMAIN objs \ DOMAIN objs' :
          Intact(h) => \A n \in Published : h \notin HashesOf(idx[n])]_vars

(***************************************************************************)
(* The medium as a collection of snapshots: one for each published index,  *)
(* as do_restore would write it out.                                       *)
(***************************************************************************)
Snapshots == [n \in Published |-> [f \in File |-> Restored(idx[n], f)]]

Store == INSTANCE SnapshotStore
            WITH Name <- IndexName, Data <- Bytes, snap <- Snapshots

\* Whatever backup, cleanup and verification do, the medium behaves like such
\* a collection: a snapshot appears whole with the rename of its index (with
\* --overwrite: goes when the index is truncated and reappears with [end]),
\* and what a restore gives for it is the same until its index is deleted.
StoreSpec == Store!Spec

(***************************************************************************)
(* Liveness.                                                               *)
(***************************************************************************)
\* Every run ends: over and over there is none under way.
RunsEnd ==
    /\ \A p \in Host : []<>(~ BackingUp(p))
    /\ []<>(~ Cleaning)
    /\ []<>(~ Verifying)

\* Once edits and crashes are over, each backup that is retried succeeds: no
\* .tmp, truncated index or orphaned object of a dead run stops it for good.
RetrySucceeds == <>[](\A p \in Host, d \in Date : Final(p, d) \in Published)
=============================================================================
