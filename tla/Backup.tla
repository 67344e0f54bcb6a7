------------------------------ MODULE Backup ------------------------------
(***************************************************************************)
(* nhbackup --backup: do_backup and backup_dir.  One run per machine at a  *)
(* time.  A directory is taken in two passes: the first stats and hashes   *)
(* its files and writes their lines into the index, the second copies into *)
(* the repository the objects the first pass found to be needed.  A file   *)
(* may be edited between any two steps.                                    *)
(***************************************************************************)
EXTENDS Medium

VARIABLE bk     \* bk[p]: the run of p

(***************************************************************************)
(* pc says what the run does next: "idle" when there is no run,            *)
(*   "dir"     enter directory number dir of Tree                          *)
(*   "scan"    first pass, over the files in todo                          *)
(*   "test"    second pass, over the queue hashables                       *)
(*   "open", "copy", "rename"  the steps that store one object             *)
(*   "end", "hints", "publish" the end of do_backup                        *)
(* ctx is what the file being read has given so far, which is also all     *)
(* that the hash of it depends on.                                         *)
(***************************************************************************)
Hashable == [path : File, hash : HashName]

Run == [pc : {"idle", "dir", "scan", "test", "open", "copy", "rename",
              "end", "hints", "publish"},
        date : Date \cup {None},
        dir : Nat,
        todo : Seq(File),
        stat : [File -> {None} \cup Stat],
        hints : Hints,
        newhints : Hints,
        inrepo : SUBSET HashName,
        hashables : Seq(Hashable),
        ctx : Bytes]

BackupIdle == [pc |-> "idle", date |-> None, dir |-> 0, todo |-> <<>>,
               stat |-> [f \in File |-> None],
               hints |-> NoHints, newhints |-> NoHints,
               inrepo |-> {}, hashables |-> <<>>, ctx |-> <<>>]

BackupTypeOK == bk \in [Host -> Run]
BackupInit == bk = [p \in Host |-> BackupIdle]

BackingUp(p) == bk[p].pc # "idle"
Draft(p) == Outfile(p, bk[p].date)

\* The run of p is r from now on.
Becomes(p, r) == bk' = [bk EXCEPT ![p] = r]

\* The process ends, and with it everything that is not on the medium.  A
\* call of fatal and an exception that reaches main do the same.
ExitBackup(p) ==
    /\ Becomes(p, BackupIdle)
    /\ wfd' = [wfd EXCEPT ![p] = None]

----------------------------------------------------------------------------
(***************************************************************************)
(* do_backup, up to the call of backup_dir.                                *)
(***************************************************************************)
\* Mutant: the test looks for the name of the draft.
IndexFreeTmp(p, d) == OverwriteIndex \/ Tmp(p, d) \notin DOMAIN idx

IndexFree(p, d) == OverwriteIndex \/ Final(p, d) \notin DOMAIN idx

StartBackup(p, d) ==
    /\ bk[p].pc = "idle"
    /\ IndexFree(p, d)
    /\ idx' = Put(idx, Outfile(p, d), EmptyIndex)
    /\ Becomes(p, [BackupIdle EXCEPT
                      !.pc = "dir", !.date = d, !.dir = 1,
                      !.hints = IF UseHints THEN hintfile[p] ELSE NoHints])
    /\ UNCHANGED <<files, objs, tmps, wfd, events>>

(***************************************************************************)
(* backup_dir, first pass.                                                 *)
(***************************************************************************)
StatOf(s) == [stamp |-> s.stamp, size |-> Len(s.data)]

FilesIn(dir) == {Tree[dir][i] : i \in DOMAIN Tree[dir]}

Statted(p, F) == [f \in File |-> IF f \in F THEN StatOf(src[p][f])
                                              ELSE bk[p].stat[f]]

EnterDir(p) ==
    /\ bk[p].pc = "dir"
    /\ bk[p].dir \in DOMAIN Tree
    /\ Becomes(p, [bk[p] EXCEPT
                      !.pc = "scan", !.todo = Tree[bk[p].dir],
                      !.stat = Statted(p, FilesIn(bk[p].dir))])
    /\ UNCHANGED <<files, medium, events>>

\* The run is at a file, small or large going by its stat data.
Scanning(p) == bk[p].pc = "scan" /\ bk[p].todo # <<>>
Current(p) == Head(bk[p].todo)
Large(p) == bk[p].stat[Current(p)].size > StoreLimit

\* A small file: its first st_size bytes go into the index.
StoreSmall(p) ==
    /\ Scanning(p) /\ ~ Large(p)
    /\ LET f == Current(p)
           d == src[p][f].data
           n == bk[p].stat[f].size
       IN /\ Len(d) >= n
          /\ idx' = [idx EXCEPT ![Draft(p)].data[f] = SubSeq(d, 1, n)]
    /\ Becomes(p, [bk[p] EXCEPT !.todo = Tail(bk[p].todo)])
    /\ UNCHANGED <<files, objs, tmps, wfd, events>>

\* ... fatal("unexpected EOF reading ...") if it has shrunk since the stat.
SmallShrunk(p) ==
    /\ Scanning(p) /\ ~ Large(p)
    /\ Len(src[p][Current(p)].data) < bk[p].stat[Current(p)].size
    /\ ExitBackup(p)
    /\ UNCHANGED <<files, idx, objs, tmps, events>>

\* Mutant: the stat data are taken anew once the file is hashed.
HintOfLater(p, f, h) ==
    [hash |-> h, stamp |-> src[p][f].stamp, size |-> Len(src[p][f].data)]

HintOf(p, f, h) ==
    [hash |-> h, stamp |-> bk[p].stat[f].stamp, size |-> bk[p].stat[f].size]

\* The repository is not known to have the hash.
NewHash(p, h) == h \notin bk[p].inrepo

\* What is done with the hash of a large file, hashed or taken from a hint.
Record(p, h) ==
    LET f == Current(p)
        r == bk[p]
        k == IF UseHints THEN HintOf(p, f, h) ELSE None
        q == IF NewHash(p, h) THEN <<[path |-> f, hash |-> h]>> ELSE <<>>
    IN
    /\ Becomes(p, [r EXCEPT !.todo = Tail(r.todo), !.ctx = <<>>,
                            !.newhints = [r.newhints EXCEPT ![f] = k],
                            !.hashables = r.hashables \o q,
                            !.inrepo = r.inrepo \cup {h}])
    /\ idx' = [idx EXCEPT ![Draft(p)].sha1[f] = h]
    /\ UNCHANGED <<files, objs, tmps, wfd, events>>

\* Mutant: the size alone decides.
HintFitsSize(k, st) == k # None /\ k.size = st.size

HintFits(k, st) == k # None /\ k.size = st.size /\ k.stamp = st.stamp

MatchingHint(p) == LET f == Current(p) IN HintFits(bk[p].hints[f], bk[p].stat[f])

UseHint(p) ==
    /\ Scanning(p) /\ Large(p) /\ MatchingHint(p)
    /\ Record(p, bk[p].hints[Current(p)].hash)

\* One block of the file being read, by hashfile or by the copy loop.
ReadBlock(p, f) ==
    /\ Len(bk[p].ctx) < Len(src[p][f].data)
    /\ LET c == bk[p].ctx IN
       Becomes(p, [bk[p] EXCEPT !.ctx = Append(c, src[p][f].data[Len(c) + 1])])

\* Mutant: the end is one block further on.
AtEofLate(p, f) == Len(bk[p].ctx) > Len(src[p][f].data)

AtEof(p, f) == Len(bk[p].ctx) >= Len(src[p][f].data)

HashRead(p) ==
    /\ Scanning(p) /\ Large(p) /\ ~ MatchingHint(p)
    /\ ReadBlock(p, Current(p))
    /\ UNCHANGED <<files, medium, events>>

HashDone(p) ==
    /\ Scanning(p) /\ Large(p) /\ ~ MatchingHint(p)
    /\ AtEof(p, Current(p))
    /\ Record(p, Hash(bk[p].ctx))

ScanDone(p) ==
    /\ bk[p].pc = "scan" /\ bk[p].todo = <<>>
    /\ Becomes(p, [bk[p] EXCEPT !.pc = "test"])
    /\ UNCHANGED <<files, medium, events>>

(***************************************************************************)
(* backup_dir, second pass.                                                *)
(***************************************************************************)
Wanted(p) == Head(bk[p].hashables).hash
Source(p) == Head(bk[p].hashables).path

Stored(h) == h \in DOMAIN objs

TestExists(p) ==
    /\ bk[p].pc = "test" /\ bk[p].hashables # <<>>
    /\ IF Stored(Wanted(p))
       THEN Becomes(p, [bk[p] EXCEPT !.hashables = Tail(bk[p].hashables)])
       ELSE Becomes(p, [bk[p] EXCEPT !.pc = "open"])
    /\ UNCHANGED <<files, medium, events>>

\* Mutant: O_EXCL, so that the .tmp of a dead run is an error.
OpenTmpExcl(p) ==
    /\ bk[p].pc = "open"
    /\ IF Wanted(p) \in DOMAIN tmps
       THEN ExitBackup(p) /\ UNCHANGED tmps
       ELSE /\ OpenTrunc(p, Wanted(p))
            /\ Becomes(p, [bk[p] EXCEPT !.pc = "copy", !.ctx = <<>>])
    /\ UNCHANGED <<files, idx, objs, events>>

\* The directories of the object are made if need be: no other object's path
\* depends on that.
OpenTmp(p) ==
    /\ bk[p].pc = "open"
    /\ OpenTrunc(p, Wanted(p))
    /\ Becomes(p, [bk[p] EXCEPT !.pc = "copy", !.ctx = <<>>])
    /\ UNCHANGED <<files, idx, objs, events>>

\* A block is held in the buffer of the File until the next one needs it.
WriteHeld(p) == WriteBlock(p, Len(bk[p].ctx) - 1, bk[p].ctx[Len(bk[p].ctx)])

CopyRead(p) ==
    /\ bk[p].pc = "copy"
    /\ ReadBlock(p, Source(p))
    /\ IF bk[p].ctx = <<>> THEN UNCHANGED <<objs, tmps>> ELSE WriteHeld(p)
    /\ UNCHANGED <<files, idx, wfd, events>>

\* Mutant: only the length is checked again.
RecheckFailsLength(p) ==
    RecheckHash /\ Len(bk[p].ctx) # Len(Wanted(p).sha1)

RecheckFails(p) == RecheckHash /\ Hash(bk[p].ctx) # Wanted(p)

\* End of file: the recheck of the hash, the flush and the close.
CopyDone(p) ==
    /\ bk[p].pc = "copy" /\ AtEof(p, Source(p))
    /\ ~ RecheckFails(p)
    /\ IF bk[p].ctx = <<>> THEN UNCHANGED <<objs, tmps>> ELSE WriteHeld(p)
    /\ wfd' = [wfd EXCEPT ![p] = None]
    /\ Becomes(p, [bk[p] EXCEPT !.pc = "rename", !.ctx = <<>>])
    /\ UNCHANGED <<files, idx, events>>

\* ... fatal("... changed hash between test and write"), nothing flushed.
CopyChanged(p) ==
    /\ bk[p].pc = "copy" /\ AtEof(p, Source(p))
    /\ RecheckFails(p)
    /\ ExitBackup(p)
    /\ UNCHANGED <<files, idx, objs, tmps, events>>

RenameObj(p) ==
    /\ bk[p].pc = "rename"
    /\ RenameTmp(Wanted(p))
    /\ Becomes(p, [bk[p] EXCEPT !.pc = "test",
                                !.hashables = Tail(bk[p].hashables)])
    /\ UNCHANGED <<files, idx, events>>

\* ... ENOENT, if somebody else took the .tmp away.
RenameFails(p) ==
    /\ bk[p].pc = "rename"
    /\ Wanted(p) \notin DOMAIN tmps
    /\ ExitBackup(p)
    /\ UNCHANGED <<files, idx, objs, tmps, events>>

DirDone(p) ==
    /\ bk[p].pc = "test" /\ bk[p].hashables = <<>>
    /\ LET next == bk[p].dir + 1 IN
       Becomes(p, [bk[p] EXCEPT
                      !.dir = next,
                      !.pc = IF next \in DOMAIN Tree THEN "dir" ELSE "end"])
    /\ UNCHANGED <<files, medium, events>>

(***************************************************************************)
(* do_backup, after backup_dir.                                            *)
(***************************************************************************)
Finish(p) ==
    /\ bk[p].pc = "end"
    /\ idx' = [idx EXCEPT ![Draft(p)].end = TRUE]
    /\ Becomes(p, [bk[p] EXCEPT !.pc = IF UseHints THEN "hints" ELSE "publish"])
    /\ UNCHANGED <<files, objs, tmps, wfd, events>>

SaveHints(p) ==
    /\ bk[p].pc = "hints"
    /\ hintfile' = [hintfile EXCEPT ![p] = bk[p].newhints]
    /\ Becomes(p, [bk[p] EXCEPT !.pc = "publish"])
    /\ UNCHANGED <<src, clock, medium, events>>

Publish(p) ==
    /\ bk[p].pc = "publish"
    /\ LET d == bk[p].date IN
       idx' = IF OverwriteIndex THEN idx
              ELSE Drop(Put(idx, Final(p, d), idx[Tmp(p, d)]), Tmp(p, d))
    /\ Becomes(p, BackupIdle)
    /\ UNCHANGED <<files, objs, tmps, wfd, events>>

BackupStep(p) ==
    \/ EnterDir(p) \/ StoreSmall(p) \/ SmallShrunk(p)
    \/ UseHint(p) \/ HashRead(p) \/ HashDone(p) \/ ScanDone(p)
    \/ TestExists(p) \/ OpenTmp(p) \/ CopyRead(p) \/ CopyDone(p)
    \/ CopyChanged(p) \/ RenameObj(p) \/ RenameFails(p) \/ DirDone(p)
    \/ Finish(p) \/ SaveHints(p) \/ Publish(p)
=============================================================================
