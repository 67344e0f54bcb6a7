----------------------------- MODULE RoundTrip -----------------------------
(***************************************************************************)
(* A tree is backed up while its users change it, and the index restored,  *)
(* perhaps several times over because a run died, into a root that may     *)
(* have something in it already.                                           *)
(***************************************************************************)
EXTENDS Walk

CONSTANT Roots      \* what may be below the root of the restore before it

VARIABLES out, rs,
          out0      \* history: out before the first restore

R == INSTANCE Restore

ASSUME ByteAssumption == Byte # {}
ASSUME PlacesAssumption == Places \subseteq Path \ {Root}
\* Before the backup there are finitely many files, and what has a file below it
\* is a directory.  Only regular files and links have contents, and hard links
\* have all in common.
ASSUME TreesAssumption ==
    \A t \in Trees :
       /\ IsMap(t, Path, Node) /\ IsFiniteSet(DOMAIN t)
       /\ \A p \in DOMAIN t :
             /\ p # Root
             /\ t[p].kind \notin {"file", "link"} => t[p].data = <<>>
             /\ \A n \in 1 .. Len(p) - 1 :
                   SubSeq(p, 1, n) \in DOMAIN t /\ t[SubSeq(p, 1, n)].kind = "dir"
       /\ \A p, q \in DOMAIN t : t[p].ino = t[q].ino => t[p] = t[q]

\* Before the restore there are finitely many files, and what has a file in it is
\* a directory.
ASSUME RootsAssumption ==
    \A o \in Roots :
       /\ IsMap(o, Path, R!OutNode) /\ IsFiniteSet(DOMAIN o)
       /\ \A p \in DOMAIN o :
             p # Root /\ (Parent(p) # Root => Parent(p) \in DOMAIN o /\ o[Parent(p)].kind = "dir")

vars == <<wvars, events, out, rs, out0>>

TypeOK == WalkTypeOK /\ R!RestoreTypeOK /\ IsMap(out0, Path, R!OutNode)

Init ==
    /\ WalkInit
    /\ out \in Roots /\ out0 = out
    /\ rs = R!RestoreIdle

Backup == WalkStep /\ UNCHANGED <<out, rs, out0>>
BackupDies == WalkDies /\ UNCHANGED <<out, rs, out0>>
Users == Change /\ UNCHANGED <<out, rs, out0>>

RestoreStarts == ~ Walking /\ R!StartRestore /\ UNCHANGED <<wvars, events, out0>>

RestoreRuns ==
    R!RestoreStep(lines, end, objs) /\ UNCHANGED <<wvars, events, out0>>

\* The restore is killed; or it is run once more after it was done.
RestoreDies ==
    /\ rs.pc # "idle" /\ Event
    /\ R!Fail
    /\ UNCHANGED <<wvars, out, out0>>

\* An object disappears from the repository.
LoseObject ==
    /\ ~ Walking /\ Event
    /\ \E d \in objs : objs' = objs \ {d}
    /\ UNCHANGED <<tree, walk, lines, end, stable, out, rs, out0>>

Next ==
    \/ Backup \/ BackupDies \/ Users
    \/ RestoreStarts \/ RestoreRuns \/ RestoreDies \/ LoseObject

\* A run that is not killed goes on, and one that failed is started again.
Fairness == WF_vars(Backup) /\ WF_vars(RestoreStarts) /\ WF_vars(RestoreRuns)

Spec == Init /\ [][Next]_vars /\ Fairness

----------------------------------------------------------------------------
(***************************************************************************)
(* The index.                                                              *)
(***************************************************************************)
\* The path that a reader of the index finds in line i: the directory of a
\* relative name is that of the last full one.
FullLine(i) == CHOOSE j \in 1 .. i : /\ ~ lines[j].name.rel
                                     /\ \A k \in j + 1 .. i : lines[k].name.rel
LinePath(i) ==
    IF lines[i].name.rel
    THEN Parent(lines[FullLine(i)].name.path) \o lines[i].name.path
    ELSE lines[i].name.path

\* The lines of the files in one directory follow one another, in order:
\* "you just have to read up to the point where you find a file from any
\* other directory" (backup.cc:347-351).
DirectoriesTogether ==
    \A i, j \in DOMAIN lines :
       i < j /\ Parent(LinePath(i)) = Parent(LinePath(j)) =>
          /\ Base(LinePath(i)) < Base(LinePath(j))
          /\ \A k \in i .. j : Parent(LinePath(k)) = Parent(LinePath(i))

(***************************************************************************)
(* The restored tree.                                                      *)
(***************************************************************************)
\* Files that backup takes and meets: not those below a mount point it is not
\* to cross.
Covered(p) ==
    /\ tree[p].kind \notin Unknown
    /\ \A q \in DOMAIN tree : Below(q, p) => Enter(q)

\* What a line says of a file.
DataOf(l) ==
    IF l.kind = "file" THEN R!Contents(l) ELSE IF l.kind = "link" THEN l.data ELSE <<>>

LineRight(l, p) ==
    LET f == tree[p] IN
    /\ l.kind = f.kind /\ l.mtime = f.mtime
    /\ f.kind \in {"file", "link"} => DataOf(l) = f.data
    /\ l.inode \in {None, f.ino[2]}
    /\ f.kind = "file" /\ (\E q \in stable \ {p} : tree[q].ino = f.ino) => l.inode # None

\* What a line says of a file that has not changed since the backup began is
\* true, also if names, links and other files of its directory have come and
\* gone between the listing, the lstat and the read; and when the index has its
\* [end] it has a line for each such file (backup_dir, backup.cc:130-356).
UnchangedListed ==
    /\ \A i \in DOMAIN lines : LinePath(i) \in stable => LineRight(lines[i], LinePath(i))
    /\ end => \A p \in stable : Covered(p) => \E i \in DOMAIN lines : LinePath(i) = p

Clean == rs.pc = "done" /\ ~ rs.errors

\* The line that the file of line i is made from: the first of its inode.
Source(i) ==
    IF lines[i].inode = None THEN i
    ELSE CHOOSE j \in DOMAIN lines :
            /\ lines[j].inode = lines[i].inode
            /\ \A k \in DOMAIN lines : lines[k].inode = lines[i].inode => j <= k

\* A directory that a run which died has made is left alone, with its times,
\* and so is whatever was there before in the place of a directory.
MadeOf(p, kind, data, mtime) ==
    /\ p \in DOMAIN out
    /\ \/ p \in rs.left \cap DOMAIN out0
       \/ /\ out[p].kind = kind /\ out[p].data = data
          /\ kind # "link" /\ p \notin rs.left => out[p].mtime = mtime

\* A restore that reports no error has made the file of every line, from the
\* contents and times in it or in the first line of the same inode, and one
\* file of the lines of an inode; directories have their times although files
\* were made in them afterwards, wherever earlier runs have died (do_restore,
\* restore.cc:44-225).
LinesRestored ==
    Clean => \A i \in DOMAIN lines :
       LET l == lines[Source(i)] IN
       /\ MadeOf(LinePath(i), l.kind, DataOf(l), l.mtime)
       /\ l.kind = "file" =>
             \A j \in DOMAIN lines : lines[j].kind = "file" =>
                (Source(i) = Source(j) <=> out[LinePath(i)].id = out[LinePath(j)].id)

\* But for these files, and what was there before, there is nothing: no
\* NAME~restore~ of this run or of one that died (restore.cc:74-76).
NothingLeft ==
    Clean => DOMAIN out \subseteq DOMAIN out0 \cup {LinePath(i) : i \in DOMAIN lines}

\* Of the lines with the inode number of the file p, each is of a link of p that
\* has not changed.
LinksStable(p) ==
    tree[p].kind = "file" =>
       \A i \in DOMAIN lines : lines[i].inode = tree[p].ino[2] =>
          LinePath(i) \in stable /\ tree[LinePath(i)].ino = tree[p].ino

\* A backup that came to its end, and a restore of it that reports no error,
\* bring back every file that did not change during the backup, and none of
\* whose links did: with its contents and times, and as a hard link of the same
\* other files as before.
RestoredRight ==
    Clean => \A p \in stable : Covered(p) /\ LinksStable(p) =>
       /\ MadeOf(p, tree[p].kind, tree[p].data, tree[p].mtime)
       /\ tree[p].kind = "file" => \A q \in stable :
             Covered(q) /\ tree[q].kind = "file" =>
                (tree[p].ino = tree[q].ino <=> out[p].id = out[q].id)

\* The manual page's words: the inode number is "used to match the different
\* links up with one another" (hbackup.1:359), and so files that are not links
\* of one another stay apart.
OnlyLinksLinked ==
    Clean => \A p, q \in stable \cap DOMAIN out :
       tree[p].kind = "file" /\ tree[q].kind = "file" /\ out[p].id = out[q].id
          => tree[p].ino = tree[q].ino

\* The names that a run may be using for its temporary files.
Temporary(p) == \E i \in DOMAIN lines : R!Tmpname(LinePath(i)) = p

\* At no moment, and wherever a restore dies, is there a regular file under its
\* own name that is not complete, with its contents and times: those of its
\* line, or of the line it is linked to.
NeverTorn ==
    \A p \in DOMAIN out :
       out[p].kind = "file" /\ ~ Temporary(p) /\ (p \in DOMAIN out0 => out[p] # out0[p])
       => \E i, j \in DOMAIN lines :
             /\ LinePath(i) = p
             /\ j = i \/ (lines[j].inode = lines[i].inode /\ lines[i].inode # None)
             /\ out[p].data = R!Contents(lines[j])
             /\ out[p].mtime = lines[j].mtime

(***************************************************************************)
(* Liveness.                                                               *)
(***************************************************************************)
\* Nothing outside the program stands in the way of a restore.  A directory
\* that has the temporary name of another file, and something in it, would.
Restorable ==
    /\ end /\ out0 = EmptyMap
    /\ \A i \in DOMAIN lines : lines[i].sha1 \in objs \cup {None}
    /\ ~ \E i, j \in DOMAIN lines : Below(R!Tmpname(LinePath(i)), LinePath(j))

\* A restore that is repeated comes to its end, whatever dead runs left.
RestoreSucceeds == Restorable ~> (rs.pc = "done" \/ ~ Restorable)
============================================================================
