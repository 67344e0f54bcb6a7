----------------------------- MODULE StoreProofs -----------------------------
(***************************************************************************)
(* The medium as a whole: a published index can always be restored in      *)
(* full, and backups, cleanups and verifications implement a collection of *)
(* snapshots that appear whole and never change.  For any machines, files, *)
(* contents, edits and crashes, for hashes that are rechecked and runs     *)
(* that overlap as far as the two promises allow it.                       *)
(***************************************************************************)
EXTENDS NhbackupProofs

----------------------------------------------------------------------------
(***************************************************************************)
(* The strengthening, for a run r that writes the draft x.  Each file has  *)
(* its line or is still to come; the hash of a line is known to be in the  *)
(* repository, which means that it is there or waits in the queue; and the *)
(* queue is empty between directories and from the end of the last on.     *)
(***************************************************************************)
Over == {"end", "hints", "publish"}

InList(s, f) == \E i \in 1 .. Len(s) : s[i] = f
Queued(q, h) == \E i \in 1 .. Len(q) : q[i].hash = h

Later(r, f) ==
    \E e \in DOMAIN Tree :
       f \in FilesIn(e) /\ IF r.pc = "dir" THEN e >= r.dir ELSE e > r.dir

Awaited(r, f) ==
    /\ r.pc \notin Over
    /\ Later(r, f) \/ (r.pc = "scan" /\ InList(r.todo, f))

Covered(r, x) ==
    \A f \in File :
       /\ Awaited(r, f) \/ x.data[f] # None \/ x.sha1[f] # None
       /\ x.sha1[f] # None => x.sha1[f] \in r.inrepo

Known(r) == \A h \in r.inrepo : h \in DOMAIN objs \/ Queued(r.hashables, h)

EmptyQueue(r) == r.pc \in Over \cup {"dir"} => r.hashables = <<>>

\* The index under its final name is not there yet, or not ended.
Unpublished(p, r) ==
    /\ OverwriteIndex /\ r.pc \notin {"hints", "publish"} => Draft(p) \notin Published
    /\ ~ OverwriteIndex => Final(p, r.date) \notin DOMAIN idx

RunOf(p) ==
    BackingUp(p) =>
       /\ Draft(p) \in DOMAIN idx => Covered(bk[p], idx[Draft(p)])
       /\ Known(bk[p]) /\ EmptyQueue(bk[p]) /\ Unpublished(p, bk[p])

Runs == \A p \in Host : RunOf(p)

\* No verification has found an object that is wrong.
NoneWrong == vf.pc # "remove"

StoreInv == IntactInv /\ CleanInv /\ Runs /\ NoneWrong /\ PublishedRestorable

----------------------------------------------------------------------------
(***************************************************************************)
(* Sequences.                                                              *)
(***************************************************************************)
\* What is in a list is at its head or in its tail.
LEMMA HeadOrTail ==
  ASSUME NEW S, NEW s \in Seq(S), NEW i \in 1 .. Len(s)
  PROVE  s[i] = Head(s) \/ \E j \in 1 .. Len(Tail(s)) : Tail(s)[j] = s[i]
<1>1. s # <<>> /\ Len(s) \in Nat
  BY EmptySeq, LenProperties
<1>2. /\ Len(Tail(s)) = Len(s) - 1 /\ Head(s) = s[1]
      /\ \A j \in 1 .. Len(Tail(s)) : Tail(s)[j] = s[j + 1]
  BY <1>1, HeadTailProperties
<1>3. CASE i = 1
  BY <1>2, <1>3
<1>4. CASE i # 1
  <2>1. i - 1 \in 1 .. Len(Tail(s)) /\ (i - 1) + 1 = i
    BY <1>1, <1>2, <1>4
  <2>. QED BY <1>2, <2>1
<1>. QED BY <1>3, <1>4

\* A queue that gets longer still has what it had.
LEMMA QueuedConcat ==
  ASSUME NEW S, NEW q \in Seq(S), NEW t \in Seq(S), NEW h,
         Queued(q, h) \/ Queued(t, h)
  PROVE  Queued(q \o t, h)
<1>1. /\ Len(q) \in Nat /\ Len(t) \in Nat /\ Len(q \o t) = Len(q) + Len(t)
      /\ \A i \in 1 .. Len(q \o t) :
            (q \o t)[i] = IF i <= Len(q) THEN q[i] ELSE t[i - Len(q)]
  BY LenProperties, ConcatProperties
<1>2. CASE Queued(q, h)
  <2>1. PICK i \in 1 .. Len(q) : q[i].hash = h
    BY <1>2 DEF Queued
  <2>2. i \in 1 .. Len(q \o t) /\ (q \o t)[i] = q[i]
    BY <1>1
  <2>. QED BY <2>1, <2>2 DEF Queued
<1>3. CASE Queued(t, h)
  <2>1. PICK i \in 1 .. Len(t) : t[i].hash = h
    BY <1>3 DEF Queued
  <2>2. i + Len(q) \in 1 .. Len(q \o t) /\ (q \o t)[i + Len(q)] = t[i]
    BY <1>1
  <2>. QED BY <2>1, <2>2 DEF Queued
<1>. QED BY <1>2, <1>3

----------------------------------------------------------------------------
(***************************************************************************)
(* Steps of a backup.                                                      *)
(***************************************************************************)
\* What the proofs of the steps take from the invariant.
LEMMA RunFacts ==
  ASSUME StoreInv, NEW p \in Host
  PROVE  /\ TypeInv /\ bk \in [Host -> Run] /\ bk[p] \in Run /\ RunOf(p)
         /\ IsMap(idx, IndexName, IndexFile)
         /\ bk[p].todo \in Seq(File) /\ bk[p].hashables \in Seq(Hashable)
BY Parts DEF StoreInv, IntactInv, TypeInv, TypeOK, BackupTypeOK, Runs

\* A step that leaves the indexes alone and forgets neither a file nor a hash.
LEMMA IndexStays ==
  ASSUME StoreInv, NEW p \in Host, BackingUp(p), NEW r, Becomes(p, r),
         idx' = idx, DOMAIN objs \subseteq DOMAIN objs',
         r.date = bk[p].date, r.inrepo = bk[p].inrepo,
         \A f \in File : Awaited(bk[p], f) => Awaited(r, f),
         \A h \in bk[p].inrepo : Queued(bk[p].hashables, h)
                                   => Queued(r.hashables, h) \/ h \in DOMAIN objs',
         EmptyQueue(r),
         r.pc \in {"hints", "publish"} <=> bk[p].pc \in {"hints", "publish"}
  PROVE  RunOf(p)'
<1>1. bk'[p] = r /\ RunOf(p)
  BY RunFacts DEF Becomes
<1>2. Draft(p)' = Draft(p) /\ Published' = Published
  BY <1>1 DEF Draft, Published
<1>3. Known(r)'
  BY <1>1 DEF RunOf, Known
<1>4. Draft(p) \in DOMAIN idx => Covered(r, idx[Draft(p)])
  BY <1>1 DEF RunOf, Covered
<1>5. Unpublished(p, bk[p])
  BY <1>1 DEF RunOf
<1>6. EmptyQueue(bk[p])'
  BY <1>1 DEF EmptyQueue
<1>7. Unpublished(p, bk[p])'
  BY <1>1, <1>2, <1>5 DEF Unpublished
<1>8. Covered(bk[p], idx[Draft(p)])' <=> Covered(r, idx[Draft(p)])
  BY <1>1, <1>2 DEF Covered, Awaited, Later
<1>9. Known(bk[p])'
  BY <1>1, <1>3 DEF Known
<1>. QED BY <1>2, <1>4, <1>6, <1>7, <1>8, <1>9 DEF RunOf

\* The files of the directory come next.
LEMMA EnterDirRun ==
  ASSUME StoreInv, NEW p \in Host, EnterDir(p)
  PROVE  RunOf(p)'
<1> DEFINE t == Tree[bk[p].dir]
           st == Statted(p, FilesIn(bk[p].dir))
           r == [bk[p] EXCEPT !.pc = "scan", !.todo = t, !.stat = st]
<1>1. BackingUp(p) /\ bk[p] \in Run /\ Becomes(p, r) /\ idx' = idx /\ objs' = objs
      /\ bk[p].pc = "dir" /\ bk[p].dir \in DOMAIN Tree
  BY RunFacts DEF EnterDir, BackingUp, medium
<1>2. /\ r.pc = "scan" /\ r.todo = t /\ r.dir = bk[p].dir /\ r.date = bk[p].date
      /\ r.inrepo = bk[p].inrepo /\ r.hashables = bk[p].hashables
  BY <1>1 DEF Run
<1> HIDE DEF r
<1>3. t \in Seq(File) /\ DOMAIN t = 1 .. Len(t)
  BY <1>1, NamesAssumption, LenProperties
<1>4. DOMAIN Tree \subseteq Nat /\ bk[p].dir \in Nat
  BY <1>1, NamesAssumption, LenProperties DEF Run
<1>5. ASSUME NEW f \in File, Awaited(bk[p], f) PROVE Awaited(r, f)
  <2>1. PICK e \in DOMAIN Tree : f \in FilesIn(e) /\ e >= bk[p].dir
    BY <1>1, <1>5 DEF Awaited, Later
  <2>2. CASE e = bk[p].dir
    BY <1>2, <1>3, <2>1, <2>2 DEF FilesIn, Awaited, InList, Over
  <2>3. CASE e > bk[p].dir
    BY <1>2, <2>1, <2>3 DEF Awaited, Later, Over
  <2>. QED BY <1>4, <2>1, <2>2, <2>3
<1>. QED BY <1>1, <1>2, <1>5, IndexStays DEF EmptyQueue, Over

\* The directory has been scanned.
LEMMA ScanDoneRun ==
  ASSUME StoreInv, NEW p \in Host, ScanDone(p)
  PROVE  RunOf(p)'
<1> DEFINE r == [bk[p] EXCEPT !.pc = "test"]
<1>1. /\ BackingUp(p) /\ bk[p] \in Run /\ Becomes(p, r) /\ idx' = idx
      /\ objs' = objs /\ bk[p].pc = "scan" /\ bk[p].todo = <<>>
  BY RunFacts DEF ScanDone, BackingUp, medium
<1>2. /\ r.pc = "test" /\ r.dir = bk[p].dir /\ r.date = bk[p].date
      /\ r.inrepo = bk[p].inrepo /\ r.hashables = bk[p].hashables
  BY <1>1 DEF Run
<1> HIDE DEF r
<1>3. ASSUME NEW f \in File, Awaited(bk[p], f) PROVE Awaited(r, f)
  BY <1>1, <1>2, <1>3 DEF Awaited, Later, InList, Over
<1>. QED BY <1>1, <1>2, <1>3, IndexStays DEF EmptyQueue, Over

\* A block more of the file that is hashed.
LEMMA HashReadRun ==
  ASSUME StoreInv, NEW p \in Host, HashRead(p)
  PROVE  RunOf(p)'
<1>1. PICK c : Becomes(p, [bk[p] EXCEPT !.ctx = c])
  BY DEF HashRead, ReadBlock
<1> DEFINE r == [bk[p] EXCEPT !.ctx = c]
<1>2. /\ BackingUp(p) /\ bk[p] \in Run /\ idx' = idx /\ objs' = objs
      /\ bk[p].pc = "scan"
  BY RunFacts DEF HashRead, Scanning, BackingUp, medium
<1>3. /\ r.pc = "scan" /\ r.dir = bk[p].dir /\ r.date = bk[p].date
      /\ r.inrepo = bk[p].inrepo /\ r.hashables = bk[p].hashables
      /\ r.todo = bk[p].todo
  BY <1>2 DEF Run
<1> HIDE DEF r
<1>4. ASSUME NEW f \in File, Awaited(bk[p], f) PROVE Awaited(r, f)
  BY <1>2, <1>3, <1>4 DEF Awaited, Later
<1>. QED BY <1>1, <1>2, <1>3, <1>4, IndexStays DEF EmptyQueue, Over, r

\* A step of the second pass: what leaves the queue is in the repository.
LEMMA SecondPass ==
  ASSUME StoreInv, NEW p \in Host, NEW r, Becomes(p, r), idx' = idx,
         DOMAIN objs \subseteq DOMAIN objs',
         bk[p].pc \in {"test", "open", "copy", "rename"},
         r.pc \in {"test", "open", "copy", "rename"},
         r.dir = bk[p].dir, r.date = bk[p].date, r.inrepo = bk[p].inrepo,
         \/ r.hashables = bk[p].hashables
         \/ /\ bk[p].hashables # <<>> /\ r.hashables = Tail(bk[p].hashables)
            /\ Wanted(p) \in DOMAIN objs'
  PROVE  RunOf(p)'
<1>1. BackingUp(p) /\ bk[p].hashables \in Seq(Hashable)
  BY RunFacts DEF BackingUp
<1>2. ASSUME NEW f \in File, Awaited(bk[p], f) PROVE Awaited(r, f)
  BY <1>2 DEF Awaited, Later, Over
<1>3. ASSUME NEW h, Queued(bk[p].hashables, h)
      PROVE  Queued(r.hashables, h) \/ h \in DOMAIN objs'
  <2>1. PICK i \in 1 .. Len(bk[p].hashables) : bk[p].hashables[i].hash = h
    BY <1>3 DEF Queued
  <2>2. \/ bk[p].hashables[i] = Head(bk[p].hashables)
        \/ \E j \in 1 .. Len(Tail(bk[p].hashables)) :
              Tail(bk[p].hashables)[j] = bk[p].hashables[i]
    BY <1>1, HeadOrTail
  <2>. QED BY <1>3, <2>1, <2>2 DEF Queued, Wanted
<1>. QED BY <1>1, <1>2, <1>3, IndexStays DEF EmptyQueue, Over

\* The steps of the second pass.
LEMMA SecondPassRun ==
  ASSUME StoreInv, NEW p \in Host,
         TestExists(p) \/ OpenTmp(p) \/ CopyRead(p) \/ CopyDone(p) \/ RenameObj(p)
  PROVE  RunOf(p)'
<1>1. bk[p] \in Run /\ TypeInv
  BY RunFacts
<1>2. CASE TestExists(p)
  <2> DEFINE r1 == [bk[p] EXCEPT !.hashables = Tail(bk[p].hashables)]
             r2 == [bk[p] EXCEPT !.pc = "open"]
  <2>1. /\ r1.pc = "test" /\ r1.hashables = Tail(bk[p].hashables)
        /\ r1.dir = bk[p].dir /\ r1.date = bk[p].date /\ r1.inrepo = bk[p].inrepo
    BY <1>1, <1>2 DEF Run, TestExists
  <2>2. /\ r2.pc = "open" /\ r2.hashables = bk[p].hashables
        /\ r2.dir = bk[p].dir /\ r2.date = bk[p].date /\ r2.inrepo = bk[p].inrepo
    BY <1>1 DEF Run
  <2>3. \/ Becomes(p, r1) /\ Wanted(p) \in DOMAIN objs
        \/ Becomes(p, r2)
    BY <1>2 DEF TestExists, Stored
  <2>4. /\ idx' = idx /\ objs' = objs /\ bk[p].hashables # <<>>
        /\ bk[p].pc = "test"
    BY <1>2 DEF TestExists, medium
  <2> HIDE DEF r1, r2
  <2>. QED BY <2>1, <2>2, <2>3, <2>4, SecondPass
<1>3. CASE OpenTmp(p)
  <2> DEFINE r == [bk[p] EXCEPT !.pc = "copy", !.ctx = <<>>]
  <2>1. /\ r.pc = "copy" /\ r.hashables = bk[p].hashables /\ r.dir = bk[p].dir
        /\ r.date = bk[p].date /\ r.inrepo = bk[p].inrepo
    BY <1>1 DEF Run
  <2>2. Becomes(p, r) /\ idx' = idx /\ objs' = objs /\ bk[p].pc = "open"
    BY <1>3 DEF OpenTmp
  <2> HIDE DEF r
  <2>. QED BY <2>1, <2>2, SecondPass
<1>4. ASSUME CopyRead(p) \/ CopyDone(p) PROVE DOMAIN objs \subseteq DOMAIN objs'
  BY <1>4 DEF CopyRead, CopyDone, WriteHeld, WriteBlock
<1>5. CASE CopyRead(p)
  <2>1. PICK c : Becomes(p, [bk[p] EXCEPT !.ctx = c])
    BY <1>5 DEF CopyRead, ReadBlock
  <2> DEFINE r == [bk[p] EXCEPT !.ctx = c]
  <2>2. /\ r.pc = "copy" /\ r.hashables = bk[p].hashables /\ r.dir = bk[p].dir
        /\ r.date = bk[p].date /\ r.inrepo = bk[p].inrepo
    BY <1>1, <1>5 DEF Run, CopyRead
  <2>3. Becomes(p, r) /\ idx' = idx /\ bk[p].pc = "copy"
    BY <1>5, <2>1 DEF CopyRead
  <2> HIDE DEF r
  <2>. QED BY <1>4, <1>5, <2>2, <2>3, SecondPass
<1>6. CASE CopyDone(p)
  <2> DEFINE r == [bk[p] EXCEPT !.pc = "rename", !.ctx = <<>>]
  <2>1. /\ r.pc = "rename" /\ r.hashables = bk[p].hashables /\ r.dir = bk[p].dir
        /\ r.date = bk[p].date /\ r.inrepo = bk[p].inrepo
    BY <1>1 DEF Run
  <2>2. Becomes(p, r) /\ idx' = idx /\ bk[p].pc = "copy"
    BY <1>6 DEF CopyDone
  <2> HIDE DEF r
  <2>. QED BY <1>4, <1>6, <2>1, <2>2, SecondPass
<1>7. CASE RenameObj(p)
  <2> DEFINE r == [bk[p] EXCEPT !.pc = "test", !.hashables = Tail(bk[p].hashables)]
  <2>1. /\ r.pc = "test" /\ r.hashables = Tail(bk[p].hashables)
        /\ r.dir = bk[p].dir /\ r.date = bk[p].date /\ r.inrepo = bk[p].inrepo
    BY <1>1 DEF Run
  <2>2. Becomes(p, r) /\ idx' = idx /\ bk[p].pc = "rename"
    BY <1>7 DEF RenameObj
  <2>3. bk[p].hashables # <<>>
    BY <1>1, <1>7 DEF TypeInv, Shape, ShapeOf, RunShape, RenameObj
  <2>4. DOMAIN objs' = DOMAIN objs \cup {Wanted(p)}
    BY <1>7 DEF RenameObj, RenameTmp, Put
  <2> HIDE DEF r
  <2>. QED BY <2>1, <2>2, <2>3, <2>4, SecondPass
<1>. QED BY <1>2, <1>3, <1>5, <1>6, <1>7

\* A directory is done: the files of the others are still to come, and with
\* the last directory none.
LEMMA DirDoneRun ==
  ASSUME StoreInv, NEW p \in Host, DirDone(p)
  PROVE  RunOf(p)'
<1> DEFINE next == bk[p].dir + 1
           pc == IF next \in DOMAIN Tree THEN "dir" ELSE "end"
           r == [bk[p] EXCEPT !.dir = next, !.pc = pc]
<1>1. /\ BackingUp(p) /\ bk[p] \in Run /\ Becomes(p, r) /\ idx' = idx
      /\ objs' = objs /\ bk[p].pc = "test" /\ bk[p].hashables = <<>>
  BY RunFacts DEF DirDone, BackingUp, medium
<1>2. /\ r.pc = pc /\ r.dir = next /\ r.date = bk[p].date
      /\ r.inrepo = bk[p].inrepo /\ r.hashables = bk[p].hashables
  BY <1>1 DEF Run
<1>3. bk[p].dir \in Nat /\ Len(Tree) \in Nat /\ DOMAIN Tree = 1 .. Len(Tree)
  BY <1>1, NamesAssumption, LenProperties DEF Run
<1> HIDE DEF r
<1>4. ASSUME NEW f \in File, Awaited(bk[p], f) PROVE Awaited(r, f)
  <2>1. PICK e \in DOMAIN Tree : f \in FilesIn(e) /\ e > bk[p].dir
    BY <1>1, <1>4 DEF Awaited, Later
  <2>2. next \in DOMAIN Tree /\ e >= next
    BY <1>3, <2>1
  <2>. QED BY <1>2, <2>1, <2>2 DEF Awaited, Later, Over
<1>5. r.pc \notin {"hints", "publish"}
  BY <1>2
<1>. QED BY <1>1, <1>2, <1>4, <1>5, IndexStays DEF EmptyQueue, Over

\* The hints are saved.
LEMMA SaveHintsRun ==
  ASSUME StoreInv, NEW p \in Host, SaveHints(p)
  PROVE  RunOf(p)'
<1> DEFINE r == [bk[p] EXCEPT !.pc = "publish"]
<1>1. /\ BackingUp(p) /\ bk[p] \in Run /\ Becomes(p, r) /\ idx' = idx
      /\ objs' = objs /\ bk[p].pc = "hints" /\ RunOf(p)
  BY RunFacts DEF SaveHints, BackingUp, medium
<1>2. /\ r.pc = "publish" /\ r.date = bk[p].date
      /\ r.inrepo = bk[p].inrepo /\ r.hashables = bk[p].hashables
  BY <1>1 DEF Run
<1>3. r.hashables = <<>>
  BY <1>1, <1>2 DEF RunOf, EmptyQueue, Over
<1> HIDE DEF r
<1>4. ASSUME NEW f \in File, Awaited(bk[p], f) PROVE Awaited(r, f)
  BY <1>1, <1>4 DEF Awaited, Over
<1>. QED BY <1>1, <1>2, <1>3, <1>4, IndexStays DEF EmptyQueue, Over

\* The published indexes of S are still there, as they were.
Agree(S) == \A n \in S : n \in DOMAIN idx' /\ idx'[n] = idx[n]

\* What a step does to the published indexes: one more, one less, or nothing.
IndexStep ==
    \/ Published' = Published /\ Agree(Published)
    \/ \E n \in IndexName \ Published :
          /\ Published' = Published \cup {n} /\ Agree(Published)
          /\ \A f \in File : \/ idx'[n].data[f] # None
                             \/ idx'[n].sha1[f] \in DOMAIN objs'
    \/ \E n \in Published : Published' = Published \ {n} /\ Agree(Published \ {n})

\* An index that is written is not published.
LEMMA DraftUnpublished ==
  ASSUME StoreInv, NEW p \in Host, BackingUp(p),
         bk[p].pc \notin {"hints", "publish"}
  PROVE  Draft(p) \notin Published
<1>1. CASE OverwriteIndex
  BY <1>1, RunFacts DEF RunOf, Unpublished
<1>2. CASE ~ OverwriteIndex
  BY <1>2 DEF Draft, Outfile, Tmp, Published
<1>. QED BY <1>1, <1>2

\* The draft becomes v, which is ended if it was.
LEMMA DraftChanges ==
  ASSUME NEW n, n \notin Published, NEW v, idx' = [idx EXCEPT ![n] = v],
         n \in DOMAIN idx => v.end = idx[n].end
  PROVE  Published' = Published /\ Agree(Published)
<1>1. DOMAIN idx' = DOMAIN idx /\ \A m \in DOMAIN idx : m # n => idx'[m] = idx[m]
  OBVIOUS
<1>2. n \in DOMAIN idx => idx'[n] = v
  OBVIOUS
<1>. QED BY <1>1, <1>2 DEF Published, Agree

\* A file gets its line.
LEMMA LineRun ==
  ASSUME StoreInv, NEW p \in Host, Scanning(p), NEW r, Becomes(p, r),
         NEW v, idx' = [idx EXCEPT ![Draft(p)] = v], objs' = objs,
         r.pc = "scan", r.todo = Tail(bk[p].todo), r.dir = bk[p].dir,
         r.date = bk[p].date, bk[p].inrepo \subseteq r.inrepo,
         \A h \in r.inrepo : h \in bk[p].inrepo \/ Queued(r.hashables, h),
         \A h : Queued(bk[p].hashables, h) => Queued(r.hashables, h),
         Draft(p) \in DOMAIN idx =>
            /\ v.end = idx[Draft(p)].end
            /\ \A f \in File \ {Current(p)} : /\ v.data[f] = idx[Draft(p)].data[f]
                                              /\ v.sha1[f] = idx[Draft(p)].sha1[f]
            /\ v.data[Current(p)] # None \/ v.sha1[Current(p)] # None
            /\ v.sha1[Current(p)] # None => v.sha1[Current(p)] \in r.inrepo
  PROVE  RunOf(p)' /\ IndexStep
<1>1. BackingUp(p) /\ bk'[p] = r /\ RunOf(p) /\ bk[p].todo \in Seq(File)
      /\ bk[p].pc = "scan" /\ bk[p].todo # <<>>
  BY RunFacts DEF Becomes, Scanning, BackingUp
<1>2. Draft(p) \notin Published
  BY <1>1, DraftUnpublished
<1>3. Published' = Published /\ Agree(Published)
  BY <1>2, DraftChanges
<1>4. /\ Draft(p)' = Draft(p) /\ DOMAIN idx' = DOMAIN idx
      /\ Draft(p) \in DOMAIN idx => idx'[Draft(p)] = v
  BY <1>1 DEF Draft
<1>5. ASSUME NEW f \in File \ {Current(p)}, Awaited(bk[p], f) PROVE Awaited(r, f)
  <2>1. CASE Later(bk[p], f)
    BY <1>1, <2>1 DEF Awaited, Later, Over
  <2>2. CASE InList(bk[p].todo, f)
    <3>1. PICK i \in 1 .. Len(bk[p].todo) : bk[p].todo[i] = f
      BY <2>2 DEF InList
    <3>2. \E j \in 1 .. Len(Tail(bk[p].todo)) : Tail(bk[p].todo)[j] = f
      BY <1>1, <1>5, <3>1, HeadOrTail DEF Current
    <3>. QED BY <3>2 DEF Awaited, InList, Over
  <2>. QED BY <1>5, <2>1, <2>2 DEF Awaited
<1>6. Draft(p) \in DOMAIN idx => Covered(r, v)
  BY <1>1, <1>5 DEF RunOf, Covered
<1>7. Draft(p)' \in DOMAIN idx' => Covered(bk[p], idx[Draft(p)])'
  BY <1>1, <1>4, <1>6 DEF Covered, Awaited, Later
<1>8. Known(bk[p])' /\ EmptyQueue(bk[p])'
  BY <1>1 DEF RunOf, Known, EmptyQueue, Over
<1>9. Unpublished(p, bk[p])'
  <2>1. Unpublished(p, bk[p])
    BY <1>1 DEF RunOf
  <2>. QED BY <1>1, <1>2, <1>3, <1>4, <2>1 DEF Unpublished
<1>. QED BY <1>3, <1>7, <1>8, <1>9 DEF RunOf, IndexStep

\* A small file: its line has the data.
LEMMA StoreSmallRun ==
  ASSUME StoreInv, NEW p \in Host, StoreSmall(p)
  PROVE  RunOf(p)' /\ IndexStep
<1> DEFINE f == Current(p)
           d == SubSeq(src[p][f].data, 1, bk[p].stat[f].size)
           x == idx[Draft(p)]
           v == [x EXCEPT !.data = [x.data EXCEPT ![f] = d]]
           r == [bk[p] EXCEPT !.todo = Tail(bk[p].todo)]
<1>1. /\ bk[p] \in Run /\ bk[p].pc = "scan" /\ bk[p].todo # <<>> /\ TypeInv
      /\ IsMap(idx, IndexName, IndexFile) /\ RunShape(bk[p])
  BY RunFacts DEF StoreSmall, Scanning, TypeInv, Shape, ShapeOf
<1>2. f \in File /\ bk[p].stat[f] \in Stat
  BY <1>1, TailShape DEF Current
<1>3. d \in Bytes
  <2>1. src[p][f].data \in Seq(Byte) /\ bk[p].stat[f].size \in Nat
    BY <1>1, <1>2, Parts DEF TypeInv, Bytes, Stat
  <2>2. Len(src[p][f].data) \in Nat /\ bk[p].stat[f].size \in 0 .. Len(src[p][f].data)
    BY <2>1, LenProperties DEF StoreSmall
  <2>3. \A i \in 1 .. bk[p].stat[f].size : src[p][f].data[i] \in Byte
    BY <2>1, <2>2, ElementOfSeq
  <2>. QED BY <2>1, <2>2, <2>3, SubSeqProperties DEF Bytes
<1>4. idx' = [idx EXCEPT ![Draft(p)] = v]
  BY DEF StoreSmall
<1>5. /\ r.pc = "scan" /\ r.todo = Tail(bk[p].todo) /\ r.dir = bk[p].dir
      /\ r.date = bk[p].date /\ r.inrepo = bk[p].inrepo
      /\ r.hashables = bk[p].hashables /\ Becomes(p, r)
  BY <1>1 DEF Run, StoreSmall
<1>6. ASSUME Draft(p) \in DOMAIN idx
      PROVE  /\ v.end = x.end
             /\ \A g \in File \ {f} : v.data[g] = x.data[g] /\ v.sha1[g] = x.sha1[g]
             /\ v.data[f] # None /\ v.sha1[f] = x.sha1[f]
  <2>1. x \in IndexFile
    BY <1>1, <1>6 DEF IsMap
  <2>. QED BY <1>2, <1>3, <2>1, NoneAssumption DEF IndexFile
<1>7. Draft(p) \in DOMAIN idx /\ x.sha1[f] # None => x.sha1[f] \in bk[p].inrepo
  <2>1. Draft(p) \in DOMAIN idx => Covered(bk[p], x)
    BY <1>1, RunFacts DEF RunOf, BackingUp
  <2>. QED BY <1>2, <2>1 DEF Covered
<1>8. Scanning(p) /\ objs' = objs
  BY DEF StoreSmall
<1> HIDE DEF r, v, d
<1>9. /\ bk[p].inrepo \subseteq r.inrepo
      /\ \A h \in r.inrepo : h \in bk[p].inrepo \/ Queued(r.hashables, h)
      /\ \A h : Queued(bk[p].hashables, h) => Queued(r.hashables, h)
  BY <1>5
<1>10. Draft(p) \in DOMAIN idx =>
          /\ v.end = idx[Draft(p)].end
          /\ \A g \in File \ {Current(p)} : /\ v.data[g] = idx[Draft(p)].data[g]
                                            /\ v.sha1[g] = idx[Draft(p)].sha1[g]
          /\ v.data[Current(p)] # None \/ v.sha1[Current(p)] # None
          /\ v.sha1[Current(p)] # None => v.sha1[Current(p)] \in r.inrepo
  BY <1>5, <1>6, <1>7
<1> HIDE DEF f, x
<1>. QED BY <1>4, <1>5, <1>8, <1>9, <1>10, LineRun

\* A large file: its line has a hash that is in the repository or queued.
LEMMA RecordRun ==
  ASSUME StoreInv, NEW p \in Host, NEW h \in HashName, Scanning(p), Record(p, h)
  PROVE  RunOf(p)' /\ IndexStep
<1> DEFINE f == Current(p)
           k == IF UseHints THEN HintOf(p, f, h) ELSE None
           nh == [bk[p].newhints EXCEPT ![f] = k]
           q == IF NewHash(p, h) THEN <<[path |-> f, hash |-> h]>> ELSE <<>>
           x == idx[Draft(p)]
           v == [x EXCEPT !.sha1 = [x.sha1 EXCEPT ![f] = h]]
           hs == bk[p].hashables \o q
           ir == bk[p].inrepo \cup {h}
           r == [bk[p] EXCEPT !.todo = Tail(bk[p].todo), !.ctx = <<>>,
                              !.newhints = nh, !.hashables = hs, !.inrepo = ir]
<1>1. /\ bk[p] \in Run /\ bk[p].pc = "scan" /\ bk[p].todo # <<>> /\ TypeInv
      /\ IsMap(idx, IndexName, IndexFile) /\ RunShape(bk[p])
      /\ bk[p].hashables \in Seq(Hashable)
  BY RunFacts DEF Scanning, TypeInv, Shape, ShapeOf
<1>2. f \in File
  BY <1>1, TailShape DEF Current
<1>3. q \in Seq(Hashable) /\ (NewHash(p, h) => Queued(q, h))
  <2>1. [path |-> f, hash |-> h] \in Hashable
    BY <1>2 DEF Hashable
  <2>. QED BY <2>1 DEF Queued
<1>4. idx' = [idx EXCEPT ![Draft(p)] = v]
  BY DEF Record
<1>5. Becomes(p, r)
  BY DEF Record
<1>6. /\ r.pc = "scan" /\ r.todo = Tail(bk[p].todo) /\ r.dir = bk[p].dir
      /\ r.date = bk[p].date /\ r.inrepo = ir /\ r.hashables = hs
  BY <1>1 DEF Run
<1> HIDE DEF q
<1>7. /\ \A g : Queued(bk[p].hashables, g) => Queued(hs, g)
      /\ NewHash(p, h) => Queued(hs, h)
  BY <1>1, <1>3, QueuedConcat
<1>8. \A g \in ir : g \in bk[p].inrepo \/ Queued(hs, g)
  BY <1>7 DEF NewHash
<1>9. ASSUME Draft(p) \in DOMAIN idx
      PROVE  /\ v.end = x.end
             /\ \A g \in File \ {f} : v.data[g] = x.data[g] /\ v.sha1[g] = x.sha1[g]
             /\ v.sha1[f] = h
  <2>1. x \in IndexFile
    BY <1>1, <1>9 DEF IsMap
  <2>. QED BY <1>2, <2>1 DEF IndexFile
<1>10. h # None /\ objs' = objs /\ h \in ir
  BY NoneAssumption DEF Record
<1> HIDE DEF r, v, hs, ir
<1>11. bk[p].inrepo \subseteq r.inrepo
  BY <1>6 DEF ir
<1>. QED BY <1>4, <1>5, <1>6, <1>7, <1>8, <1>9, <1>10, <1>11, LineRun DEF f

\* A new run has all files before it.  With --overwrite the index it truncates
\* is published no more.
LEMMA StartBackupRun ==
  ASSUME StoreInv, NEW p \in Host, NEW d \in Date, StartBackup(p, d)
  PROVE  RunOf(p)' /\ IndexStep
<1> DEFINE r == [BackupIdle EXCEPT
                    !.pc = "dir", !.date = d, !.dir = 1,
                    !.hints = IF UseHints THEN hintfile[p] ELSE NoHints]
           n == Outfile(p, d)
<1>1. /\ r.pc = "dir" /\ r.date = d /\ r.dir = 1 /\ r.inrepo = {}
      /\ r.hashables = <<>>
  BY DEF BackupIdle
<1>2. bk'[p] = r /\ Draft(p)' = n
  BY <1>1, RunFacts DEF StartBackup, Becomes, Draft
<1>3. /\ DOMAIN idx' = DOMAIN idx \cup {n} /\ idx'[n] = EmptyIndex
      /\ \A m \in DOMAIN idx \ {n} : idx'[m] = idx[m]
  BY DEF StartBackup, Put
<1> HIDE DEF r, n
<1>4. n \notin Published'
  BY <1>3 DEF Published, EmptyIndex
<1>5. Covered(r, EmptyIndex)
  <2>1. ASSUME NEW f \in File PROVE Awaited(r, f)
    <3>1. PICK e \in DOMAIN Tree : \E i \in DOMAIN Tree[e] : Tree[e][i] = f
      BY NamesAssumption
    <3>2. e >= 1
      BY NamesAssumption, LenProperties
    <3>. QED BY <1>1, <3>1, <3>2 DEF Awaited, Later, FilesIn, Over
  <2>. QED BY <2>1 DEF Covered, EmptyIndex
<1>6. ~ OverwriteIndex => Final(p, d) \notin DOMAIN idx'
  BY <1>3 DEF StartBackup, IndexFree, Outfile, Final, Tmp, n
<1>7. RunOf(p)'
  BY <1>1, <1>2, <1>3, <1>4, <1>5, <1>6
     DEF RunOf, Covered, Awaited, Later, Known, EmptyQueue, Unpublished
<1>8. Published' = Published \ {n}
  BY <1>3, <1>4 DEF Published
<1>9. Agree(Published \ {n})
  BY <1>3 DEF Published, Agree
<1>10. CASE n \in Published
  BY <1>7, <1>8, <1>9, <1>10 DEF IndexStep
<1>11. CASE n \notin Published
  <2>1. Published \ {n} = Published
    BY <1>11
  <2>. QED BY <1>7, <1>8, <1>9, <2>1 DEF IndexStep
<1>. QED BY <1>10, <1>11

\* When no file is still to come the index can be restored.
LEMMA Complete ==
  ASSUME StoreInv, NEW p \in Host, bk[p].pc \in Over, Draft(p) \in DOMAIN idx,
         NEW f \in File
  PROVE  idx[Draft(p)].data[f] # None \/ idx[Draft(p)].sha1[f] \in DOMAIN objs
<1>1. /\ Covered(bk[p], idx[Draft(p)]) /\ Known(bk[p])
      /\ bk[p].hashables = <<>>
  BY RunFacts DEF RunOf, BackingUp, Over, EmptyQueue
<1>2. ~ Awaited(bk[p], f)
  BY DEF Awaited
<1>3. \A h : ~ Queued(bk[p].hashables, h)
  BY <1>1 DEF Queued
<1>. QED BY <1>1, <1>2, <1>3 DEF Covered, Known

\* The index gets its [end]: with --overwrite it is published.
LEMMA FinishRun ==
  ASSUME StoreInv, NEW p \in Host, Finish(p)
  PROVE  RunOf(p)' /\ IndexStep
<1> DEFINE pc == IF UseHints THEN "hints" ELSE "publish"
           r == [bk[p] EXCEPT !.pc = pc]
           x == idx[Draft(p)]
           v == [x EXCEPT !.end = TRUE]
<1>1. /\ BackingUp(p) /\ bk[p] \in Run /\ bk[p].pc = "end" /\ Becomes(p, r)
      /\ idx' = [idx EXCEPT ![Draft(p)] = v] /\ objs' = objs
      /\ RunOf(p) /\ IsMap(idx, IndexName, IndexFile) /\ bk'[p] = r
  BY RunFacts DEF Finish, BackingUp, Becomes
<1>2. /\ r.pc \in {"hints", "publish"} /\ r.date = bk[p].date
      /\ r.inrepo = bk[p].inrepo /\ r.hashables = bk[p].hashables
      /\ r.todo = bk[p].todo /\ r.dir = bk[p].dir
  BY <1>1 DEF Run
<1>3. Draft(p) \in DOMAIN idx =>
         /\ v.data = x.data /\ v.sha1 = x.sha1 /\ v.end = TRUE
  BY <1>1 DEF IsMap, IndexFile
<1> HIDE DEF r, v
<1>4. /\ DOMAIN idx' = DOMAIN idx /\ Draft(p)' = Draft(p)
      /\ \A m \in DOMAIN idx \ {Draft(p)} : idx'[m] = idx[m]
      /\ Draft(p) \in DOMAIN idx => idx'[Draft(p)] = v
  BY <1>1, <1>2 DEF Draft
<1>5. RunOf(p)'
  <2>1. Draft(p) \in DOMAIN idx => Covered(r, v)
    BY <1>1, <1>2, <1>3 DEF RunOf, Covered, Awaited, Over
  <2>2. (Draft(p) \in DOMAIN idx => Covered(bk[p], idx[Draft(p)]))'
    BY <1>1, <1>4, <2>1 DEF Covered, Awaited, Later
  <2>3. Known(bk[p])' /\ EmptyQueue(bk[p])' /\ Unpublished(p, bk[p])'
    BY <1>1, <1>2, <1>4 DEF RunOf, Known, EmptyQueue, Over, Unpublished
  <2>. QED BY <2>2, <2>3 DEF RunOf
<1>6. CASE OverwriteIndex /\ Draft(p) \in DOMAIN idx
  <2>1. Draft(p) \in IndexName \ Published
    BY <1>1, <1>6, DraftUnpublished DEF IsMap
  <2>2. Draft(p)[3] = "final"
    BY <1>6 DEF Draft, Outfile, Final
  <2>3. Published' = Published \cup {Draft(p)} /\ Agree(Published)
    BY <1>3, <1>4, <1>6, <2>1, <2>2 DEF Published, Agree
  <2>4. ASSUME NEW f \in File
        PROVE  idx'[Draft(p)].data[f] # None \/ idx'[Draft(p)].sha1[f] \in DOMAIN objs'
    BY <1>1, <1>3, <1>4, <1>6, Complete DEF Over
  <2>. QED BY <1>5, <2>1, <2>3, <2>4 DEF IndexStep
<1>7. CASE ~ OverwriteIndex \/ Draft(p) \notin DOMAIN idx
  <2>1. ~ OverwriteIndex => Draft(p)[3] = "tmp"
    BY DEF Draft, Outfile, Tmp
  <2>2. Published' = Published /\ Agree(Published)
    BY <1>4, <1>7, <2>1 DEF Published, Agree
  <2>. QED BY <1>5, <2>2 DEF IndexStep
<1>. QED BY <1>6, <1>7

\* INDEX.tmp gets its final name, which nothing has yet.
LEMMA PublishRun ==
  ASSUME StoreInv, NEW p \in Host, Publish(p)
  PROVE  RunOf(p)' /\ IndexStep
<1> DEFINE d == bk[p].date
<1>1. RunOf(p)'
  BY RunFacts DEF Publish, Becomes, RunOf, BackingUp, BackupIdle
<1>2. CASE OverwriteIndex
  <2>1. idx' = idx
    BY <1>2 DEF Publish
  <2>. QED BY <1>1, <2>1 DEF IndexStep, Published, Agree
<1>3. CASE ~ OverwriteIndex
  <2>1. BackingUp(p) /\ bk[p].pc \in Over /\ objs' = objs
    BY DEF Publish, BackingUp, Over
  <2>2. Draft(p) = Tmp(p, d) /\ Tmp(p, d) \in DOMAIN idx
    BY <1>3, <2>1, RunFacts DEF Draft, Outfile, TypeInv, Shape, ShapeOf
  <2>3. Final(p, d) \notin DOMAIN idx /\ Final(p, d) # Tmp(p, d)
    BY <1>3, <2>1, RunFacts DEF RunOf, Unpublished, Final, Tmp
  <2>4. d \in Date /\ Final(p, d) \in IndexName
    BY <2>1, RunFacts DEF TypeInv, Shape, ShapeOf, Final, IndexName
  <2>5. /\ DOMAIN idx' = (DOMAIN idx \cup {Final(p, d)}) \ {Tmp(p, d)}
        /\ idx'[Final(p, d)] = idx[Tmp(p, d)]
        /\ \A m \in DOMAIN idx \ {Tmp(p, d)} : idx'[m] = idx[m]
    BY <1>3, <2>3 DEF Publish, Put, Drop
  <2>6. Tmp(p, d)[3] = "tmp" /\ Final(p, d)[3] = "final"
    BY DEF Tmp, Final
  <2>7. Agree(Published) /\ Final(p, d) \notin Published
    BY <2>3, <2>5, <2>6 DEF Agree, Published
  <2>8. CASE idx[Tmp(p, d)].end
    <3>1. Published' = Published \cup {Final(p, d)}
      BY <2>3, <2>5, <2>6, <2>8 DEF Published
    <3>2. \A f \in File : \/ idx'[Final(p, d)].data[f] # None
                          \/ idx'[Final(p, d)].sha1[f] \in DOMAIN objs'
      BY <2>1, <2>2, <2>5, Complete
    <3>. QED BY <1>1, <2>4, <2>7, <3>1, <3>2 DEF IndexStep
  <2>9. CASE ~ idx[Tmp(p, d)].end
    <3>1. Published' = Published
      BY <2>3, <2>5, <2>6, <2>9 DEF Published
    <3>. QED BY <1>1, <2>7, <3>1 DEF IndexStep
  <2>. QED BY <2>8, <2>9
<1>. QED BY <1>2, <1>3

\* A run that ends leaves everything as it is.
LEMMA ExitRun ==
  ASSUME StoreInv, NEW p \in Host, ExitBackup(p), idx' = idx
  PROVE  RunOf(p)' /\ IndexStep
<1>1. bk'[p] = BackupIdle
  BY RunFacts DEF ExitBackup, Becomes
<1>. QED
  BY <1>1 DEF RunOf, BackingUp, BackupIdle, IndexStep, Published, Agree

\* A step of the run of p is no step of another.
LEMMA OtherRunsStay ==
  ASSUME StoreInv, NEW p \in Host, BackupNext(p) \/ CrashBackup(p),
         NEW q \in Host \ {p}
  PROVE  bk'[q] = bk[q]
<1>1. CASE \/ EnterDir(p) \/ StoreSmall(p) \/ UseHint(p) \/ HashRead(p)
           \/ HashDone(p) \/ ScanDone(p) \/ TestExists(p) \/ DirDone(p)
           \/ Finish(p) \/ SaveHints(p) \/ Publish(p)
  <2>1. \E r : Becomes(p, r)
    BY <1>1, QuietSteps, RunFacts, SMTT(60)
  <2>. QED BY <2>1, RunFacts DEF Becomes
<1>2. CASE \/ SmallShrunk(p) \/ CopyChanged(p) \/ RenameFails(p) \/ CrashBackup(p)
           \/ OpenTmp(p) \/ CopyRead(p) \/ CopyDone(p) \/ RenameObj(p)
           \/ \E d \in Date : StartBackup(p, d)
  BY <1>2, RunFacts
     DEF SmallShrunk, CopyChanged, RenameFails, CrashBackup, ExitBackup, OpenTmp,
         CopyRead, ReadBlock, CopyDone, RenameObj, StartBackup, Becomes
<1>. QED BY <1>1, <1>2 DEF BackupNext, BackupStep

\* Every step of a backup, its start and its death.
LEMMA BackupRuns ==
  ASSUME StoreInv, OneBackup, NEW p \in Host, BackupNext(p) \/ CrashBackup(p)
  PROVE  Runs' /\ IndexStep
<1>1. ASSUME NEW q \in Host \ {p} PROVE RunOf(q)'
  <2>1. CASE MayStart("backup")
    BY <1>1, <2>1, FirstRun, OtherRunsStay DEF RunOf, BackingUp
  <2>2. CASE BackingUp(p)
    BY <1>1, <2>2, OtherRunsStay DEF RunOf, BackingUp, StoreInv, IntactInv, OneRun
  <2>. QED BY <2>1, <2>2, StepsRun DEF BackupNext
<1>2. ASSUME \/ EnterDir(p) \/ HashRead(p) \/ ScanDone(p) \/ TestExists(p)
             \/ OpenTmp(p) \/ CopyRead(p) \/ CopyDone(p) \/ RenameObj(p)
             \/ DirDone(p) \/ SaveHints(p)
      PROVE  RunOf(p)' /\ IndexStep
  <2>1. idx' = idx
    BY <1>2 DEF EnterDir, HashRead, ScanDone, TestExists, OpenTmp, CopyRead,
         CopyDone, RenameObj, DirDone, SaveHints, medium
  <2>2. IndexStep
    BY <2>1 DEF IndexStep, Published, Agree
  <2>. QED
    BY <1>2, <2>2, EnterDirRun, HashReadRun, ScanDoneRun, SecondPassRun,
       DirDoneRun, SaveHintsRun
<1>3. ASSUME UseHint(p) \/ HashDone(p) PROVE RunOf(p)' /\ IndexStep
  <2>1. Scanning(p)
    BY <1>3 DEF UseHint, HashDone
  <2>2. bk[p].pc = "scan" /\ bk[p].todo # <<>> /\ RunShape(bk[p])
    BY <2>1, RunFacts DEF Scanning, TypeInv, Shape, ShapeOf
  <2>3. Current(p) \in File /\ bk[p].stat[Current(p)] \in Stat
    BY <2>2, RunFacts, TailShape DEF Current
  <2>4. CASE UseHint(p)
    <3>1. bk[p].hints[Current(p)] \in Hint
      BY <2>3, <2>4, RunFacts, Parts
         DEF TypeInv, UseHint, MatchingHint, HintFits
    <3>2. bk[p].hints[Current(p)].hash \in HashName
      BY <3>1 DEF Hint
    <3>. QED BY <2>1, <2>4, <3>2, RecordRun DEF UseHint
  <2>5. CASE HashDone(p)
    <3>1. Hash(bk[p].ctx) \in HashName
      BY RunFacts, HashType DEF Run
    <3>. QED BY <2>1, <2>5, <3>1, RecordRun DEF HashDone
  <2>. QED BY <1>3, <2>4, <2>5
<1>4. ASSUME SmallShrunk(p) \/ CopyChanged(p) \/ RenameFails(p) \/ CrashBackup(p)
      PROVE  RunOf(p)' /\ IndexStep
  BY <1>4, ExitRun DEF SmallShrunk, CopyChanged, RenameFails, CrashBackup
<1>5. RunOf(p)' /\ IndexStep
  BY <1>2, <1>3, <1>4, StoreSmallRun, StartBackupRun, FinishRun, PublishRun
     DEF BackupNext, BackupStep
<1>. QED BY <1>1, <1>5 DEF Runs

----------------------------------------------------------------------------
(***************************************************************************)
(* Steps of the others.                                                    *)
(***************************************************************************)
\* A step without a part for a backup that takes away no object.
LEMMA OthersRuns ==
  ASSUME StoreInv, bk' = bk, DOMAIN objs \subseteq DOMAIN objs',
         \A n \in DOMAIN idx' : n \in DOMAIN idx /\ idx'[n] = idx[n]
  PROVE  Runs'
<1> SUFFICES ASSUME NEW p \in Host, BackingUp(p) PROVE RunOf(p)'
  BY DEF Runs, RunOf, BackingUp
<1>1. RunOf(p) /\ Draft(p)' = Draft(p) /\ Published' \subseteq Published
  BY RunFacts DEF Draft, Published
<1>2. Draft(p)' \in DOMAIN idx' => Covered(bk[p], idx[Draft(p)])'
  BY <1>1 DEF RunOf, Covered, Awaited, Later
<1>3. Known(bk[p])' /\ EmptyQueue(bk[p])' /\ Unpublished(p, bk[p])'
  BY <1>1 DEF RunOf, Known, EmptyQueue, Unpublished
<1>. QED BY <1>2, <1>3 DEF RunOf

\* A cleanup does not meet a backup.
LEMMA CleanupRuns ==
  ASSUME StoreInv, CleanupsAlone, CleanupNext \/ CrashCleanup
  PROVE  Runs' /\ IndexStep
<1>1. idx' = idx /\ bk' = bk
  BY CleanupLeaves
<1>2. \A p \in Host : ~ BackingUp(p)
  BY StartsAlone
     DEF StoreInv, CleanInv, NoBackup, Cleaning, CleanupNext, CrashCleanup,
         CleanupStep, MarkIndex, MarkFails, MarkDone, ListRepo, SweepFile,
         SweepFails, CheckFile, CheckUnreadable, Verdict, RemoveFile,
         RemoveFails, RemoveGone, SweepDone
<1>3. Runs'
  BY <1>1, <1>2 DEF Runs, RunOf, BackingUp
<1>. QED BY <1>1, <1>3 DEF IndexStep, Published, Agree

\* A verification finds no object that is wrong.
LEMMA VerifyRuns ==
  ASSUME StoreInv, VerifyNext \/ CrashVerify
  PROVE  Runs' /\ NoneWrong' /\ IndexStep
<1>1. idx' = idx /\ bk' = bk
  BY DEF VerifyNext, CrashVerify, StartVerify, VerifyStep, VerifyGood,
         VerifyMismatch, RemoveWrong, VerifyMissing, VerifyDone, medium
<1>2. DOMAIN objs \subseteq DOMAIN objs'
  BY VerifyRemoves DEF StoreInv, IntactInv, ObjectsIntact, NoneWrong, StillWrong
<1>3. Runs'
  BY <1>1, <1>2, OthersRuns
<1>4. ~ RemoveWrong /\ \A h : ~ VerifyMismatch(h)
  BY DEF StoreInv, NoneWrong, IntactInv, ObjectsIntact, RemoveWrong,
         VerifyMismatch, SameHash, Intact
<1>5. vf \in Check
  BY DEF StoreInv, IntactInv, TypeInv, TypeOK, VerifyTypeOK
<1>6. NoneWrong'
  <2>1. ASSUME NEW h, VerifyGood(h) \/ VerifyMissing(h) PROVE NoneWrong'
    <3>1. PICK ok : Visited(h, ok)
      BY <2>1 DEF VerifyGood, VerifyMissing
    <3>. QED BY <1>5, <3>1 DEF Visited, Check, NoneWrong, StoreInv
  <2>2. ASSUME NEW n, StartVerify(n) PROVE NoneWrong'
    BY <2>2 DEF StartVerify, NoneWrong
  <2>3. CASE vf' = VerifyIdle
    BY <2>3 DEF VerifyIdle, NoneWrong
  <2>. QED
    BY <1>4, <2>1, <2>2, <2>3 DEF VerifyNext, CrashVerify, VerifyStep, VerifyDone
<1>. QED BY <1>1, <1>3, <1>6 DEF IndexStep, Published, Agree

\* An index that is deleted takes nothing else with it.
LEMMA EnvironmentRuns ==
  ASSUME StoreInv, Environment \/ UNCHANGED vars
  PROVE  Runs' /\ IndexStep
<1>1. bk' = bk /\ objs' = objs
  BY DEF Environment, Edit, Tick, DeleteIndex, vars, mvars
<1>2. CASE idx' = idx
  BY <1>1, <1>2, OthersRuns DEF IndexStep, Published, Agree
<1>3. ASSUME NEW n \in Published, idx' = Drop(idx, n) PROVE Runs' /\ IndexStep
  <2>1. DOMAIN idx' = DOMAIN idx \ {n} /\ \A m \in DOMAIN idx' : idx'[m] = idx[m]
    BY <1>3 DEF Drop
  <2>2. Published' = Published \ {n} /\ Agree(Published \ {n})
    BY <2>1 DEF Published, Agree
  <2>. QED BY <1>1, <2>1, <2>2, OthersRuns DEF IndexStep
<1>. QED
  BY <1>2, <1>3 DEF Environment, Edit, Tick, DeleteIndex, vars, mvars

----------------------------------------------------------------------------
\* No step breaks what is published, and what it publishes is whole.
LEMMA StepRestorable ==
  ASSUME StoreInv, ReadsSucceed, [Next]_vars, ObjectsIntact', IndexStep
  PROVE  PublishedRestorable'
<1>1. ASSUME NEW n \in Published, idx'[n] = idx[n], NEW f \in File
      PROVE  idx'[n].data[f] # None \/ idx'[n].sha1[f] \in DOMAIN objs'
  <2> DEFINE h == idx[n].sha1[f]
  <2>1. CASE idx[n].data[f] # None
    BY <1>1, <2>1
  <2>2. CASE h \in DOMAIN objs /\ Intact(h)
    <3>1. n \in DOMAIN idx /\ TypeInv
      BY <1>1 DEF Published, StoreInv, IntactInv
    <3>2. h # None
      <4>1. IsMap(objs, HashName, Bytes)
        BY <3>1 DEF TypeInv, TypeOK, MediumTypeOK
      <4>. QED BY <2>2, <4>1, NoneAssumption DEF IsMap
    <3>3. h \in HashesOf(idx[n])
      BY <3>2 DEF HashesOf
    <3>4. h \in DOMAIN objs'
      BY <2>2, <3>1, <3>3, NeededStays DEF StoreInv, NoneWrong, StillWrong
    <3>. QED BY <1>1, <3>4
  <2>. QED BY <1>1, <2>1, <2>2 DEF StoreInv, PublishedRestorable
<1>2. \A n \in Published' : \A f \in File :
         idx'[n].data[f] # None \/ idx'[n].sha1[f] \in DOMAIN objs'
  BY <1>1 DEF IndexStep, Agree
<1>. QED BY <1>2 DEF PublishedRestorable, ObjectsIntact

\* The invariant holds at first and every step keeps it.
LEMMA InitStore == Init => StoreInv
<1> SUFFICES ASSUME Init PROVE Runs /\ NoneWrong /\ PublishedRestorable
  BY InitIntact, InitClean DEF StoreInv
<1>. QED
  BY DEF Init, MediumInit, BackupInit, BackupIdle, EmptyMap, Runs, RunOf,
         BackingUp, VerifyInit, VerifyIdle, NoneWrong, PublishedRestorable,
         Published

LEMMA NextStore ==
  ASSUME OneBackup, RecheckHash, CleanupsAlone, ReadsSucceed
  PROVE  StoreInv /\ [Next]_vars => StoreInv' /\ IndexStep
<1> SUFFICES ASSUME StoreInv, [Next]_vars PROVE StoreInv' /\ IndexStep
  OBVIOUS
<1>1. IntactInv' /\ CleanInv'
  BY NextIntact, NextClean DEF StoreInv, IntactInv
<1>2. Runs' /\ IndexStep
  BY BackupRuns, CleanupRuns, VerifyRuns, EnvironmentRuns DEF Next
<1>3. PublishedRestorable'
  BY <1>1, <1>2, StepRestorable DEF IntactInv
<1>4. NoneWrong'
  <2>1. CASE VerifyNext \/ CrashVerify
    BY <2>1, VerifyRuns
  <2>2. CASE vf' = vf
    BY <2>2 DEF StoreInv, NoneWrong
  <2>. QED
    BY <2>1, <2>2, CleanupLeaves
       DEF Next, BackupNext, CrashBackup, Environment, vars
<1>. QED BY <1>1, <1>2, <1>3, <1>4 DEF StoreInv

LEMMA AlwaysStore ==
  ASSUME OneBackup, RecheckHash, CleanupsAlone, ReadsSucceed
  PROVE  Spec => []StoreInv
<1>1. StoreInv /\ [Next]_vars => StoreInv'
  BY NextStore
<1>. QED BY InitStore, <1>1, PTL DEF Spec

\* An index under its final name can be restored in full at any moment: each
\* object that a backup found or stored (backup.cc:258-268, 309-343) is there for as
\* long as the index is, whatever backups, cleanups and verifications do, and
\* wherever they die.
THEOREM IndexesRestorable ==
  ASSUME OneBackup, RecheckHash, CleanupsAlone, ReadsSucceed
  PROVE  Spec => []PublishedRestorable
<1>1. StoreInv => PublishedRestorable
  BY DEF StoreInv
<1>. QED BY <1>1, AlwaysStore, PTL

----------------------------------------------------------------------------
(***************************************************************************)
(* Refinement.                                                             *)
(***************************************************************************)
\* What a restore gives for the line of f in x: its data, or the bytes that its
\* hash is of.
Meant(x, f) == IF x.data[f] # None THEN x.data[f] ELSE x.sha1[f].sha1

AsMeant ==
    \A n \in Published : \A f \in File :
       Restored(idx[n], f) = Meant(idx[n], f) /\ Meant(idx[n], f) \in Bytes

LEMMA RestoredAsMeant == StoreInv => AsMeant
<1> SUFFICES ASSUME StoreInv, NEW n \in Published, NEW f \in File
             PROVE  /\ Restored(idx[n], f) = Meant(idx[n], f)
                    /\ Meant(idx[n], f) \in Bytes
  BY DEF AsMeant
<1> DEFINE x == idx[n]
<1>1. x \in IndexFile /\ IsMap(objs, HashName, Bytes)
  BY DEF StoreInv, IntactInv, TypeInv, TypeOK, MediumTypeOK, IsMap, Published
<1>2. CASE x.data[f] # None
  BY <1>1, <1>2 DEF Restored, Meant, IndexFile
<1>3. CASE x.data[f] = None
  <2>1. x.sha1[f] \in DOMAIN objs /\ Hash(objs[x.sha1[f]]) = x.sha1[f]
    BY <1>3 DEF StoreInv, PublishedRestorable, Intact
  <2>2. x.sha1[f].sha1 = objs[x.sha1[f]]
    BY <2>1 DEF Hash
  <2>3. objs[x.sha1[f]] \in Bytes
    BY <1>1, <2>1 DEF IsMap
  <2>. QED BY <1>3, <2>1, <2>2, <2>3 DEF Restored, Meant
<1>. QED BY <1>2, <1>3

\* So a snapshot whose index stays as it was stays as it was.
LEMMA SnapshotsKept ==
  ASSUME AsMeant, AsMeant', NEW S, S \subseteq Published,
         S \subseteq Published', Agree(S), NEW n \in S
  PROVE  Snapshots'[n] = Snapshots[n]
<1>1. idx'[n] = idx[n] /\ n \in Published /\ n \in Published'
  BY DEF Agree
<1>2. ASSUME NEW f \in File PROVE Restored(idx[n], f)' = Restored(idx[n], f)
  <2>1. Restored(idx[n], f) = Meant(idx[n], f)
    BY <1>1 DEF AsMeant
  <2>2. Restored(idx[n], f)' = Meant(idx[n], f)'
    BY <1>1 DEF AsMeant
  <2>3. Meant(idx[n], f)' = Meant(idx[n], f)
    BY <1>1 DEF Meant
  <2>. QED BY <2>1, <2>2, <2>3
<1>3. /\ Snapshots[n] = [f \in File |-> Restored(idx[n], f)]
      /\ Snapshots'[n] = [f \in File |-> Restored(idx[n], f)']
  BY <1>1 DEF Snapshots
<1>. QED BY <1>2, <1>3

\* The snapshots are files with contents.
SnapshotsTyped ==
    /\ DOMAIN Snapshots = Published
    /\ Snapshots \in [DOMAIN Snapshots -> [File -> Bytes]]

LEMMA SnapshotsType == AsMeant => SnapshotsTyped
<1> SUFFICES ASSUME AsMeant
             PROVE  \A n \in Published :
                       [f \in File |-> Restored(idx[n], f)] \in [File -> Bytes]
  BY DEF SnapshotsTyped, Snapshots
<1>. QED BY DEF AsMeant

\* A step that changes the published indexes by at most one is a step of the
\* collection of snapshots.
LEMMA StepRefines ==
  ASSUME StoreInv, StoreInv', IndexStep
  PROVE  [Store!Next]_Snapshots
<1>1. AsMeant /\ AsMeant'
  BY RestoredAsMeant, PTL
<1>2. SnapshotsTyped /\ SnapshotsTyped'
  BY <1>1, SnapshotsType, PTL
<1>3. /\ DOMAIN Snapshots = Published /\ DOMAIN Snapshots' = Published'
      /\ Snapshots' \in [DOMAIN Snapshots' -> [File -> Bytes]]
      /\ Snapshots \in [DOMAIN Snapshots -> [File -> Bytes]]
  BY <1>2 DEF SnapshotsTyped
<1>4. CASE Published' = Published /\ Agree(Published)
  <2>1. \A n \in Published : Snapshots'[n] = Snapshots[n]
    BY <1>1, <1>4, SnapshotsKept
  <2>. QED BY <1>3, <1>4, <2>1
<1>5. ASSUME NEW n \in IndexName \ Published, Published' = Published \cup {n},
             Agree(Published)
      PROVE  Store!Publish(n)
  <2>1. \A m \in Published : Snapshots'[m] = Snapshots[m]
    BY <1>1, <1>5, SnapshotsKept
  <2>. QED BY <1>3, <1>5, <2>1 DEF Store!Publish, Store!Kept
<1>6. ASSUME NEW n \in Published, Published' = Published \ {n},
             Agree(Published \ {n})
      PROVE  Store!Discard(n)
  <2>1. \A m \in Published' : Snapshots'[m] = Snapshots[m]
    BY <1>1, <1>6, SnapshotsKept
  <2>. QED BY <1>3, <1>6, <2>1 DEF Store!Discard, Store!Kept
<1>7. Published \subseteq IndexName
  BY DEF Published, StoreInv, IntactInv, TypeInv, TypeOK, MediumTypeOK, IsMap
<1>. QED BY <1>4, <1>5, <1>6, <1>7 DEF IndexStep, Store!Next

\* Backup, cleanup and verification implement a collection of snapshots
\* (SnapshotStore): one appears whole with the rename of its index
\* (backup.cc:99-112; with --overwrite it goes with the truncation and comes
\* back with [end]), never changes, and goes only when somebody deletes it.
THEOREM ImplementsStore ==
  ASSUME OneBackup, RecheckHash, CleanupsAlone, ReadsSucceed
  PROVE  Spec => StoreSpec
<1>1. Init => Store!Init
  BY DEF Init, MediumInit, EmptyMap, Store!Init, Snapshots, Published
<1>2. StoreInv /\ StoreInv' /\ [Next]_vars => [Store!Next]_Snapshots
  BY NextStore, StepRefines
<1>. QED BY <1>1, <1>2, AlwaysStore, PTL DEF Spec, StoreSpec, Store!Spec
=============================================================================
