--------------------------- MODULE NhbackupProofs ---------------------------
(***************************************************************************)
(* The repository, for any machines, files, contents and options.  Its     *)
(* types, whatever runs overlap.                                           *)
(*                                                                         *)
(* Its integrity: if hashes are rechecked and no two backups overlap, no       *)
(* object ever gets contents other than its name says, however cleanups    *)
(* and verifications overlap with the backups.  And what cleanups and      *)
(* verifications do to it, and what backup says of the files it saves.     *)
(***************************************************************************)
EXTENDS Nhbackup, MediumProofs

----------------------------------------------------------------------------
(***************************************************************************)
(* Type correctness.                                                       *)
(***************************************************************************)
\* The state of a machine without a run has the type of a run.
LEMMA BackupIdleType == BackupIdle \in Run
<1>1. <<>> \in Bytes
  BY DEF Bytes
<1>. QED BY <1>1 DEF BackupIdle, Run, NoHints, Hints

----------------------------------------------------------------------------
(***************************************************************************)
(* The strengthening: what the types of a step's results depend on.  A run *)
(* has a date and, unless it rewrites the index in place, its draft is     *)
(* there; it has stat data for the files it is going to look at; and it    *)
(* stores an object only off the head of the queue.                        *)
(***************************************************************************)
RunShape(r) ==
    /\ r.pc = "scan" => \A i \in 1 .. Len(r.todo) : r.stat[r.todo[i]] # None
    /\ r.pc \in {"open", "copy", "rename"} => r.hashables # <<>>

ShapeOf(p) ==
    /\ BackingUp(p) => bk[p].date \in Date
    /\ BackingUp(p) /\ ~ OverwriteIndex => Draft(p) \in DOMAIN idx
    /\ RunShape(bk[p])

Shape == \A p \in Host : ShapeOf(p)

TypeInv == TypeOK /\ Shape

\* The parts of TypeOK one by one, as the steps below use them.
LEMMA Parts ==
  ASSUME TypeOK, NEW p \in Host
  PROVE  /\ bk \in [Host -> Run] /\ bk[p] \in Run
         /\ bk[p].todo \in Seq(File) /\ bk[p].hashables \in Seq(Hashable)
         /\ bk[p].ctx \in Bytes /\ bk[p].dir \in Nat
         /\ \A f \in File : /\ src[p][f] \in SourceFile
                            /\ src[p][f].data \in Bytes
                            /\ src[p][f].stamp \in Nat
                            /\ bk[p].stat[f] \in {None} \cup Stat
                            /\ bk[p].hints[f] \in {None} \cup Hint
         /\ IsMap(idx, IndexName, IndexFile)
         /\ IsMap(objs, HashName, Bytes)
         /\ IsMap(tmps, HashName, Bytes)
         /\ wfd \in [Host -> {None} \cup WriteFd]
BY DEF TypeOK, MediumTypeOK, BackupTypeOK, Run, SourceFile, Hints

\* The run of p changes: it suffices that the new record is one of a run.
LEMMA BecomesType ==
  ASSUME TypeOK, NEW p \in Host, NEW r \in Run, Becomes(p, r)
  PROVE  BackupTypeOK' /\ bk' = [bk EXCEPT ![p] = r] /\ bk'[p] = r
BY Parts DEF Becomes, BackupTypeOK

\* The runs other than that of p, and the indexes they write, stay the same.
LEMMA OthersShape ==
  ASSUME TypeInv, NEW p \in Host, NEW r, Becomes(p, r),
         \A q \in Host \ {p} : BackingUp(q) /\ ~ OverwriteIndex
                                  /\ Draft(q) \in DOMAIN idx
                                  => Draft(q) \in DOMAIN idx',
         ShapeOf(p)'
  PROVE  Shape'
<1> SUFFICES ASSUME NEW q \in Host, q # p PROVE ShapeOf(q)'
  BY DEF Shape
<1>1. bk'[q] = bk[q]
  BY Parts DEF Becomes, TypeInv
<1>2. ShapeOf(q)
  BY DEF TypeInv, Shape
<1>. QED BY <1>1, <1>2 DEF ShapeOf, BackingUp, Draft

----------------------------------------------------------------------------
\* do_backup creates or truncates the index and has a run with a date.
LEMMA StartBackupType ==
  ASSUME TypeInv, NEW p \in Host, NEW d \in Date, StartBackup(p, d),
         UNCHANGED <<cl, vf>>
  PROVE  TypeInv'
<1> DEFINE r == [BackupIdle EXCEPT !.pc = "dir", !.date = d, !.dir = 1,
                 !.hints = IF UseHints THEN hintfile[p] ELSE NoHints]
<1>1. (IF UseHints THEN hintfile[p] ELSE NoHints) \in Hints
  BY DEF TypeInv, TypeOK, MediumTypeOK, Hints, NoHints
<1>2. r \in Run
  BY <1>1, BackupIdleType DEF Run
<1>3. /\ BackupTypeOK' /\ bk'[p] = r /\ Becomes(p, r)
  BY <1>2, BecomesType DEF TypeInv, StartBackup
<1>4. Outfile(p, d) \in IndexName
  BY DEF Outfile, Final, Tmp, IndexName
<1>5. IsMap(idx', IndexName, IndexFile)
  BY <1>4, EmptyIndexType, PutType, Parts DEF TypeInv, StartBackup
<1>6. MediumTypeOK'
  BY <1>5 DEF TypeInv, TypeOK, MediumTypeOK, StartBackup, files
<1>7. r.pc = "dir" /\ r.date = d
  BY DEF BackupIdle
<1>8. DOMAIN idx' = DOMAIN idx \cup {Outfile(p, d)}
  BY DEF StartBackup, Put
<1>9. ShapeOf(p)'
  BY <1>3, <1>7, <1>8 DEF ShapeOf, RunShape, BackingUp, Draft
<1>10. Shape'
  BY <1>3, <1>8, <1>9, OthersShape
<1>. QED
  BY <1>3, <1>6, <1>10 DEF TypeInv, TypeOK, CleanupTypeOK, VerifyTypeOK

\* All other steps of a run leave the set of indexes alone, but for the last.
LEMMA StepType ==
  ASSUME TypeInv, NEW p \in Host, NEW r \in Run, Becomes(p, r),
         MediumTypeOK', DOMAIN idx' = DOMAIN idx, UNCHANGED <<cl, vf>>,
         r.pc # "idle" => BackingUp(p) /\ r.date = bk[p].date,
         RunShape(r)
  PROVE  TypeInv'
<1>1. BackupTypeOK' /\ bk'[p] = r
  BY BecomesType DEF TypeInv
<1>2. ShapeOf(p)
  BY DEF TypeInv, Shape
<1>3. ShapeOf(p)'
  BY <1>1, <1>2 DEF ShapeOf, BackingUp, Draft
<1>4. Shape'
  BY <1>3, OthersShape
<1>. QED
  BY <1>1, <1>4 DEF TypeInv, TypeOK, CleanupTypeOK, VerifyTypeOK

\* A step of a run that touches nothing but the run.
LEMMA LocalStepType ==
  ASSUME TypeInv, NEW p \in Host, NEW r \in Run, Becomes(p, r),
         UNCHANGED <<files, medium, events>>, UNCHANGED <<cl, vf>>,
         r.pc # "idle" => BackingUp(p) /\ r.date = bk[p].date,
         RunShape(r)
  PROVE  TypeInv'
<1>1. MediumTypeOK' /\ idx' = idx
  BY DEF TypeInv, TypeOK, MediumTypeOK, files, medium
<1>. QED BY <1>1, StepType

\* lstat of the entries gives stat data for every file of the list.
LEMMA EnterDirType ==
  ASSUME TypeInv, NEW p \in Host, EnterDir(p), UNCHANGED <<cl, vf>>
  PROVE  TypeInv'
<1> DEFINE st == Statted(p, FilesIn(bk[p].dir))
           t == Tree[bk[p].dir]
           r == [bk[p] EXCEPT !.pc = "scan", !.todo = t, !.stat = st]
<1>1. bk[p] \in Run /\ \A f \in File : src[p][f] \in SourceFile
  BY Parts DEF TypeInv
<1>2. t \in Seq(File)
  BY NamesAssumption DEF EnterDir
<1>3. ASSUME NEW f \in File PROVE StatOf(src[p][f]) \in Stat
  <2>1. Len(src[p][f].data) \in Nat
    BY <1>1, LenProperties DEF SourceFile, Bytes
  <2>. QED BY <1>1, <2>1 DEF StatOf, SourceFile, Stat
<1>4. st \in [File -> {None} \cup Stat]
  BY <1>1, <1>3 DEF Statted, Run
<1>5. r \in Run
  BY <1>1, <1>2, <1>4 DEF Run
<1>6. /\ r.pc = "scan" /\ r.todo = t /\ r.stat = st /\ r.date = bk[p].date
      /\ BackingUp(p)
  BY <1>1 DEF Run, EnterDir, BackingUp
<1>7. ASSUME NEW i \in 1 .. Len(t) PROVE st[t[i]] # None
  <2>1. t[i] \in File /\ t[i] \in FilesIn(bk[p].dir)
    BY <1>2, ElementOfSeq, LenProperties DEF FilesIn
  <2>2. st[t[i]] \in Stat
    BY <1>3, <2>1 DEF Statted
  <2>. QED BY <2>2, NoneAssumption
<1>8. RunShape(r)
  BY <1>6, <1>7 DEF RunShape
<1>. QED BY <1>5, <1>6, <1>8, LocalStepType DEF EnterDir

\* The index of a run gets a detail of a line.
LEMMA LineType ==
  ASSUME TypeOK, NEW p \in Host, NEW f \in File,
         \/ \E d \in Bytes : idx' = [idx EXCEPT ![Draft(p)].data[f] = d]
         \/ \E h \in HashName : idx' = [idx EXCEPT ![Draft(p)].sha1[f] = h]
         \/ idx' = [idx EXCEPT ![Draft(p)].end = TRUE],
         UNCHANGED <<src, clock, hintfile, objs, tmps, wfd, events>>
  PROVE  MediumTypeOK' /\ DOMAIN idx' = DOMAIN idx
<1> DEFINE x == idx[Draft(p)]
<1>1. IsMap(idx, IndexName, IndexFile)
  BY Parts
<1>2. PICK v : /\ idx' = [idx EXCEPT ![Draft(p)] = v]
               /\ Draft(p) \in DOMAIN idx => v \in IndexFile
  <2>1. ASSUME NEW d \in Bytes, idx' = [idx EXCEPT ![Draft(p)].data[f] = d]
        PROVE  \E v : /\ idx' = [idx EXCEPT ![Draft(p)] = v]
                      /\ Draft(p) \in DOMAIN idx => v \in IndexFile
    <3> DEFINE v == [x EXCEPT !.data = [x.data EXCEPT ![f] = d]]
    <3>1. idx' = [idx EXCEPT ![Draft(p)] = v]
      BY <2>1
    <3>2. Draft(p) \in DOMAIN idx => v \in IndexFile
      BY <1>1 DEF IsMap, IndexFile
    <3>. QED BY <3>1, <3>2
  <2>2. ASSUME NEW h \in HashName, idx' = [idx EXCEPT ![Draft(p)].sha1[f] = h]
        PROVE  \E v : /\ idx' = [idx EXCEPT ![Draft(p)] = v]
                      /\ Draft(p) \in DOMAIN idx => v \in IndexFile
    <3> DEFINE v == [x EXCEPT !.sha1 = [x.sha1 EXCEPT ![f] = h]]
    <3>1. idx' = [idx EXCEPT ![Draft(p)] = v]
      BY <2>2
    <3>2. Draft(p) \in DOMAIN idx => v \in IndexFile
      BY <1>1 DEF IsMap, IndexFile
    <3>. QED BY <3>1, <3>2
  <2>3. ASSUME idx' = [idx EXCEPT ![Draft(p)].end = TRUE]
        PROVE  \E v : /\ idx' = [idx EXCEPT ![Draft(p)] = v]
                      /\ Draft(p) \in DOMAIN idx => v \in IndexFile
    <3> DEFINE v == [x EXCEPT !.end = TRUE]
    <3>1. idx' = [idx EXCEPT ![Draft(p)] = v]
      BY <2>3
    <3>2. Draft(p) \in DOMAIN idx => v \in IndexFile
      BY <1>1 DEF IsMap, IndexFile
    <3>. QED BY <3>1, <3>2
  <2>. QED BY <2>1, <2>2, <2>3
<1>3. IsMap(idx', IndexName, IndexFile)
  BY <1>1, <1>2, ExceptType
<1>4. DOMAIN idx' = DOMAIN idx
  BY <1>2
<1>. QED BY <1>3, <1>4 DEF TypeOK, MediumTypeOK

\* A run that moves on in its list of files still has stat data for the rest.
LEMMA TailShape ==
  ASSUME NEW r \in Run, RunShape(r), r.pc = "scan", r.todo # <<>>
  PROVE  /\ Head(r.todo) \in File /\ Tail(r.todo) \in Seq(File)
         /\ r.stat[Head(r.todo)] \in Stat
         /\ \A i \in 1 .. Len(Tail(r.todo)) : r.stat[Tail(r.todo)[i]] # None
<1>1. r.todo \in Seq(File) /\ r.stat \in [File -> {None} \cup Stat]
  BY DEF Run
<1>2. /\ Head(r.todo) \in File /\ Tail(r.todo) \in Seq(File)
      /\ Len(Tail(r.todo)) = Len(r.todo) - 1
      /\ \A i \in 1 .. Len(Tail(r.todo)) : Tail(r.todo)[i] = r.todo[i + 1]
  BY <1>1, HeadTailProperties
<1>3. Len(r.todo) \in Nat \ {0} /\ Head(r.todo) = r.todo[1]
  BY <1>1, EmptySeq
<1>4. \A i \in 1 .. Len(r.todo) : r.stat[r.todo[i]] # None
  BY SMTT(60) DEF RunShape
<1>. QED BY <1>1, <1>2, <1>3, <1>4

\* The first st_size bytes of a file that has as many are bytes.
LEMMA StoreSmallType ==
  ASSUME TypeInv, NEW p \in Host, StoreSmall(p), UNCHANGED <<cl, vf>>
  PROVE  TypeInv'
<1> DEFINE f == Current(p)
           d == src[p][f].data
           n == bk[p].stat[f].size
           r == [bk[p] EXCEPT !.todo = Tail(bk[p].todo)]
<1>1. /\ bk[p] \in Run /\ RunShape(bk[p]) /\ bk[p].pc = "scan"
      /\ bk[p].todo # <<>> /\ f = Head(bk[p].todo)
  BY Parts DEF TypeInv, Shape, ShapeOf, StoreSmall, Scanning, Current
<1>2. /\ f \in File /\ Tail(bk[p].todo) \in Seq(File) /\ bk[p].stat[f] \in Stat
      /\ \A i \in 1 .. Len(Tail(bk[p].todo)) : bk[p].stat[Tail(bk[p].todo)[i]] # None
  BY <1>1, TailShape
<1>3. d \in Bytes /\ n \in Nat
  BY <1>2, Parts DEF TypeInv, Stat
<1>4. SubSeq(d, 1, n) \in Bytes
  <2>1. Len(d) \in Nat /\ n \in 0 .. Len(d)
    BY <1>3, LenProperties DEF StoreSmall, Bytes
  <2>2. \A i \in 1 .. n : d[i] \in Byte
    BY <1>3, <2>1, ElementOfSeq DEF Bytes
  <2>. QED BY <1>3, <2>1, <2>2, SubSeqProperties DEF Bytes
<1>5. r \in Run
  BY <1>1, <1>2 DEF Run
<1>6. /\ r.pc = "scan" /\ r.todo = Tail(bk[p].todo) /\ r.stat = bk[p].stat
      /\ r.date = bk[p].date
  BY <1>1 DEF Run
<1>7. RunShape(r)
  BY <1>2, <1>6 DEF RunShape
<1>8. MediumTypeOK' /\ DOMAIN idx' = DOMAIN idx
  <2>1. idx' = [idx EXCEPT ![Draft(p)].data[f] = SubSeq(d, 1, n)]
    BY DEF StoreSmall
  <2>. QED BY <1>2, <1>4, <2>1, LineType DEF TypeInv, StoreSmall, files
<1>. QED BY <1>1, <1>5, <1>6, <1>7, <1>8, StepType DEF StoreSmall, BackingUp

\* A file with a hash gets its line, its hint and its place in the queue.
LEMMA RecordType ==
  ASSUME TypeInv, NEW p \in Host, NEW h \in HashName, Scanning(p), Record(p, h),
         UNCHANGED <<cl, vf>>
  PROVE  TypeInv'
<1> DEFINE f == Current(p)
           k == IF UseHints THEN HintOf(p, f, h) ELSE None
           q == IF NewHash(p, h) THEN <<[path |-> f, hash |-> h]>> ELSE <<>>
           nh == [bk[p].newhints EXCEPT ![f] = k]
           hs == bk[p].hashables \o q
           ir == bk[p].inrepo \cup {h}
           r == [bk[p] EXCEPT !.todo = Tail(bk[p].todo), !.ctx = <<>>,
                              !.newhints = nh, !.hashables = hs, !.inrepo = ir]
<1>1. /\ bk[p] \in Run /\ RunShape(bk[p]) /\ bk[p].pc = "scan"
      /\ bk[p].todo # <<>> /\ f = Head(bk[p].todo)
  BY Parts DEF TypeInv, Shape, ShapeOf, Scanning, Current
<1>2. /\ f \in File /\ Tail(bk[p].todo) \in Seq(File) /\ bk[p].stat[f] \in Stat
      /\ \A i \in 1 .. Len(Tail(bk[p].todo)) : bk[p].stat[Tail(bk[p].todo)[i]] # None
  BY <1>1, TailShape
<1>3. k \in {None} \cup Hint
  BY <1>2 DEF HintOf, Hint, Stat
<1>4. nh \in Hints
  BY <1>1, <1>2, <1>3 DEF Run, Hints
<1>5. hs \in Seq(Hashable)
  <2>1. [path |-> f, hash |-> h] \in Hashable
    BY <1>2 DEF Hashable
  <2>2. q \in Seq(Hashable)
    BY <2>1
  <2>3. bk[p].hashables \in Seq(Hashable)
    BY <1>1 DEF Run
  <2>. QED BY <2>2, <2>3, ConcatProperties
<1>6. ir \in SUBSET HashName /\ <<>> \in Bytes
  BY <1>1 DEF Run, Bytes
<1>7. r \in Run
  BY <1>1, <1>2, <1>4, <1>5, <1>6 DEF Run
<1>8. /\ r.pc = "scan" /\ r.todo = Tail(bk[p].todo) /\ r.stat = bk[p].stat
      /\ r.date = bk[p].date
  BY <1>1 DEF Run
<1>9. RunShape(r)
  BY <1>2, <1>8 DEF RunShape
<1>10. MediumTypeOK' /\ DOMAIN idx' = DOMAIN idx
  <2>1. idx' = [idx EXCEPT ![Draft(p)].sha1[f] = h]
    BY DEF Record
  <2>. QED BY <1>2, <2>1, LineType DEF TypeInv, Record, files
<1>11. Becomes(p, r)
  BY DEF Record
<1>. QED BY <1>1, <1>7, <1>8, <1>9, <1>10, <1>11, StepType DEF BackingUp

\* The hash of a hint is a hash.
LEMMA UseHintType ==
  ASSUME TypeInv, NEW p \in Host, UseHint(p), UNCHANGED <<cl, vf>>
  PROVE  TypeInv'
<1>1. bk[p].hints[Current(p)] \in Hint
  <2>1. /\ bk[p] \in Run /\ RunShape(bk[p]) /\ bk[p].pc = "scan"
        /\ bk[p].todo # <<>> /\ Current(p) = Head(bk[p].todo)
    BY Parts DEF TypeInv, Shape, ShapeOf, UseHint, Scanning, Current
  <2>2. Current(p) \in File
    BY <2>1, TailShape
  <2>. QED BY <2>1, <2>2 DEF UseHint, MatchingHint, HintFits, Run, Hints
<1>2. bk[p].hints[Current(p)].hash \in HashName
  BY <1>1 DEF Hint
<1>. QED BY <1>2, RecordType DEF UseHint

\* The hash of what was read is a hash.
LEMMA HashDoneType ==
  ASSUME TypeInv, NEW p \in Host, HashDone(p), UNCHANGED <<cl, vf>>
  PROVE  TypeInv'
<1>1. Hash(bk[p].ctx) \in HashName
  BY Parts, HashType DEF TypeInv
<1>. QED BY <1>1, RecordType DEF HashDone

\* Reading a block adds a byte to what has been read.
LEMMA ReadBlockType ==
  ASSUME TypeInv, NEW p \in Host, NEW f \in File,
         Len(bk[p].ctx) < Len(src[p][f].data)
  PROVE  LET c == bk[p].ctx IN
         [bk[p] EXCEPT !.ctx = Append(c, src[p][f].data[Len(c) + 1])] \in Run
<1> DEFINE c == bk[p].ctx
           b == src[p][f].data[Len(c) + 1]
<1>1. c \in Seq(Byte) /\ src[p][f].data \in Seq(Byte) /\ bk[p] \in Run
  BY Parts DEF TypeInv, Bytes
<1>2. Len(c) + 1 \in 1 .. Len(src[p][f].data)
  BY <1>1, LenProperties
<1>3. b \in Byte
  BY <1>1, <1>2, ElementOfSeq
<1>4. Append(c, b) \in Bytes
  BY <1>1, <1>3, AppendProperties, SMTT(60) DEF Bytes
<1>. QED BY <1>1, <1>4 DEF Run

\* A block read while hashing changes nothing but the run.
LEMMA HashReadType ==
  ASSUME TypeInv, NEW p \in Host, HashRead(p), UNCHANGED <<cl, vf>>
  PROVE  TypeInv'
<1> DEFINE c == bk[p].ctx
           f == Current(p)
           r == [bk[p] EXCEPT !.ctx = Append(c, src[p][f].data[Len(c) + 1])]
<1>1. /\ bk[p] \in Run /\ RunShape(bk[p]) /\ bk[p].pc = "scan"
      /\ bk[p].todo # <<>> /\ f = Head(bk[p].todo)
  BY Parts DEF TypeInv, Shape, ShapeOf, HashRead, Scanning, Current
<1>2. f \in File
  BY <1>1, TailShape
<1>3. r \in Run /\ Becomes(p, r)
  BY <1>2, ReadBlockType DEF HashRead, ReadBlock
<1>4. /\ r.pc = "scan" /\ r.todo = bk[p].todo /\ r.stat = bk[p].stat
      /\ r.date = bk[p].date
  BY <1>1 DEF Run
<1>5. RunShape(r)
  BY <1>1, <1>4 DEF RunShape
<1>. QED BY <1>1, <1>3, <1>4, <1>5, LocalStepType DEF HashRead, BackingUp

\* A run that ends.
LEMMA ExitType ==
  ASSUME TypeInv, NEW p \in Host, ExitBackup(p),
         UNCHANGED <<files, idx, objs, tmps>>, events' \in Nat,
         UNCHANGED <<cl, vf>>
  PROVE  TypeInv'
<1>1. wfd' \in [Host -> {None} \cup WriteFd]
  BY Parts DEF TypeInv, ExitBackup
<1>2. MediumTypeOK' /\ DOMAIN idx' = DOMAIN idx
  BY <1>1 DEF TypeInv, TypeOK, MediumTypeOK, files
<1>3. RunShape(BackupIdle) /\ BackupIdle.pc = "idle"
  BY DEF RunShape, BackupIdle
<1>. QED BY <1>2, <1>3, BackupIdleType, StepType DEF ExitBackup

\* The three calls of fatal, or exceptions, within backup_dir.
LEMMA FatalType ==
  ASSUME TypeInv, NEW p \in Host, UNCHANGED <<cl, vf>>,
         SmallShrunk(p) \/ CopyChanged(p) \/ RenameFails(p)
  PROVE  TypeInv'
<1>1. /\ ExitBackup(p)
      /\ UNCHANGED <<files, idx, objs, tmps>> /\ events' \in Nat
  BY DEF SmallShrunk, CopyChanged, RenameFails, TypeInv, TypeOK, MediumTypeOK
<1>. QED BY <1>1, ExitType

\* On to the second pass.
LEMMA ScanDoneType ==
  ASSUME TypeInv, NEW p \in Host, ScanDone(p), UNCHANGED <<cl, vf>>
  PROVE  TypeInv'
<1> DEFINE r == [bk[p] EXCEPT !.pc = "test"]
<1>1. bk[p] \in Run
  BY Parts DEF TypeInv
<1>2. r \in Run /\ r.pc = "test" /\ r.date = bk[p].date
  BY <1>1 DEF Run
<1>3. RunShape(r)
  BY <1>2 DEF RunShape
<1>. QED BY <1>2, <1>3, LocalStepType DEF ScanDone, BackingUp

\* The queue of a run that is at an object.
LEMMA QueueHead ==
  ASSUME TypeInv, NEW p \in Host, bk[p].hashables # <<>>
  PROVE  /\ Wanted(p) \in HashName /\ Source(p) \in File
         /\ Tail(bk[p].hashables) \in Seq(Hashable)
<1>1. bk[p].hashables \in Seq(Hashable)
  BY Parts DEF TypeInv
<1>2. /\ Head(bk[p].hashables) \in Hashable
      /\ Tail(bk[p].hashables) \in Seq(Hashable)
  BY <1>1, HeadTailProperties
<1>. QED BY <1>2 DEF Wanted, Source, Hashable

\* An existence test either ends with an object or takes it up.
LEMMA TestExistsType ==
  ASSUME TypeInv, NEW p \in Host, TestExists(p), UNCHANGED <<cl, vf>>
  PROVE  TypeInv'
<1> DEFINE r1 == [bk[p] EXCEPT !.hashables = Tail(bk[p].hashables)]
           r2 == [bk[p] EXCEPT !.pc = "open"]
<1>1. /\ bk[p] \in Run /\ bk[p].pc = "test" /\ bk[p].hashables # <<>>
      /\ Tail(bk[p].hashables) \in Seq(Hashable)
  BY Parts, QueueHead DEF TypeInv, TestExists
<1>2. r1 \in Run /\ r1.pc = "test" /\ r1.date = bk[p].date
  BY <1>1 DEF Run
<1>3. /\ r2 \in Run /\ r2.pc = "open" /\ r2.date = bk[p].date
      /\ r2.hashables = bk[p].hashables
  BY <1>1 DEF Run
<1>4. RunShape(r1) /\ RunShape(r2)
  BY <1>1, <1>2, <1>3 DEF RunShape
<1>. QED BY <1>1, <1>2, <1>3, <1>4, LocalStepType DEF TestExists, BackingUp

\* A run goes on with the second pass: the files of the repository may change.
LEMMA CopyStepType ==
  ASSUME TypeInv, NEW p \in Host, BackingUp(p),
         NEW r \in Run, Becomes(p, r), r.date = bk[p].date,
         r.pc \in {"open", "copy", "rename"} => r.hashables # <<>>,
         r.pc # "scan", r.pc # "idle",
         IsMap(objs', HashName, Bytes), IsMap(tmps', HashName, Bytes),
         wfd' \in [Host -> {None} \cup WriteFd],
         UNCHANGED <<files, idx, events>>, UNCHANGED <<cl, vf>>
  PROVE  TypeInv'
<1>1. MediumTypeOK' /\ DOMAIN idx' = DOMAIN idx
  BY DEF TypeInv, TypeOK, MediumTypeOK, files
<1>2. RunShape(r)
  BY DEF RunShape
<1>. QED BY <1>1, <1>2, StepType

\* HASH.tmp is created or truncated, and the run has its descriptor.
LEMMA OpenTmpType ==
  ASSUME TypeInv, NEW p \in Host, OpenTmp(p), UNCHANGED <<cl, vf>>
  PROVE  TypeInv'
<1> DEFINE r == [bk[p] EXCEPT !.pc = "copy", !.ctx = <<>>]
<1>1. bk[p] \in Run /\ bk[p].pc = "open" /\ bk[p].hashables # <<>>
  BY Parts DEF TypeInv, Shape, ShapeOf, RunShape, OpenTmp
<1>2. Wanted(p) \in HashName /\ <<>> \in Bytes
  BY <1>1, QueueHead DEF Bytes
<1>3. /\ r \in Run /\ r.pc = "copy" /\ r.date = bk[p].date
      /\ r.hashables = bk[p].hashables
  BY <1>1, <1>2 DEF Run
<1>4. IsMap(tmps', HashName, Bytes)
  BY <1>2, PutType, Parts DEF TypeInv, OpenTmp, OpenTrunc
<1>5. wfd' \in [Host -> {None} \cup WriteFd]
  <2>1. [hash |-> Wanted(p), at |-> "tmp"] \in WriteFd
    BY <1>2 DEF WriteFd
  <2>. QED BY <2>1, Parts DEF TypeInv, OpenTmp, OpenTrunc
<1>6. IsMap(objs', HashName, Bytes)
  BY Parts DEF TypeInv, OpenTmp
<1>. QED
  BY <1>1, <1>3, <1>4, <1>5, <1>6, CopyStepType DEF OpenTmp, BackingUp

\* Writing out the block that is held.
LEMMA WriteHeldType ==
  ASSUME TypeInv, NEW p \in Host, bk[p].ctx # <<>>, WriteHeld(p)
  PROVE  IsMap(objs', HashName, Bytes) /\ IsMap(tmps', HashName, Bytes)
<1> DEFINE c == bk[p].ctx
           h == wfd[p].hash
           off == Len(c) - 1
           b == c[Len(c)]
<1>1. c \in Seq(Byte)
  BY Parts DEF TypeInv, Bytes
<1>2. Len(c) \in Nat \ {0}
  BY <1>1, EmptySeq
<1>3. off \in Nat /\ b \in Byte
  BY <1>1, <1>2, ElementOfSeq
<1>4. \A d \in Bytes : WriteAt(d, off, b) \in Bytes
  BY <1>3, WriteAtType
<1>5. IsMap(objs, HashName, Bytes) /\ IsMap(tmps, HashName, Bytes)
  BY Parts DEF TypeInv
<1>6. /\ h \in DOMAIN tmps => WriteAt(tmps[h], off, b) \in Bytes
      /\ h \in DOMAIN objs => WriteAt(objs[h], off, b) \in Bytes
  BY <1>4, <1>5 DEF IsMap
<1>7. /\ IsMap([tmps EXCEPT ![h] = WriteAt(tmps[h], off, b)], HashName, Bytes)
      /\ IsMap([objs EXCEPT ![h] = WriteAt(objs[h], off, b)], HashName, Bytes)
  BY <1>5, <1>6, ExceptType
<1>. QED BY <1>5, <1>7 DEF WriteHeld, WriteBlock

\* A block is read and the one before it is written.
LEMMA CopyReadType ==
  ASSUME TypeInv, NEW p \in Host, CopyRead(p), UNCHANGED <<cl, vf>>
  PROVE  TypeInv'
<1> DEFINE c == bk[p].ctx
           f == Source(p)
           r == [bk[p] EXCEPT !.ctx = Append(c, src[p][f].data[Len(c) + 1])]
<1>1. bk[p] \in Run /\ bk[p].pc = "copy" /\ bk[p].hashables # <<>>
  BY Parts DEF TypeInv, Shape, ShapeOf, RunShape, CopyRead
<1>2. f \in File
  BY <1>1, QueueHead
<1>3. r \in Run /\ Becomes(p, r)
  BY <1>2, ReadBlockType DEF CopyRead, ReadBlock
<1>4. r.pc = "copy" /\ r.date = bk[p].date /\ r.hashables = bk[p].hashables
  BY <1>1 DEF Run
<1>5. /\ IsMap(objs', HashName, Bytes) /\ IsMap(tmps', HashName, Bytes)
      /\ wfd' \in [Host -> {None} \cup WriteFd]
  BY Parts, WriteHeldType DEF TypeInv, CopyRead
<1>. QED
  BY <1>1, <1>3, <1>4, <1>5, CopyStepType DEF CopyRead, BackingUp

\* The last block is written and the file closed.
LEMMA CopyDoneType ==
  ASSUME TypeInv, NEW p \in Host, CopyDone(p), UNCHANGED <<cl, vf>>
  PROVE  TypeInv'
<1> DEFINE r == [bk[p] EXCEPT !.pc = "rename", !.ctx = <<>>]
<1>1. bk[p] \in Run /\ bk[p].pc = "copy" /\ bk[p].hashables # <<>>
  BY Parts DEF TypeInv, Shape, ShapeOf, RunShape, CopyDone
<1>2. <<>> \in Bytes
  BY DEF Bytes
<1>3. /\ r \in Run /\ r.pc = "rename" /\ r.date = bk[p].date
      /\ r.hashables = bk[p].hashables
  BY <1>1, <1>2 DEF Run
<1>4. /\ IsMap(objs', HashName, Bytes) /\ IsMap(tmps', HashName, Bytes)
      /\ wfd' \in [Host -> {None} \cup WriteFd]
  BY Parts, WriteHeldType DEF TypeInv, CopyDone
<1>. QED
  BY <1>1, <1>3, <1>4, CopyStepType DEF CopyDone, BackingUp

\* The object gets its name and leaves the queue.
LEMMA RenameObjType ==
  ASSUME TypeInv, NEW p \in Host, RenameObj(p), UNCHANGED <<cl, vf>>
  PROVE  TypeInv'
<1> DEFINE r == [bk[p] EXCEPT !.pc = "test", !.hashables = Tail(bk[p].hashables)]
<1>1. bk[p] \in Run /\ bk[p].pc = "rename" /\ bk[p].hashables # <<>>
  BY Parts DEF TypeInv, Shape, ShapeOf, RunShape, RenameObj
<1>2. Wanted(p) \in HashName /\ Tail(bk[p].hashables) \in Seq(Hashable)
  BY <1>1, QueueHead
<1>3. r \in Run /\ r.pc = "test" /\ r.date = bk[p].date
  BY <1>1, <1>2 DEF Run
<1>. QED
  BY <1>1, <1>2, <1>3, RenameTmpType, CopyStepType
     DEF RenameObj, BackingUp, TypeInv, TypeOK

\* On to the next directory, if there is one.
LEMMA DirDoneType ==
  ASSUME TypeInv, NEW p \in Host, DirDone(p), UNCHANGED <<cl, vf>>
  PROVE  TypeInv'
<1> DEFINE next == bk[p].dir + 1
           pc == IF next \in DOMAIN Tree THEN "dir" ELSE "end"
           r == [bk[p] EXCEPT !.dir = next, !.pc = pc]
<1>1. bk[p] \in Run /\ next \in Nat
  BY Parts DEF TypeInv
<1>2. r \in Run /\ r.pc \in {"dir", "end"} /\ r.date = bk[p].date
  BY <1>1 DEF Run
<1>3. RunShape(r)
  BY <1>2 DEF RunShape
<1>. QED BY <1>2, <1>3, LocalStepType DEF DirDone, BackingUp

\* The index gets its [end].
LEMMA FinishType ==
  ASSUME TypeInv, NEW p \in Host, Finish(p), UNCHANGED <<cl, vf>>
  PROVE  TypeInv'
<1> DEFINE pc == IF UseHints THEN "hints" ELSE "publish"
           r == [bk[p] EXCEPT !.pc = pc]
<1>1. bk[p] \in Run
  BY Parts DEF TypeInv
<1>2. r \in Run /\ r.pc \in {"hints", "publish"} /\ r.date = bk[p].date
  BY <1>1 DEF Run
<1>3. RunShape(r)
  BY <1>2 DEF RunShape
<1>4. MediumTypeOK' /\ DOMAIN idx' = DOMAIN idx
  <2> DEFINE v == [idx[Draft(p)] EXCEPT !.end = TRUE]
  <2>1. IsMap(idx, IndexName, IndexFile)
    BY Parts DEF TypeInv
  <2>2. Draft(p) \in DOMAIN idx => v \in IndexFile
    BY <2>1 DEF IsMap, IndexFile
  <2>3. idx' = [idx EXCEPT ![Draft(p)] = v]
    BY DEF Finish
  <2>4. IsMap(idx', IndexName, IndexFile) /\ DOMAIN idx' = DOMAIN idx
    BY <2>1, <2>2, <2>3, ExceptType
  <2>. QED BY <2>4 DEF TypeInv, TypeOK, MediumTypeOK, Finish, files
<1>. QED BY <1>2, <1>3, <1>4, StepType DEF Finish, BackingUp

\* The new hints take the place of the old ones.
LEMMA SaveHintsType ==
  ASSUME TypeInv, NEW p \in Host, SaveHints(p), UNCHANGED <<cl, vf>>
  PROVE  TypeInv'
<1> DEFINE r == [bk[p] EXCEPT !.pc = "publish"]
<1>1. bk[p] \in Run
  BY Parts DEF TypeInv
<1>2. r \in Run /\ r.pc = "publish" /\ r.date = bk[p].date
  BY <1>1 DEF Run
<1>3. RunShape(r)
  BY <1>2 DEF RunShape
<1>4. bk[p].newhints \in Hints
  BY <1>1 DEF Run
<1>5. MediumTypeOK' /\ idx' = idx
  BY <1>4 DEF TypeInv, TypeOK, MediumTypeOK, SaveHints, medium
<1>. QED BY <1>2, <1>3, <1>5, StepType DEF SaveHints, BackingUp

\* INDEX.tmp is renamed: no other run has that draft.
LEMMA PublishType ==
  ASSUME TypeInv, NEW p \in Host, Publish(p), UNCHANGED <<cl, vf>>
  PROVE  TypeInv'
<1> DEFINE d == bk[p].date
<1>1. d \in Date /\ (~ OverwriteIndex => Tmp(p, d) \in DOMAIN idx)
  BY DEF TypeInv, Shape, ShapeOf, Publish, BackingUp, Draft, Outfile
<1>2. IsMap(idx, IndexName, IndexFile)
  BY Parts DEF TypeInv
<1>3. IsMap(idx', IndexName, IndexFile)
  <2>1. Final(p, d) \in IndexName
    BY <1>1 DEF Final, IndexName
  <2>2. ~ OverwriteIndex => idx[Tmp(p, d)] \in IndexFile
    BY <1>1, <1>2 DEF IsMap
  <2>. QED BY <1>2, <2>1, <2>2, PutType, DropType DEF Publish
<1>4. MediumTypeOK'
  BY <1>3 DEF TypeInv, TypeOK, MediumTypeOK, Publish, files
<1>5. BackupTypeOK' /\ bk'[p] = BackupIdle /\ Becomes(p, BackupIdle)
  BY BackupIdleType, BecomesType DEF TypeInv, Publish
<1>6. ShapeOf(p)'
  BY <1>5 DEF ShapeOf, RunShape, BackingUp, BackupIdle
<1>7. ASSUME NEW q \in Host \ {p}, Draft(q) \in DOMAIN idx, ~ OverwriteIndex
      PROVE  Draft(q) \in DOMAIN idx'
  <2>1. Draft(q) # Tmp(p, d)
    BY <1>7 DEF Draft, Outfile, Tmp
  <2>. QED BY <1>7, <2>1 DEF Publish, Put, Drop
<1>8. Shape'
  BY <1>5, <1>6, <1>7, OthersShape
<1>. QED BY <1>4, <1>5, <1>8 DEF TypeInv, TypeOK, CleanupTypeOK, VerifyTypeOK

\* Every step of a run.
LEMMA BackupStepType ==
  ASSUME TypeInv, NEW p \in Host, BackupStep(p), UNCHANGED <<cl, vf>>
  PROVE  TypeInv'
BY EnterDirType, StoreSmallType, FatalType, UseHintType, HashReadType,
   HashDoneType, ScanDoneType, TestExistsType, OpenTmpType, CopyReadType,
   CopyDoneType, RenameObjType, DirDoneType, FinishType, SaveHintsType,
   PublishType
   DEF BackupStep

----------------------------------------------------------------------------
\* Without a step of a backup the indexes may only lose published ones, and
\* a draft that is not rewritten in place is not published.
LEMMA QuietShape ==
  ASSUME TypeInv, bk' = bk,
         \A n \in DOMAIN idx : n[3] = "tmp" => n \in DOMAIN idx'
  PROVE  BackupTypeOK' /\ Shape'
<1>1. ASSUME NEW p \in Host PROVE ShapeOf(p)'
  <2>1. ShapeOf(p)
    BY DEF TypeInv, Shape
  <2>2. ~ OverwriteIndex => Draft(p)[3] = "tmp"
    BY DEF Draft, Outfile, Tmp
  <2>. QED BY <2>1, <2>2 DEF ShapeOf, BackingUp, Draft
<1>. QED BY <1>1 DEF Shape, TypeInv, TypeOK, BackupTypeOK

\* Every step of a cleanup.
LEMMA CleanupType ==
  ASSUME TypeInv, CleanupNext \/ CrashCleanup
  PROVE  TypeInv'
<1>1. IsMap(idx, IndexName, IndexFile) /\ CleanupTypeOK /\ CleanupIdle \in Sweep
  BY DEF TypeInv, TypeOK, MediumTypeOK, CleanupIdle, Sweep
<1>2. IsMap(objs, HashName, Bytes) /\ IsMap(tmps, HashName, Bytes)
  BY DEF TypeInv, TypeOK, MediumTypeOK
<1>3. bk' = bk /\ vf' = vf /\ idx' = idx /\ UNCHANGED files
  BY DEF CleanupNext, CrashCleanup, StartCleanup, CleanupStep, MarkIndex,
         MarkFails, MarkDone, ListRepo, SweepFile, SweepFails, CheckFile,
         CheckUnreadable, Verdict, RemoveFile, RemoveFails, RemoveGone,
         SweepDone, medium
<1>4. CleanupTypeOK'
  <2>1. CASE StartCleanup
    BY <1>1, <2>1 DEF StartCleanup, CleanupIdle, Sweep, IsMap, CleanupTypeOK
  <2>2. ASSUME NEW n, MarkIndex(n) PROVE CleanupTypeOK'
    <3>1. HashesOf(idx[n]) \in SUBSET HashName /\ idx[n].end \in BOOLEAN
      BY <1>1, <2>2, HashesOfType DEF MarkIndex, IsMap, IndexFile
    <3>2. cl.argv \ {n} \in SUBSET IndexName /\ NeededWith(n) \in SUBSET HashName
          /\ (cl.bad \/ ~ idx[n].end) \in BOOLEAN
      BY <1>1, <3>1 DEF Sweep, NeededWith, CleanupTypeOK
    <3>. QED BY <1>1, <2>2, <3>2 DEF MarkIndex, Sweep, CleanupTypeOK
  <2>3. CASE cl' = CleanupIdle
    BY <1>1, <2>3 DEF CleanupTypeOK, CleanupIdle
  <2>4. CASE MarkDone
    BY <1>1, <2>3, <2>4 DEF MarkDone, ExitCleanup, Sweep, CleanupTypeOK
  <2>5. CASE ListRepo
    BY <1>1, <1>2, <2>5 DEF ListRepo, Sweep, RepoFile, IsMap, CleanupTypeOK
  <2>6. ASSUME NEW x \in cl.names, SweepFile(x) PROVE CleanupTypeOK'
    <3>1. x \in RepoFile /\ x # None
      BY <1>1, NoFileAssumption DEF CleanupTypeOK, Sweep
    <3>. QED BY <1>1, <2>6, <3>1 DEF SweepFile, Sweep, CleanupTypeOK
  <2>7. /\ Passed \in Sweep /\ Passed.pc = "sweep"
        /\ Passed.failed = cl.failed
    BY <1>1 DEF Passed, Sweep, CleanupTypeOK
  <2>8. CASE CheckFile \/ CheckUnreadable
    <3>1. \/ cl' = Passed
          \/ cl' = [cl EXCEPT !.pc = "remove"] /\ cl.pc = "check"
      BY <2>8 DEF CheckFile, CheckUnreadable, Verdict
    <3>. QED BY <1>1, <2>7, <3>1 DEF Sweep, CleanupTypeOK
  <2>9. CASE RemoveFile \/ RemoveGone
    BY <2>7, <2>9 DEF RemoveFile, RemoveGone, CleanupTypeOK
  <2>10. CASE RemoveFails
    <3>1. cl.file \in RepoFile /\ cl.failed \in SUBSET RepoFile
      BY <1>1, <2>10 DEF RemoveFails, Sweep, CleanupTypeOK
    <3>. QED BY <2>7, <2>10, <3>1 DEF RemoveFails, Sweep, CleanupTypeOK
  <2>. QED
    BY <2>1, <2>2, <2>3, <2>4, <2>5, <2>6, <2>8, <2>9, <2>10
       DEF CleanupNext, CrashCleanup, CleanupStep, MarkFails, SweepFails,
           SweepDone, ExitCleanup
<1>5. /\ IsMap(objs', HashName, Bytes) /\ IsMap(tmps', HashName, Bytes)
      /\ wfd' \in [Host -> {None} \cup WriteFd]
  <2>1. CASE UNCHANGED medium
    BY <2>1, <1>2, Parts DEF TypeInv, TypeOK, MediumTypeOK, medium
  <2>2. CASE RemoveFile
    BY <2>2, <1>2, RemoveObjType, RemoveTmpType DEF RemoveFile, TypeInv, TypeOK
  <2>. QED
    BY <2>1, <2>2 DEF CleanupNext, CrashCleanup, StartCleanup, CleanupStep,
         MarkIndex, MarkFails, MarkDone, ListRepo, SweepFile, SweepFails,
         CheckFile, CheckUnreadable, Verdict, RemoveFails, RemoveGone, SweepDone
<1>6. events' \in Nat
  <2>1. events' = events \/ Event
    BY DEF CleanupNext, CrashCleanup, StartCleanup, CleanupStep, MarkIndex,
           MarkFails, MarkDone, ListRepo, SweepFile, SweepFails, CheckFile,
           CheckUnreadable, RemoveFile, RemoveFails, RemoveGone, SweepDone
  <2>. QED BY <2>1 DEF Event, TypeInv, TypeOK, MediumTypeOK
<1>7. BackupTypeOK' /\ Shape'
  BY <1>3, QuietShape
<1>. QED
  BY <1>3, <1>4, <1>5, <1>6, <1>7
     DEF TypeInv, TypeOK, MediumTypeOK, VerifyTypeOK, files

\* Every step of a verification.
LEMMA VerifyType ==
  ASSUME TypeInv, VerifyNext \/ CrashVerify
  PROVE  TypeInv'
<1>1. IsMap(idx, IndexName, IndexFile) /\ VerifyTypeOK /\ VerifyIdle \in Check
  BY DEF TypeInv, TypeOK, MediumTypeOK, VerifyIdle, Check
<1>2. bk' = bk /\ cl' = cl /\ idx' = idx /\ UNCHANGED files
  BY DEF VerifyNext, CrashVerify, StartVerify, VerifyStep, VerifyGood,
         VerifyMismatch, RemoveWrong, VerifyMissing, VerifyDone, medium
<1>3. VerifyTypeOK'
  <2>1. ASSUME NEW n \in DOMAIN idx, StartVerify(n) PROVE VerifyTypeOK'
    <3>1. idx[n] \in IndexFile /\ HashesOf(idx[n]) \in SUBSET HashName
      BY <1>1, <2>1, HashesOfType DEF IsMap
    <3>. QED BY <2>1, <3>1 DEF StartVerify, Check, VerifyTypeOK
  <2>2. ASSUME NEW h, VerifyGood(h) \/ VerifyMissing(h)
        PROVE  VerifyTypeOK'
    <3>1. PICK ok \in BOOLEAN : Visited(h, ok)
      BY <2>2 DEF VerifyGood, VerifyMissing
    <3>2. vf \in Check /\ vf.pc = "verify"
      BY <1>1, <2>2 DEF VerifyGood, VerifyMissing, VerifyTypeOK
    <3>3. (vf.ok /\ ok) \in BOOLEAN /\ vf.left \ {h} \in SUBSET HashName
      BY <3>2 DEF Check
    <3>. QED BY <3>1, <3>2, <3>3 DEF Visited, Check, VerifyTypeOK
  <2>3. ASSUME NEW h \in vf.left, VerifyMismatch(h) PROVE VerifyTypeOK'
    <3>1. vf \in Check /\ h \in HashName /\ h # None
      BY <1>1, NoneAssumption DEF Check, VerifyTypeOK
    <3>2. CASE DetectBogus
      BY <2>3, <3>1, <3>2 DEF VerifyMismatch, Check, VerifyTypeOK
    <3>3. CASE ~ DetectBogus
      BY <2>3, <3>1, <3>3 DEF VerifyMismatch, Check, VerifyTypeOK
    <3>. QED BY <3>2, <3>3
  <2>4. CASE RemoveWrong
    BY <1>1, <2>4 DEF RemoveWrong, Check, VerifyTypeOK
  <2>5. CASE vf' = VerifyIdle
    BY <1>1, <2>5 DEF VerifyTypeOK, VerifyIdle
  <2>. QED
    BY <2>1, <2>2, <2>3, <2>4, <2>5
       DEF VerifyNext, CrashVerify, VerifyStep, VerifyDone
<1>4. /\ IsMap(objs', HashName, Bytes) /\ tmps' = tmps
      /\ wfd' \in [Host -> {None} \cup WriteFd]
  <2>1. CASE UNCHANGED medium
    BY <2>1 DEF TypeInv, TypeOK, MediumTypeOK, medium
  <2>2. CASE RemoveWrong
    BY <2>1, <2>2, RemoveObjType DEF RemoveWrong, TypeInv, TypeOK
  <2>. QED
    BY <2>1, <2>2 DEF VerifyNext, CrashVerify, StartVerify, VerifyStep,
         VerifyGood, VerifyMismatch, VerifyMissing, VerifyDone
<1>5. events' \in Nat
  <2>1. events' = events \/ Event
    BY DEF VerifyNext, CrashVerify, StartVerify, VerifyStep, VerifyGood,
           VerifyMismatch, RemoveWrong, VerifyMissing, VerifyDone
  <2>. QED BY <2>1 DEF Event, TypeInv, TypeOK, MediumTypeOK
<1>6. BackupTypeOK' /\ Shape'
  BY <1>2, QuietShape
<1>. QED
  BY <1>2, <1>3, <1>4, <1>5, <1>6
     DEF TypeInv, TypeOK, MediumTypeOK, CleanupTypeOK, files

\* Edits, time, and the deletion of an index.
LEMMA EnvironmentType ==
  ASSUME TypeInv, Environment
  PROVE  TypeInv'
<1>1. CASE \E p \in Host, f \in File : Edit(p, f)
  <2>1. PICK p \in Host, f \in File : Edit(p, f)
    BY <1>1
  <2>2. PICK d \in Content :
          src' = [src EXCEPT ![p][f] = [data |-> d, stamp |-> clock,
                                        again |-> src[p][f].stamp = clock]]
    BY <2>1 DEF Edit
  <2>3. [data |-> d, stamp |-> clock, again |-> src[p][f].stamp = clock]
           \in SourceFile
    BY NamesAssumption DEF TypeInv, TypeOK, MediumTypeOK, SourceFile, Bytes
  <2>4. src' \in [Host -> [File -> SourceFile]]
    BY <2>2, <2>3 DEF TypeInv, TypeOK, MediumTypeOK
  <2>5. MediumTypeOK' /\ idx' = idx
    BY <2>1, <2>4 DEF TypeInv, TypeOK, MediumTypeOK, Edit, Event
  <2>. QED
    BY <2>5, QuietShape
       DEF Environment, TypeInv, TypeOK, CleanupTypeOK, VerifyTypeOK
<1>2. CASE Tick
  <2>1. MediumTypeOK' /\ idx' = idx
    BY <1>2 DEF TypeInv, TypeOK, MediumTypeOK, Tick
  <2>. QED
    BY <2>1, QuietShape
       DEF Environment, TypeInv, TypeOK, CleanupTypeOK, VerifyTypeOK
<1>3. CASE \E n \in Published : DeleteIndex(n)
  <2>1. PICK n \in Published : DeleteIndex(n)
    BY <1>3
  <2>2. \A m \in DOMAIN idx : m[3] = "tmp" => m \in DOMAIN idx'
    BY <2>1 DEF DeleteIndex, Published, Drop
  <2>3. IsMap(idx', IndexName, IndexFile)
    BY <2>1, DropType DEF DeleteIndex, TypeInv, TypeOK, MediumTypeOK
  <2>4. MediumTypeOK'
    BY <2>1, <2>3 DEF TypeInv, TypeOK, MediumTypeOK, DeleteIndex, Event
  <2>. QED
    BY <2>2, <2>4, QuietShape
       DEF Environment, TypeInv, TypeOK, CleanupTypeOK, VerifyTypeOK
<1>. QED BY <1>1, <1>2, <1>3 DEF Environment

\* A run that is killed.
LEMMA CrashBackupType ==
  ASSUME TypeInv, NEW p \in Host, CrashBackup(p)
  PROVE  TypeInv'
<1>1. events' \in Nat
  BY DEF CrashBackup, Event, TypeInv, TypeOK, MediumTypeOK
<1>. QED BY <1>1, ExitType DEF CrashBackup

----------------------------------------------------------------------------
\* The types hold at first.
LEMMA InitType == Init => TypeInv
<1> SUFFICES ASSUME Init PROVE TypeInv
  OBVIOUS
<1>1. MediumTypeOK
  BY MediumInitType DEF Init
<1>2. BackupTypeOK
  BY BackupIdleType DEF Init, BackupInit, BackupTypeOK
<1>3. CleanupTypeOK /\ VerifyTypeOK
  BY DEF Init, CleanupInit, VerifyInit, CleanupTypeOK, VerifyTypeOK,
         CleanupIdle, VerifyIdle, Sweep, Check
<1>4. Shape
  BY DEF Init, BackupInit, Shape, ShapeOf, RunShape, BackingUp, BackupIdle
<1>. QED BY <1>1, <1>2, <1>3, <1>4 DEF TypeInv, TypeOK

\* Every step keeps them.
LEMMA NextType == TypeInv /\ [Next]_vars => TypeInv'
<1> SUFFICES ASSUME TypeInv, [Next]_vars PROVE TypeInv'
  OBVIOUS
<1>1. ASSUME NEW p \in Host, BackupNext(p) PROVE TypeInv'
  BY <1>1, StartBackupType, BackupStepType DEF BackupNext
<1>2. ASSUME NEW p \in Host, CrashBackup(p) PROVE TypeInv'
  BY <1>2, CrashBackupType
<1>3. CASE CleanupNext \/ CrashCleanup
  BY <1>3, CleanupType
<1>4. CASE VerifyNext \/ CrashVerify
  BY <1>4, VerifyType
<1>5. CASE Environment
  BY <1>5, EnvironmentType
<1>6. CASE UNCHANGED vars
  <2>1. idx' = idx /\ bk' = bk
    BY <1>6 DEF vars, mvars
  <2>2. BackupTypeOK' /\ Shape'
    BY <2>1, QuietShape
  <2>. QED
    BY <1>6, <2>2 DEF vars, mvars, TypeInv, TypeOK, MediumTypeOK,
                      CleanupTypeOK, VerifyTypeOK
<1>. QED BY <1>1, <1>2, <1>3, <1>4, <1>5, <1>6 DEF Next

\* Every variable keeps its type, whatever the machines, files, contents and
\* options are and whichever runs of nhbackup overlap: so no step applies an
\* operator outside its domain, reads the head of an empty queue of objects
\* (backup.cc:309) or makes a hint of a file without stat data (250-257).
THEOREM TypeCorrect == Spec => [](TypeOK /\ Shape)
<1>1. Spec => []TypeInv
  BY InitType, NextType, PTL DEF Spec
<1>. QED BY <1>1, PTL DEF TypeInv

----------------------------------------------------------------------------
OneBackup == {"backup"} \notin Overlap

----------------------------------------------------------------------------
(***************************************************************************)
(* The strengthening.  At most one backup goes on.  While it copies, its   *)
(* descriptor is on the .tmp of the object it wants, and that file has all *)
(* that was read but for the block still held in the buffer; or a cleanup  *)
(* took the file's name away, and then there is no such .tmp.  Before the  *)
(* rename a .tmp that is there has the hash the name says.                 *)
(***************************************************************************)
Flushed(c) == [i \in 1 .. Len(c) - 1 |-> c[i]]

OneRun == \A p, q \in Host : BackingUp(p) /\ BackingUp(q) => p = q

Copying(p) ==
    /\ wfd[p].hash = Wanted(p)
    /\ \/ /\ wfd[p].at = "tmp"
          /\ Wanted(p) \in DOMAIN tmps
          /\ tmps[Wanted(p)] = Flushed(bk[p].ctx)
       \/ /\ wfd[p].at = "gone"
          /\ Wanted(p) \notin DOMAIN tmps

WriterOf(p) ==
    /\ IF bk[p].pc = "copy" THEN wfd[p] # None /\ Copying(p) ELSE wfd[p] = None
    /\ bk[p].pc = "rename" /\ Wanted(p) \in DOMAIN tmps
          => Hash(tmps[Wanted(p)]) = Wanted(p)

Writers == \A p \in Host : WriterOf(p)

IntactInv == TypeInv /\ OneRun /\ Writers /\ ObjectsIntact


----------------------------------------------------------------------------
(***************************************************************************)
(* Writing the block that is held.                                         *)
(***************************************************************************)
\* What the file has and the block that is held make up what was read.
LEMMA FlushedAll ==
  ASSUME NEW c \in Bytes, c # <<>>
  PROVE  WriteAt(Flushed(c), Len(c) - 1, c[Len(c)]) = c
<1> DEFINE n == Len(c)
           d == Flushed(c)
           e == WriteAt(d, n - 1, c[n])
<1>1. c \in [1 .. n -> Byte] /\ n \in Nat \ {0}
  BY LenProperties, EmptySeq DEF Bytes
<1>2. d \in [1 .. n - 1 -> Byte] /\ n - 1 \in Nat
  BY <1>1 DEF Flushed
<1>3. Len(d) = n - 1
  <2> HIDE DEF n, d
  <2>. QED BY <1>2
<1>4. e = [i \in 1 .. n |-> IF i = n THEN c[n] ELSE IF i <= n - 1 THEN d[i] ELSE Zero]
  <2> HIDE DEF n, d
  <2>. QED BY <1>1, <1>3 DEF WriteAt
<1>5. ASSUME NEW i \in 1 .. n PROVE e[i] = c[i]
  <2>1. i # n => i \in 1 .. n - 1
    <3> HIDE DEF n
    <3>. QED BY <1>1, <1>5
  <2>2. i \in 1 .. n - 1 => d[i] = c[i]
    BY DEF Flushed
  <2> HIDE DEF n, d, e
  <2>. QED BY <1>1, <1>4, <1>5, <2>1, <2>2
<1>6. DOMAIN e = 1 .. n /\ e = [i \in 1 .. n |-> e[i]]
  <2> HIDE DEF e
  <2>. QED BY <1>4
<1> HIDE DEF e
<1>7. e = c
  BY <1>1, <1>5, <1>6
<1>. QED BY <1>7 DEF e

\* A block that was just read is the one that is held from now on.
LEMMA FlushedAppend ==
  ASSUME NEW c \in Bytes, NEW b \in Byte
  PROVE  Flushed(Append(c, b)) = c /\ Append(c, b) # <<>>
<1>1. c \in [1 .. Len(c) -> Byte] /\ Len(c) \in Nat
  BY LenProperties DEF Bytes
<1>2. /\ Len(Append(c, b)) = Len(c) + 1
      /\ \A i \in 1 .. Len(c) : Append(c, b)[i] = c[i]
  BY AppendProperties DEF Bytes
<1>. QED BY <1>1, <1>2 DEF Flushed

\* Of nothing, nothing is held and nothing was written.
LEMMA FlushedEmpty == Flushed(<<>>) = <<>>
BY DEF Flushed

----------------------------------------------------------------------------
(***************************************************************************)
(* Steps of a backup.                                                      *)
(***************************************************************************)
\* The other runs are idle, and stay so, while the run of p takes a step.
LEMMA OthersWriters ==
  ASSUME IntactInv, NEW p \in Host, NEW r, Becomes(p, r),
         \A q \in Host \ {p} : ~ BackingUp(q) /\ wfd'[q] = None,
         WriterOf(p)'
  PROVE  OneRun' /\ Writers'
<1>1. bk \in [Host -> Run]
  BY DEF IntactInv, TypeInv, TypeOK, BackupTypeOK
<1>2. ASSUME NEW q \in Host \ {p} PROVE bk'[q].pc = "idle"
  BY <1>1, <1>2 DEF Becomes, BackingUp
<1>3. OneRun'
  BY <1>2 DEF OneRun, BackingUp
<1>4. ASSUME NEW q \in Host \ {p} PROVE WriterOf(q)'
  BY <1>2, <1>4 DEF WriterOf
<1>. QED BY <1>3, <1>4 DEF Writers

\* What the invariant says of the runs other than that of p.
LEMMA OthersIdle ==
  ASSUME IntactInv, NEW p \in Host, BackingUp(p), NEW q \in Host \ {p}
  PROVE  ~ BackingUp(q) /\ wfd[q] = None
<1>1. ~ BackingUp(q)
  BY DEF IntactInv, OneRun
<1>2. WriterOf(q)
  BY DEF IntactInv, Writers
<1>. QED BY <1>1, <1>2 DEF WriterOf, BackingUp

\* A step that leaves the repository alone and neither starts nor ends a copy.
LEMMA QuietIntact ==
  ASSUME IntactInv, NEW p \in Host, NEW r, Becomes(p, r),
         UNCHANGED <<objs, tmps, wfd>>,
         bk[p].pc # "copy", r.pc \notin {"copy", "rename"},
         \A q \in Host \ {p} : ~ BackingUp(q)
  PROVE  OneRun' /\ Writers' /\ ObjectsIntact'
<1>1. bk'[p] = r
  BY DEF Becomes, IntactInv, TypeInv, TypeOK, BackupTypeOK
<1>2. ASSUME NEW q \in Host, ~ BackingUp(q) PROVE wfd[q] = None
  BY <1>2 DEF IntactInv, Writers, WriterOf, BackingUp
<1>3. wfd[p] = None
  BY DEF IntactInv, Writers, WriterOf
<1>4. WriterOf(p)'
  BY <1>1, <1>3 DEF WriterOf
<1>5. \A q \in Host \ {p} : ~ BackingUp(q) /\ wfd'[q] = None
  BY <1>2
<1>6. ObjectsIntact'
  BY DEF IntactInv, ObjectsIntact, Intact
<1>. QED BY <1>4, <1>5, <1>6, OthersWriters

\* A run that ends: what it wrote stays behind under the name of a .tmp.
LEMMA ExitIntact ==
  ASSUME IntactInv, NEW p \in Host, BackingUp(p), ExitBackup(p),
         UNCHANGED <<objs, tmps>>
  PROVE  OneRun' /\ Writers' /\ ObjectsIntact'
<1>1. bk'[p] = BackupIdle /\ wfd'[p] = None
  BY DEF ExitBackup, Becomes, IntactInv, TypeInv, TypeOK, BackupTypeOK,
         MediumTypeOK
<1>2. WriterOf(p)'
  BY <1>1 DEF WriterOf, BackupIdle
<1>3. \A q \in Host \ {p} : ~ BackingUp(q) /\ wfd'[q] = None
  BY OthersIdle DEF ExitBackup, IntactInv, TypeInv, TypeOK, MediumTypeOK
<1>4. ObjectsIntact'
  BY DEF IntactInv, ObjectsIntact, Intact
<1>. QED BY <1>2, <1>3, <1>4, OthersWriters DEF ExitBackup

\* A run that goes on without an object in hand, or is about to store one that
\* is not there.
QuietNext(p, r) ==
    /\ r.pc \notin {"copy", "rename"}
    /\ r.pc = "open" => /\ r.hashables = bk[p].hashables
                        /\ Wanted(p) \notin DOMAIN objs

\* The steps that do not touch the repository.
LEMMA QuietSteps ==
  ASSUME TypeInv, NEW p \in Host,
         \/ EnterDir(p) \/ StoreSmall(p) \/ UseHint(p) \/ HashRead(p)
         \/ HashDone(p) \/ ScanDone(p) \/ TestExists(p) \/ DirDone(p)
         \/ Finish(p) \/ SaveHints(p) \/ Publish(p)
  PROVE  /\ BackingUp(p) /\ bk[p].pc # "copy"
         /\ UNCHANGED <<objs, tmps, wfd>>
         /\ \E r : Becomes(p, r) /\ QuietNext(p, r)
<1>1. BackingUp(p) /\ bk[p].pc # "copy" /\ bk[p] \in Run
  BY Parts DEF TypeInv, BackingUp, EnterDir, StoreSmall, UseHint,
     HashRead, HashDone, ScanDone, TestExists, DirDone, Finish, SaveHints,
     Publish, Scanning
<1>2. UNCHANGED <<objs, tmps, wfd>>
  BY DEF EnterDir, StoreSmall, UseHint, HashRead, HashDone, ScanDone,
     TestExists, DirDone, Finish, SaveHints, Publish, Record, medium
<1>3. CASE TestExists(p)
  <2> DEFINE r1 == [bk[p] EXCEPT !.hashables = Tail(bk[p].hashables)]
             r2 == [bk[p] EXCEPT !.pc = "open"]
  <2>1. r1.pc = "test" /\ r2.pc = "open" /\ r2.hashables = bk[p].hashables
    BY <1>1, <1>3 DEF Run, TestExists
  <2>2. QuietNext(p, r1)
    BY <2>1 DEF QuietNext
  <2>3. Wanted(p) \notin DOMAIN objs => QuietNext(p, r2)
    BY <2>1 DEF QuietNext
  <2>4. Becomes(p, r1) \/ (Becomes(p, r2) /\ Wanted(p) \notin DOMAIN objs)
    BY <1>3 DEF TestExists, Stored
  <2> HIDE DEF r1, r2
  <2>. QED BY <1>1, <1>2, <2>2, <2>3, <2>4
<1>4. CASE ~ TestExists(p)
  <2>1. \E r : Becomes(p, r) /\ r.pc \notin {"copy", "rename", "open"}
    <3>1. CASE EnterDir(p)
      <4> DEFINE r == [bk[p] EXCEPT !.pc = "scan", !.todo = Tree[bk[p].dir],
                                    !.stat = Statted(p, FilesIn(bk[p].dir))]
      <4>1. Becomes(p, r) /\ r.pc = "scan"
        BY <1>1, <3>1 DEF EnterDir, Run
      <4>. QED BY <4>1
    <3>2. CASE StoreSmall(p)
      BY <1>1, <3>2 DEF StoreSmall, Scanning, Run
    <3>3. ASSUME NEW h, Scanning(p), Record(p, h)
          PROVE  \E r : Becomes(p, r) /\ r.pc \notin {"copy", "rename", "open"}
      <4>1. PICK r : /\ Becomes(p, r)
                     /\ \E t, nh, hs, ir :
                           r = [bk[p] EXCEPT !.todo = t, !.ctx = <<>>,
                                  !.newhints = nh, !.hashables = hs, !.inrepo = ir]
        BY <3>3, ZenonT(60) DEF Record
      <4>2. r.pc = "scan"
        BY <1>1, <3>3, <4>1 DEF Scanning, Run
      <4>. QED BY <4>1, <4>2
    <3>4. CASE HashRead(p)
      BY <1>1, <3>4 DEF HashRead, ReadBlock, Scanning, Run
    <3>5. CASE ScanDone(p)
      BY <1>1, <3>5 DEF ScanDone, Run
    <3>6. CASE DirDone(p)
      <4> DEFINE next == bk[p].dir + 1
                 pc == IF next \in DOMAIN Tree THEN "dir" ELSE "end"
                 r == [bk[p] EXCEPT !.dir = next, !.pc = pc]
      <4>1. Becomes(p, r)
        BY <3>6 DEF DirDone
      <4>2. r.pc \in {"dir", "end"}
        BY <1>1 DEF Run
      <4>. QED BY <4>1, <4>2
    <3>7. CASE Finish(p)
      BY <1>1, <3>7 DEF Finish, Run
    <3>8. CASE SaveHints(p)
      BY <1>1, <3>8, SMTT(60) DEF SaveHints, Run
    <3>9. CASE Publish(p)
      BY <3>9 DEF Publish, BackupIdle
    <3>. QED
      BY <1>4, <3>1, <3>2, <3>3, <3>4, <3>5, <3>6, <3>7, <3>8, <3>9
         DEF UseHint, HashDone
  <2>2. \A r : r.pc \notin {"copy", "rename", "open"} => QuietNext(p, r)
    BY DEF QuietNext
  <2>. QED BY <1>1, <1>2, <2>1, <2>2
<1>. QED BY <1>3, <1>4

\* None of them harms the repository.
LEMMA ScanIntact ==
  ASSUME IntactInv, NEW p \in Host,
         \/ EnterDir(p) \/ StoreSmall(p) \/ UseHint(p) \/ HashRead(p)
         \/ HashDone(p) \/ ScanDone(p) \/ TestExists(p) \/ DirDone(p)
         \/ Finish(p) \/ SaveHints(p) \/ Publish(p)
  PROVE  OneRun' /\ Writers' /\ ObjectsIntact'
<1>1. /\ BackingUp(p) /\ bk[p].pc # "copy"
      /\ UNCHANGED <<objs, tmps, wfd>>
      /\ \E r : Becomes(p, r) /\ QuietNext(p, r)
  BY QuietSteps DEF IntactInv
<1>2. \A q \in Host \ {p} : ~ BackingUp(q)
  BY <1>1, OthersIdle
<1>. QED BY <1>1, <1>2, QuietIntact DEF QuietNext

\* A descriptor is told from None.
LEMMA NoFd == ASSUME NEW d \in WriteFd PROVE d # None
BY NoneAssumption DEF WriteFd

\* A copy starts with an empty .tmp and its own descriptor on it.
LEMMA OpenTmpIntact ==
  ASSUME IntactInv, NEW p \in Host, OpenTmp(p)
  PROVE  OneRun' /\ Writers' /\ ObjectsIntact'
<1> DEFINE r == [bk[p] EXCEPT !.pc = "copy", !.ctx = <<>>]
<1>1. BackingUp(p) /\ bk[p] \in Run /\ bk \in [Host -> Run] /\ Becomes(p, r)
  BY DEF IntactInv, TypeInv, TypeOK, BackupTypeOK, OpenTmp, BackingUp
<1>2. bk'[p] = r
  BY <1>1 DEF Becomes
<1>3. r.pc = "copy" /\ r.ctx = <<>> /\ r.hashables = bk[p].hashables
  BY <1>1 DEF Run
<1>4. wfd'[p] = [hash |-> Wanted(p), at |-> "tmp"]
  BY DEF OpenTmp, OpenTrunc, IntactInv, TypeInv, TypeOK, MediumTypeOK
<1>5. wfd'[p] # None
  <2>1. Wanted(p) \in HashName
    <3>1. bk[p].hashables # <<>> /\ TypeInv
      BY DEF IntactInv, TypeInv, Shape, ShapeOf, RunShape, OpenTmp
    <3>. QED BY <3>1, QueueHead
  <2>2. wfd' \in [Host -> {None} \cup WriteFd] /\ wfd'[p] \in WriteFd
    BY <1>4, <2>1 DEF WriteFd, OpenTmp, OpenTrunc, IntactInv, TypeInv, TypeOK,
                      MediumTypeOK
  <2>. QED BY <2>2, NoFd
<1>6. Wanted(p)' = Wanted(p)
  BY <1>2, <1>3 DEF Wanted
<1>7. Wanted(p) \in DOMAIN tmps' /\ tmps'[Wanted(p)] = Flushed(<<>>)
  BY FlushedEmpty DEF OpenTmp, OpenTrunc, Put
<1>8. WriterOf(p)'
  BY <1>2, <1>3, <1>4, <1>5, <1>6, <1>7 DEF WriterOf, Copying
<1>9. \A q \in Host \ {p} : ~ BackingUp(q) /\ wfd'[q] = None
  BY <1>1, OthersIdle DEF OpenTmp, OpenTrunc, IntactInv, TypeInv, TypeOK,
                          MediumTypeOK
<1>10. ObjectsIntact'
  BY DEF IntactInv, ObjectsIntact, Intact, OpenTmp
<1>. QED BY <1>1, <1>8, <1>9, <1>10, OthersWriters

\* The copy loop and its end leave in the .tmp all that was read before, and
\* change no object.
LEMMA CopyFlushes ==
  ASSUME IntactInv, NEW p \in Host, bk[p].pc = "copy",
         IF bk[p].ctx = <<>> THEN UNCHANGED <<objs, tmps>> ELSE WriteHeld(p)
  PROVE  /\ objs' = objs /\ DOMAIN tmps' = DOMAIN tmps
         /\ Wanted(p) \in DOMAIN tmps => /\ tmps'[Wanted(p)] = bk[p].ctx
                                         /\ wfd[p].at = "tmp"
         /\ Wanted(p) \notin DOMAIN tmps => wfd[p].at = "gone"
<1>1. Copying(p)
  BY DEF IntactInv, Writers, WriterOf
<1>2. bk[p].ctx \in Bytes
  BY Parts DEF IntactInv, TypeInv
<1>3. CASE bk[p].ctx = <<>>
  BY <1>1, <1>3, FlushedEmpty DEF Copying
<1>4. CASE bk[p].ctx # <<>>
  <2> DEFINE c == bk[p].ctx
  <2>1. WriteBlock(p, Len(c) - 1, c[Len(c)])
    BY <1>4 DEF WriteHeld
  <2>2. WriteAt(Flushed(c), Len(c) - 1, c[Len(c)]) = c
    BY <1>2, <1>4, FlushedAll
  <2>3. CASE wfd[p].at = "tmp"
    <3>1. tmps[Wanted(p)] = Flushed(c) /\ Wanted(p) \in DOMAIN tmps
      BY <1>1, <2>3 DEF Copying
    <3>2. tmps' = [tmps EXCEPT ![Wanted(p)] =
                      WriteAt(tmps[Wanted(p)], Len(c) - 1, c[Len(c)])]
      BY <1>1, <2>1, <2>3 DEF WriteBlock, Copying
    <3>3. objs' = objs
      BY <2>1, <2>3 DEF WriteBlock
    <3>. QED BY <2>2, <2>3, <3>1, <3>2, <3>3
  <2>4. CASE wfd[p].at = "gone"
    BY <1>1, <2>1, <2>4 DEF WriteBlock, Copying
  <2>. QED BY <1>1, <2>3, <2>4 DEF Copying
<1>. QED BY <1>3, <1>4

\* The copy loop: the .tmp stays one block behind what was read.
LEMMA CopyReadIntact ==
  ASSUME IntactInv, NEW p \in Host, CopyRead(p)
  PROVE  OneRun' /\ Writers' /\ ObjectsIntact'
<1> DEFINE c == bk[p].ctx
           b == src[p][Source(p)].data[Len(c) + 1]
           r == [bk[p] EXCEPT !.ctx = Append(c, b)]
<1>1. /\ BackingUp(p) /\ bk[p] \in Run /\ bk \in [Host -> Run]
      /\ bk[p].pc = "copy" /\ Becomes(p, r)
  BY DEF IntactInv, TypeInv, TypeOK, BackupTypeOK, CopyRead, ReadBlock,
         BackingUp
<1>2. bk'[p] = r
  BY <1>1 DEF Becomes
<1>3. r.pc = "copy" /\ r.ctx = Append(c, b) /\ r.hashables = bk[p].hashables
  BY <1>1 DEF Run
<1>4. c \in Bytes /\ b \in Byte
  <2>1. bk[p].hashables # <<>> /\ TypeInv
    BY <1>1 DEF IntactInv, TypeInv, Shape, ShapeOf, RunShape
  <2>2. Source(p) \in File
    BY <2>1, QueueHead
  <2>3. c \in Bytes /\ src[p][Source(p)].data \in Seq(Byte)
    BY <2>1, <2>2, Parts DEF TypeInv, Bytes
  <2>4. Len(c) + 1 \in 1 .. Len(src[p][Source(p)].data)
    <3>1. Len(c) \in Nat /\ Len(src[p][Source(p)].data) \in Nat
      BY <2>3, LenProperties DEF Bytes
    <3>2. Len(c) < Len(src[p][Source(p)].data)
      BY DEF CopyRead, ReadBlock
    <3>. QED BY <3>1, <3>2, SMTT(60)
  <2>. QED BY <2>3, <2>4, ElementOfSeq
<1>5. Flushed(Append(c, b)) = c
  BY <1>4, FlushedAppend
<1>6. /\ objs' = objs /\ DOMAIN tmps' = DOMAIN tmps /\ wfd' = wfd
      /\ Wanted(p) \in DOMAIN tmps => tmps'[Wanted(p)] = c /\ wfd[p].at = "tmp"
      /\ Wanted(p) \notin DOMAIN tmps => wfd[p].at = "gone"
  BY <1>1, CopyFlushes DEF CopyRead
<1>7. Wanted(p)' = Wanted(p)
  BY <1>2, <1>3 DEF Wanted
<1>8. wfd[p] # None /\ wfd[p].hash = Wanted(p)
  BY <1>1 DEF IntactInv, Writers, WriterOf, Copying
<1>9. WriterOf(p)'
  BY <1>2, <1>3, <1>5, <1>6, <1>7, <1>8 DEF WriterOf, Copying
<1>10. \A q \in Host \ {p} : ~ BackingUp(q) /\ wfd'[q] = None
  BY <1>1, <1>6, OthersIdle
<1>11. ObjectsIntact'
  BY <1>6 DEF IntactInv, ObjectsIntact, Intact
<1>. QED BY <1>1, <1>9, <1>10, <1>11, OthersWriters

\* The recheck: the .tmp that is about to get its name has the right hash.
LEMMA CopyDoneIntact ==
  ASSUME IntactInv, RecheckHash, NEW p \in Host, CopyDone(p)
  PROVE  OneRun' /\ Writers' /\ ObjectsIntact'
<1> DEFINE r == [bk[p] EXCEPT !.pc = "rename", !.ctx = <<>>]
<1>1. /\ BackingUp(p) /\ bk[p] \in Run /\ bk \in [Host -> Run]
      /\ bk[p].pc = "copy" /\ Becomes(p, r)
  BY DEF IntactInv, TypeInv, TypeOK, BackupTypeOK, CopyDone, BackingUp
<1>2. bk'[p] = r
  BY <1>1 DEF Becomes
<1>3. r.pc = "rename" /\ r.hashables = bk[p].hashables
  BY <1>1 DEF Run
<1>4. Hash(bk[p].ctx) = Wanted(p)
  BY DEF CopyDone, RecheckFails
<1>5. /\ objs' = objs /\ DOMAIN tmps' = DOMAIN tmps
      /\ Wanted(p) \in DOMAIN tmps => tmps'[Wanted(p)] = bk[p].ctx
  BY <1>1, CopyFlushes DEF CopyDone
<1>6. Wanted(p)' = Wanted(p)
  BY <1>2, <1>3 DEF Wanted
<1>7. wfd'[p] = None
  BY DEF CopyDone, IntactInv, TypeInv, TypeOK, MediumTypeOK
<1>8. WriterOf(p)'
  BY <1>2, <1>3, <1>4, <1>5, <1>6, <1>7 DEF WriterOf
<1>9. \A q \in Host \ {p} : ~ BackingUp(q) /\ wfd'[q] = None
  BY <1>1, OthersIdle DEF CopyDone, IntactInv, TypeInv, TypeOK, MediumTypeOK
<1>10. ObjectsIntact'
  BY <1>5 DEF IntactInv, ObjectsIntact, Intact
<1>. QED BY <1>1, <1>8, <1>9, <1>10, OthersWriters

\* An object gets its name from a .tmp that was rechecked.
LEMMA RenameObjIntact ==
  ASSUME IntactInv, NEW p \in Host, RenameObj(p)
  PROVE  OneRun' /\ Writers' /\ ObjectsIntact'
<1> DEFINE r == [bk[p] EXCEPT !.pc = "test", !.hashables = Tail(bk[p].hashables)]
           h == Wanted(p)
<1>1. /\ BackingUp(p) /\ bk[p] \in Run /\ bk \in [Host -> Run]
      /\ bk[p].pc = "rename" /\ Becomes(p, r)
  BY DEF IntactInv, TypeInv, TypeOK, BackupTypeOK, RenameObj, BackingUp
<1>2. bk'[p] = r /\ r.pc = "test"
  BY <1>1 DEF Becomes, Run
<1>3. h \in DOMAIN tmps /\ Hash(tmps[h]) = h
  BY <1>1 DEF RenameObj, RenameTmp, IntactInv, Writers, WriterOf
<1>4. \A q \in Host : wfd[q] = None
  <2>1. wfd[p] = None
    BY <1>1 DEF IntactInv, Writers, WriterOf
  <2>. QED BY <1>1, <2>1, OthersIdle
<1>5. \A q \in Host : wfd'[q] = None
  BY <1>4 DEF RenameObj, RenameTmp, Moved
<1>6. WriterOf(p)'
  BY <1>2, <1>5 DEF WriterOf
<1>7. \A q \in Host \ {p} : ~ BackingUp(q) /\ wfd'[q] = None
  BY <1>1, <1>5, OthersIdle
<1>8. ObjectsIntact'
  BY <1>3 DEF IntactInv, ObjectsIntact, Intact, RenameObj, RenameTmp, Put
<1>. QED BY <1>1, <1>6, <1>7, <1>8, OthersWriters

\* No backup starts while another goes on.
LEMMA FirstRun ==
  ASSUME OneBackup, MayStart("backup")
  PROVE  \A q \in Host : ~ BackingUp(q)
<1> SUFFICES ASSUME NEW q \in Host, BackingUp(q) PROVE FALSE
  OBVIOUS
<1>1. "backup" \in Running
  BY DEF Running, Operation
<1>2. {"backup", "backup"} \in Overlap
  BY <1>1 DEF MayStart
<1>. QED BY <1>2 DEF OneBackup

\* A new run has stored nothing yet.
LEMMA StartBackupIntact ==
  ASSUME IntactInv, OneBackup, NEW p \in Host, NEW d \in Date,
         MayStart("backup"), StartBackup(p, d)
  PROVE  OneRun' /\ Writers' /\ ObjectsIntact'
<1> DEFINE r == [BackupIdle EXCEPT
                    !.pc = "dir", !.date = d, !.dir = 1,
                    !.hints = IF UseHints THEN hintfile[p] ELSE NoHints]
<1>1. \A q \in Host : ~ BackingUp(q)
  BY FirstRun
<1>2. Becomes(p, r) /\ r.pc = "dir" /\ bk[p].pc = "idle"
  BY DEF StartBackup, BackupIdle
<1>. QED BY <1>1, <1>2, QuietIntact DEF StartBackup

\* Every step of a backup, its start and its death.
LEMMA BackupIntact ==
  ASSUME IntactInv, OneBackup, RecheckHash, NEW p \in Host,
         BackupNext(p) \/ CrashBackup(p)
  PROVE  OneRun' /\ Writers' /\ ObjectsIntact'
<1>1. ASSUME NEW d \in Date, MayStart("backup"), StartBackup(p, d)
      PROVE  OneRun' /\ Writers' /\ ObjectsIntact'
  BY <1>1, StartBackupIntact
<1>2. CASE SmallShrunk(p) \/ CopyChanged(p) \/ RenameFails(p) \/ CrashBackup(p)
  <2>1. BackingUp(p) /\ ExitBackup(p) /\ UNCHANGED <<objs, tmps>>
    BY <1>2 DEF SmallShrunk, CopyChanged, RenameFails, CrashBackup, Scanning,
                BackingUp
  <2>. QED BY <2>1, ExitIntact
<1>. QED
  BY <1>1, <1>2, ScanIntact, OpenTmpIntact, CopyReadIntact, CopyDoneIntact,
     RenameObjIntact DEF BackupNext, BackupStep

----------------------------------------------------------------------------
(***************************************************************************)
(* Steps of the others.                                                    *)
(***************************************************************************)
\* Taking an object away leaves the others, and the .tmp of a copy, alone.
LEMMA RemoveObjIntact ==
  ASSUME IntactInv, NEW h, RemoveObj(h), tmps' = tmps, bk' = bk
  PROVE  OneRun' /\ Writers' /\ ObjectsIntact'
<1>1. ASSUME NEW p \in Host PROVE WriterOf(p)'
  <2>1. WriterOf(p) /\ wfd \in [Host -> {None} \cup WriteFd]
    BY DEF IntactInv, Writers, TypeInv, TypeOK, MediumTypeOK
  <2>2. wfd[p] = None => wfd'[p] = None
    BY DEF RemoveObj, Moved
  <2>3. ASSUME bk[p].pc = "copy" PROVE wfd'[p] = wfd[p]
    <3>1. wfd[p] \in WriteFd /\ wfd[p].at \in {"tmp", "gone"}
      BY <2>1, <2>3 DEF WriterOf, Copying
    <3>. QED BY <3>1 DEF RemoveObj, Moved, WriteFd
  <2>. QED BY <2>1, <2>2, <2>3 DEF WriterOf, Copying, Wanted
<1>2. ObjectsIntact'
  BY DEF IntactInv, ObjectsIntact, Intact, RemoveObj, Drop
<1>. QED BY <1>1, <1>2 DEF Writers, IntactInv, OneRun, BackingUp

\* A .tmp that is taken away while it is written leaves the writer with a file
\* that has no name.
LEMMA RemoveTmpIntact ==
  ASSUME IntactInv, NEW h, RemoveTmp(h), objs' = objs, bk' = bk
  PROVE  OneRun' /\ Writers' /\ ObjectsIntact'
<1>1. ASSUME NEW p \in Host PROVE WriterOf(p)'
  <2>1. WriterOf(p) /\ wfd \in [Host -> {None} \cup WriteFd]
    BY DEF IntactInv, Writers, TypeInv, TypeOK, MediumTypeOK
  <2>2. wfd[p] = None => wfd'[p] = None
    BY DEF RemoveTmp, Moved
  <2>3. /\ DOMAIN tmps' = DOMAIN tmps \ {h}
        /\ \A g \in DOMAIN tmps' : tmps'[g] = tmps[g]
    BY DEF RemoveTmp, Drop
  <2>4. CASE bk[p].pc = "copy"
    <3>1. wfd[p] \in WriteFd /\ Copying(p) /\ wfd[p] # None
      BY <2>1, <2>4 DEF WriterOf
    <3>2. CASE Wanted(p) = h
      <4>1. wfd'[p].at = "gone" /\ wfd'[p].hash = h
        BY <3>1, <3>2 DEF Copying, RemoveTmp, Moved, WriteFd
      <4>2. wfd'[p] # None
        BY <3>1, NoFd, RemoveTmpType
           DEF IntactInv, TypeInv, TypeOK, RemoveTmp, Moved, WriteFd
      <4>. QED BY <2>3, <2>4, <3>2, <4>1, <4>2 DEF WriterOf, Copying, Wanted
    <3>3. CASE Wanted(p) # h
      <4>1. wfd'[p] = wfd[p]
        BY <3>1, <3>3 DEF Copying, RemoveTmp, Moved
      <4>. QED BY <2>3, <2>4, <3>1, <3>3, <4>1 DEF WriterOf, Copying, Wanted
    <3>. QED BY <3>2, <3>3
  <2>5. CASE bk[p].pc # "copy"
    BY <2>1, <2>2, <2>3, <2>5 DEF WriterOf, Wanted
  <2>. QED BY <2>4, <2>5
<1>2. ObjectsIntact'
  BY DEF IntactInv, ObjectsIntact, Intact
<1>. QED BY <1>1, <1>2 DEF Writers, IntactInv, OneRun, BackingUp

\* Any step without a part for the repository or a backup.
LEMMA OtherIntact ==
  ASSUME IntactInv, UNCHANGED <<objs, tmps, wfd, bk>>
  PROVE  OneRun' /\ Writers' /\ ObjectsIntact'
BY DEF IntactInv, OneRun, BackingUp, Writers, WriterOf, Copying, Wanted,
       ObjectsIntact, Intact

\* A cleanup removes objects and .tmp files and writes none.
LEMMA CleanupIntact ==
  ASSUME IntactInv, CleanupNext \/ CrashCleanup
  PROVE  OneRun' /\ Writers' /\ ObjectsIntact'
<1>1. bk' = bk
  BY DEF CleanupNext, CrashCleanup
<1>2. \/ UNCHANGED <<objs, tmps, wfd>>
      \/ \E h : RemoveObj(h) /\ tmps' = tmps
      \/ \E h : RemoveTmp(h) /\ objs' = objs
  BY DEF CleanupNext, CrashCleanup, StartCleanup, CleanupStep, MarkIndex,
         MarkFails, MarkDone, ListRepo, SweepFile, SweepFails, CheckFile,
         CheckUnreadable, Verdict, RemoveFile, RemoveFails, RemoveGone,
         SweepDone, medium
<1>. QED BY <1>1, <1>2, OtherIntact, RemoveObjIntact, RemoveTmpIntact

\* A verification removes wrong objects and writes none.
LEMMA VerifyIntact ==
  ASSUME IntactInv, VerifyNext \/ CrashVerify
  PROVE  OneRun' /\ Writers' /\ ObjectsIntact'
<1>1. bk' = bk
  BY DEF VerifyNext, CrashVerify
<1>2. \/ UNCHANGED <<objs, tmps, wfd>>
      \/ \E h : RemoveObj(h) /\ tmps' = tmps
  BY DEF VerifyNext, CrashVerify, StartVerify, VerifyStep, VerifyGood,
         VerifyMismatch, RemoveWrong, VerifyMissing, VerifyDone, medium
<1>. QED BY <1>1, <1>2, OtherIntact, RemoveObjIntact

----------------------------------------------------------------------------
\* Before anything was backed up.
LEMMA InitIntact == Init => IntactInv
<1> SUFFICES ASSUME Init PROVE OneRun /\ Writers /\ ObjectsIntact
  BY InitType DEF IntactInv
<1>. QED
  BY DEF Init, MediumInit, BackupInit, BackupIdle, EmptyMap, OneRun, BackingUp,
         Writers, WriterOf, ObjectsIntact

\* Every step keeps the invariant.
LEMMA NextIntact ==
  ASSUME OneBackup, RecheckHash
  PROVE  IntactInv /\ [Next]_vars => IntactInv'
<1> SUFFICES ASSUME IntactInv, [Next]_vars
             PROVE  OneRun' /\ Writers' /\ ObjectsIntact'
  BY NextType DEF IntactInv
<1>1. ASSUME NEW p \in Host, BackupNext(p) \/ CrashBackup(p)
      PROVE  OneRun' /\ Writers' /\ ObjectsIntact'
  BY <1>1, BackupIntact
<1>2. CASE CleanupNext \/ CrashCleanup
  BY <1>2, CleanupIntact
<1>3. CASE VerifyNext \/ CrashVerify
  BY <1>3, VerifyIntact
<1>4. CASE Environment
  BY <1>4, OtherIntact DEF Environment, Edit, Tick, DeleteIndex
<1>5. CASE UNCHANGED vars
  BY <1>5, OtherIntact DEF vars, mvars
<1>. QED BY <1>1, <1>2, <1>3, <1>4, <1>5 DEF Next

\* With --recheck-hash, the default, and one backup at a time, an object has
\* at all times the bytes its name is the hash of (backup.cc:313-343), whatever
\* is edited during the copy, wherever runs die, and whatever cleanups and
\* verifications take away meanwhile.
THEOREM RepositoryIntact ==
  ASSUME OneBackup, RecheckHash
  PROVE  Spec => []ObjectsIntact
<1>1. IntactInv /\ [Next]_vars => IntactInv'
  BY NextIntact
<1>2. IntactInv => ObjectsIntact
  BY DEF IntactInv
<1>. QED BY InitIntact, <1>1, <1>2, PTL DEF Spec

----------------------------------------------------------------------------
(***************************************************************************)
(* What a cleanup takes away and what it leaves behind, provided that no   *)
(* backup goes on meanwhile: it removes no object that an index needs,     *)
(* whichever indexes are deleted by hand while it reads them, and when it  *)
(* is done nothing else is left.  And what a verification says of an index.*)
(***************************************************************************)
CleanupsAlone == {"backup", "cleanup"} \notin Overlap

\* No read of an object fails while --detect-bogus hashes it.
ReadsSucceed == ~ (ReadErrors /\ DetectBogus)

----------------------------------------------------------------------------
(***************************************************************************)
(* The strengthening.  A cleanup that reads the indexes has the hashes of  *)
(* all that are there but those still on its list; one that walks the      *)
(* repository has the hashes of all, and each of them was whole.  What it  *)
(* has listed and passed is gone, or reported, or is an object to be kept. *)
(***************************************************************************)
NoBackup == Cleaning => \A p \in Host : ~ BackingUp(p)

Marked ==
    /\ cl.pc = "mark" => \A n \in DOMAIN idx :
          \/ n \in cl.argv
          \/ HashesOf(idx[n]) \subseteq cl.needed /\ (cl.bad \/ idx[n].end)
    /\ SweepInformed

\* The sweep has still to look at the file, or is at it, or has reported it.
Pending(x) ==
    \/ x \in cl.names
    \/ cl.pc \in {"check", "remove"} /\ x = cl.file
    \/ x \in cl.failed

Swept ==
    cl.pc \in {"sweep", "check", "remove"} /\ DeleteClean =>
       /\ \A h \in DOMAIN tmps : Pending(<<h, "tmp">>)
       /\ \A h \in DOMAIN objs : Pending(<<h, "obj">>) \/ Keep(<<h, "obj">>)

\* A file about to be removed was not to be kept when it was looked at, and no
\* other run that may go on meanwhile gives it what it lacked.
Condemned == cl.pc = "remove" /\ ReadsSucceed => ~ Keep(cl.file)

CleanInv == NoBackup /\ Marked /\ Swept /\ Condemned

----------------------------------------------------------------------------
\* Only a run under way takes steps.
LEMMA StepsRun ==
  ASSUME NEW p \in Host, BackupStep(p) \/ CrashBackup(p)
  PROVE  BackingUp(p)
BY DEF BackupStep, CrashBackup, BackingUp, EnterDir, StoreSmall, SmallShrunk,
       UseHint, HashRead, HashDone, ScanDone, TestExists, OpenTmp, CopyRead,
       CopyDone, CopyChanged, RenameObj, RenameFails, DirDone, Finish,
       SaveHints, Publish, Scanning

\* No step of a backup falls into a cleanup.
LEMMA BackupNotCleaning ==
  ASSUME CleanupsAlone, NoBackup, NEW p \in Host,
         BackupNext(p) \/ CrashBackup(p)
  PROVE  ~ Cleaning /\ cl' = cl
<1>1. cl' = cl
  BY DEF BackupNext, CrashBackup
<1>2. CASE BackupStep(p) \/ CrashBackup(p)
  BY <1>1, <1>2, StepsRun DEF NoBackup
<1>3. CASE MayStart("backup")
  <2> SUFFICES ASSUME Cleaning PROVE FALSE
    BY <1>1
  <2>1. "cleanup" \in Running
    BY DEF Running, Operation
  <2>. QED BY <1>3, <2>1 DEF MayStart, CleanupsAlone
<1>. QED BY <1>2, <1>3 DEF BackupNext

\* No cleanup starts while a backup goes on.
LEMMA StartsAlone ==
  ASSUME CleanupsAlone, MayStart("cleanup")
  PROVE  \A p \in Host : ~ BackingUp(p)
<1> SUFFICES ASSUME NEW p \in Host, BackingUp(p) PROVE FALSE
  OBVIOUS
<1>1. "backup" \in Running
  BY DEF Running, Operation
<1>2. {"cleanup", "backup"} = {"backup", "cleanup"}
  OBVIOUS
<1>. QED BY <1>1, <1>2 DEF MayStart, CleanupsAlone

\* What the steps of a cleanup leave alone.
LEMMA CleanupLeaves ==
  ASSUME CleanupNext \/ CrashCleanup
  PROVE  UNCHANGED <<files, idx, bk, vf>>
BY DEF CleanupNext, CrashCleanup, StartCleanup, CleanupStep, MarkIndex,
       MarkFails, MarkDone, ListRepo, SweepFile, SweepFails, CheckFile,
       CheckUnreadable, Verdict, RemoveFile, RemoveFails, RemoveGone,
       SweepDone, medium

\* A step within the sweep leaves the set of hashes as it was.
LEMMA WithinSweep ==
  ASSUME CleanInv, UNCHANGED <<idx, bk>>, cl'.needed = cl.needed,
         cl.pc \in {"sweep", "check", "remove"},
         cl'.pc \in {"sweep", "check", "remove"}
  PROVE  NoBackup' /\ Marked'
BY DEF CleanInv, NoBackup, Cleaning, BackingUp, Marked, SweepInformed

\* The sweep takes a file from its list and looks at it: the file is passed
\* over for a reason, or condemned.
LEMMA LookClean ==
  ASSUME TypeInv, CleanInv, UNCHANGED <<idx, bk>>,
         \/ \E x \in cl.names : SweepFile(x)
         \/ CheckFile \/ CheckUnreadable
  PROVE  CleanInv'
<1>1. cl \in Sweep /\ UNCHANGED <<objs, tmps>>
  BY DEF TypeInv, TypeOK, CleanupTypeOK, SweepFile, CheckFile, CheckUnreadable,
         Verdict, medium
<1>2. ASSUME cl'.needed = cl.needed
      PROVE  \A x : Keep(x)' <=> Keep(x)
  BY <1>1, <1>2 DEF Keep, Intact
<1>3. ASSUME NEW x \in cl.names, SweepFile(x) PROVE CleanInv'
  <2>1. /\ cl.pc = "sweep" /\ cl'.pc = "check" /\ cl'.needed = cl.needed
        /\ cl'.names = cl.names \ {x} /\ cl'.file = x /\ cl'.failed = cl.failed
    BY <1>1, <1>3 DEF SweepFile, Sweep
  <2>2. \A y : Pending(y) => Pending(y)'
    BY <2>1 DEF Pending
  <2>. QED
    BY <1>1, <1>2, <2>1, <2>2, WithinSweep DEF CleanInv, Swept, Condemned
<1>4. CASE CheckFile \/ CheckUnreadable
  <2>1. /\ cl.pc = "check" /\ cl'.needed = cl.needed /\ cl'.names = cl.names
        /\ cl'.failed = cl.failed
        /\ \/ cl'.pc = "sweep"
           \/ cl'.pc = "remove" /\ cl'.file = cl.file
    BY <1>1, <1>4 DEF CheckFile, CheckUnreadable, Verdict, Passed, Sweep
  <2>2. CASE cl'.pc = "sweep"
    <3>1. DeleteClean => CheckFile /\ Keep(cl.file)
      BY <1>1, <1>4, <2>2 DEF CheckFile, CheckUnreadable, Verdict, Sweep
    <3>2. DeleteClean => \E h : cl.file = <<h, "obj">>
      <4>1. cl.file \in RepoFile
        BY <2>1 DEF TypeInv, TypeOK, CleanupTypeOK, Sweep
      <4>. QED BY <3>1, <4>1 DEF Keep, RepoFile
    <3>3. \A y : Pending(y) => Pending(y)' \/ y = cl.file
      BY <2>1 DEF Pending
    <3>4. Swept'
      BY <1>1, <1>2, <2>1, <3>1, <3>2, <3>3 DEF CleanInv, Swept
    <3>. QED
      BY <2>1, <2>2, <3>4, WithinSweep DEF CleanInv, Condemned
  <2>3. CASE cl'.pc = "remove" /\ cl'.file = cl.file
    <3>1. \A y : Pending(y) => Pending(y)'
      BY <2>1, <2>3 DEF Pending
    <3>2. ReadsSucceed => ~ Keep(cl.file)
      BY <1>1, <1>4, <2>3
         DEF CheckFile, CheckUnreadable, Verdict, ReadsSucceed, Passed, Sweep
    <3>. QED
      BY <1>1, <1>2, <2>1, <2>3, <3>1, <3>2, WithinSweep
         DEF CleanInv, Swept, Condemned
  <2>. QED BY <2>1, <2>2, <2>3
<1>. QED BY <1>3, <1>4

\* A file that is condemned goes, or is reported, or has gone already.
LEMMA RemoveClean ==
  ASSUME TypeInv, CleanInv, UNCHANGED <<idx, bk>>,
         RemoveFile \/ RemoveFails \/ RemoveGone
  PROVE  CleanInv'
<1>1. cl \in Sweep /\ cl.pc = "remove" /\ cl.file \in HashName \X {"obj", "tmp"}
  BY DEF TypeInv, TypeOK, CleanupTypeOK, RemoveFile, RemoveFails, RemoveGone,
         Sweep, RepoFile
<1>2. /\ cl'.pc = "sweep" /\ cl'.needed = cl.needed /\ cl'.names = cl.names
      /\ cl'.failed = IF RemoveFails THEN cl.failed \cup {cl.file}
                                     ELSE cl.failed
  <2>1. /\ Passed.pc = "sweep" /\ Passed.needed = cl.needed
        /\ Passed.names = cl.names /\ Passed.failed = cl.failed
    BY <1>1 DEF Passed, Sweep
  <2>2. CASE RemoveFails
    <3>1. cl' = [Passed EXCEPT !.failed = cl.failed \cup {cl.file}]
      BY <2>1, <2>2 DEF RemoveFails
    <3>2. Passed \in Sweep
      BY <1>1 DEF Passed, Sweep
    <3>. QED BY <2>1, <2>2, <3>1, <3>2 DEF Sweep
  <2>3. CASE ~ RemoveFails
    BY <2>1, <2>3 DEF RemoveFile, RemoveGone
  <2>. QED BY <2>2, <2>3
<1>3. \A y : Pending(y) => Pending(y)' \/ (~ RemoveFails /\ y = cl.file)
  BY <1>2 DEF Pending
<1>4. /\ \A h \in DOMAIN tmps' : h \in DOMAIN tmps
      /\ \A h \in DOMAIN objs' : h \in DOMAIN objs /\ objs'[h] = objs[h]
  BY DEF RemoveFile, RemoveFails, RemoveGone, medium, RemoveObj, RemoveTmp, Drop
<1>5. ~ RemoveFails =>
         /\ cl.file[2] = "tmp" => cl.file[1] \notin DOMAIN tmps'
         /\ cl.file[2] = "obj" => cl.file[1] \notin DOMAIN objs'
  BY <1>1 DEF RemoveFile, RemoveGone, medium, RemoveObj, RemoveTmp, Drop, Exists
<1>6. \A h \in DOMAIN objs' : Keep(<<h, "obj">>) => Keep(<<h, "obj">>)'
  BY <1>2, <1>4 DEF Keep, Intact
<1>7. Swept'
  <2> SUFFICES ASSUME DeleteClean PROVE Swept'
    BY DEF Swept
  <2>1. ASSUME NEW h \in DOMAIN tmps' PROVE Pending(<<h, "tmp">>)'
    <3>1. Pending(<<h, "tmp">>)
      BY <1>1, <1>4 DEF CleanInv, Swept
    <3>. QED BY <1>3, <1>5, <3>1
  <2>2. ASSUME NEW h \in DOMAIN objs'
        PROVE  Pending(<<h, "obj">>)' \/ Keep(<<h, "obj">>)'
    <3>1. Pending(<<h, "obj">>) \/ Keep(<<h, "obj">>)
      BY <1>1, <1>4 DEF CleanInv, Swept
    <3>. QED BY <1>3, <1>5, <1>6, <3>1
  <2>. QED BY <2>1, <2>2 DEF Swept
<1>. QED BY <1>1, <1>2, <1>7, WithinSweep DEF CleanInv, Condemned

\* Every step of a cleanup.
LEMMA CleanupClean ==
  ASSUME TypeInv, CleanInv, CleanupsAlone, CleanupNext \/ CrashCleanup
  PROVE  CleanInv'
<1>1. cl \in Sweep /\ UNCHANGED <<idx, bk>>
  BY CleanupLeaves DEF TypeInv, TypeOK, CleanupTypeOK
<1> USE DEF SweepInformed, Condemned
<1>2. CASE MayStart("cleanup") /\ StartCleanup
  <2>1. \A p \in Host : ~ BackingUp(p)
    BY <1>2, StartsAlone
  <2>2. cl'.pc = "mark" /\ cl'.argv = DOMAIN idx
    BY <1>2 DEF StartCleanup, CleanupIdle
  <2>3. NoBackup' /\ Marked'
    BY <1>1, <2>1, <2>2 DEF NoBackup, BackingUp, Marked
  <2>4. Swept' /\ Condemned'
    BY <2>2 DEF Swept
  <2>. QED BY <2>3, <2>4 DEF CleanInv
<1>3. ASSUME NEW n \in cl.argv, MarkIndex(n) PROVE CleanInv'
  <2>1. /\ cl.pc = "mark" /\ cl'.pc = "mark" /\ cl'.argv = cl.argv \ {n}
        /\ cl'.needed = cl.needed \cup HashesOf(idx[n])
        /\ cl'.bad = (cl.bad \/ ~ idx[n].end)
    BY <1>1, <1>3 DEF MarkIndex, NeededWith, Sweep
  <2>2. \A m \in DOMAIN idx : \/ m \in cl'.argv
                              \/ /\ HashesOf(idx[m]) \subseteq cl'.needed
                                 /\ cl'.bad \/ idx[m].end
    BY <2>1 DEF CleanInv, Marked
  <2>. QED
    BY <1>1, <2>1, <2>2 DEF CleanInv, NoBackup, Cleaning, BackingUp, Marked, Swept
<1>4. CASE MarkDone /\ ~ cl.bad
  <2>1. /\ cl.pc = "mark" /\ cl.argv = {} /\ cl'.pc = "list"
        /\ cl'.needed = cl.needed
    BY <1>1, <1>4 DEF MarkDone, Sweep
  <2>. QED
    BY <1>1, <1>4, <2>1
       DEF CleanInv, NoBackup, Cleaning, BackingUp, Marked, Swept
<1>5. CASE ListRepo
  <2>1. /\ cl.pc = "list" /\ cl'.pc = "sweep" /\ cl'.needed = cl.needed
        /\ cl'.names = ((DOMAIN objs) \X {"obj"}) \cup ((DOMAIN tmps) \X {"tmp"})
        /\ objs' = objs /\ tmps' = tmps
    BY <1>1, <1>5 DEF ListRepo, Sweep, medium
  <2>2. Swept'
    BY <2>1 DEF Swept, Pending
  <2>. QED
    BY <1>1, <2>1, <2>2 DEF CleanInv, NoBackup, Cleaning, BackingUp, Marked
<1>6. CASE (\E x \in cl.names : SweepFile(x)) \/ CheckFile \/ CheckUnreadable
  BY <1>1, <1>6, LookClean
<1>7. CASE RemoveFile \/ RemoveFails \/ RemoveGone
  BY <1>1, <1>7, RemoveClean
<1>8. CASE cl' = CleanupIdle
  BY <1>8 DEF CleanInv, NoBackup, Cleaning, Marked, Swept, CleanupIdle
<1>. QED
  BY <1>2, <1>3, <1>4, <1>5, <1>6, <1>7, <1>8
     DEF CleanupNext, CrashCleanup, CleanupStep, MarkFails, MarkDone,
         SweepFails, SweepDone, ExitCleanup

\* A verification takes away objects and no index.
LEMMA VerifyClean ==
  ASSUME CleanInv, VerifyNext \/ CrashVerify
  PROVE  CleanInv'
<1>1. UNCHANGED <<idx, bk, cl>> /\ tmps' = tmps
  BY DEF VerifyNext, CrashVerify, StartVerify, VerifyStep, VerifyGood,
         VerifyMismatch, RemoveWrong, VerifyMissing, VerifyDone, medium
<1>2. objs' = objs \/ \E h : objs' = Drop(objs, h)
  BY DEF VerifyNext, CrashVerify, StartVerify, VerifyStep, VerifyGood,
         VerifyMismatch, RemoveWrong, VerifyMissing, VerifyDone, medium,
         RemoveObj
<1>3. \A h \in DOMAIN objs' : h \in DOMAIN objs /\ objs'[h] = objs[h]
  BY <1>2 DEF Drop
<1>4. \A h \in DOMAIN objs' : Keep(<<h, "obj">>) => Keep(<<h, "obj">>)'
  BY <1>1, <1>3 DEF Keep, Intact
<1>5. \A x : Keep(x)' => Keep(x)
  BY <1>1, <1>3 DEF Keep, Intact
<1>6. \A x : Pending(x)' <=> Pending(x)
  BY <1>1 DEF Pending
<1>. QED
  BY <1>1, <1>3, <1>4, <1>5, <1>6
     DEF CleanInv, NoBackup, Cleaning, BackingUp, Marked, SweepInformed, Swept,
         Condemned

\* Neither edits nor time concern a cleanup; an index that is deleted by hand
\* needs nothing any more.
LEMMA EnvironmentClean ==
  ASSUME CleanInv, Environment
  PROVE  CleanInv'
<1>1. UNCHANGED <<objs, tmps, bk, cl>>
  BY DEF Environment, Edit, Tick, DeleteIndex
<1>2. \A n \in DOMAIN idx' : n \in DOMAIN idx /\ idx'[n] = idx[n]
  BY DEF Environment, Edit, Tick, DeleteIndex, Drop
<1>3. \A x : (Keep(x)' <=> Keep(x)) /\ (Pending(x)' <=> Pending(x))
  BY <1>1 DEF Keep, Intact, Pending
<1>4. Marked'
  BY <1>1, <1>2 DEF CleanInv, Marked, SweepInformed, HashesOf
<1>. QED
  BY <1>1, <1>3, <1>4
     DEF CleanInv, NoBackup, Cleaning, BackingUp, Swept, Condemned

\* The invariant holds at first and every step keeps it.
LEMMA InitClean == Init => CleanInv
BY DEF Init, CleanupInit, CleanupIdle, CleanInv, NoBackup, Cleaning, Marked,
       SweepInformed, Swept, Condemned

LEMMA NextClean ==
  ASSUME CleanupsAlone
  PROVE  TypeInv /\ CleanInv /\ [Next]_vars => CleanInv'
<1> SUFFICES ASSUME TypeInv, CleanInv, [Next]_vars PROVE CleanInv'
  OBVIOUS
<1>1. ASSUME NEW p \in Host, BackupNext(p) \/ CrashBackup(p) PROVE CleanInv'
  <2>1. ~ Cleaning /\ cl' = cl
    BY <1>1, BackupNotCleaning DEF CleanInv
  <2>. QED
    BY <2>1 DEF CleanInv, NoBackup, Cleaning, Marked, SweepInformed, Swept,
                Condemned
<1>2. CASE CleanupNext \/ CrashCleanup
  BY <1>2, CleanupClean
<1>3. CASE VerifyNext \/ CrashVerify
  BY <1>3, VerifyClean
<1>4. CASE Environment
  BY <1>4, EnvironmentClean
<1>5. CASE UNCHANGED vars
  BY <1>5 DEF vars, mvars, CleanInv, NoBackup, Cleaning, BackingUp, Marked,
              SweepInformed, Swept, Pending, Condemned, Keep, Intact
<1>. QED BY <1>1, <1>2, <1>3, <1>4, <1>5 DEF Next

LEMMA AlwaysClean ==
  ASSUME CleanupsAlone
  PROVE  Spec => [](TypeInv /\ CleanInv)
<1>1. TypeInv /\ CleanInv /\ [Next]_vars => (TypeInv /\ CleanInv)'
  BY NextType, NextClean
<1>. QED BY InitType, InitClean, <1>1, PTL DEF Spec

\* When a cleanup lists the repository, and at every later moment of its sweep,
\* it has the hashes of every index there is, and each of these was whole
\* (cleanup.cc:38-70), whichever are deleted by hand meanwhile, also
\* while a verification goes on.  With no backup meanwhile.
THEOREM SweepKnowsAll ==
  ASSUME CleanupsAlone
  PROVE  Spec => []SweepInformed
<1>1. CleanInv => SweepInformed
  BY DEF CleanInv, Marked
<1>. QED BY <1>1, AlwaysClean, PTL

\* A cleanup that comes to its end has left only what an index needs and what
\* it has reported that it could not remove (cleanup.cc:92-136): no .tmp of a
\* dead backup, no orphan, and with --detect-bogus no wrong object, although
\* single removals and reads fail, a verification removes objects meanwhile, or
\* indexes are deleted.  With --delete and no backup meanwhile.
THEOREM SweepLeavesNothing ==
  ASSUME CleanupsAlone
  PROVE  Spec => []SweepComplete
<1>1. CleanInv => SweepComplete
  <2> SUFFICES ASSUME CleanInv, cl.pc = "sweep", cl.names = {}, DeleteClean
               PROVE  SweepComplete
    BY DEF SweepComplete
  <2>1. \A x : Pending(x) => x \in cl.failed
    BY DEF Pending
  <2>2. /\ \A h \in DOMAIN tmps : Pending(<<h, "tmp">>)
        /\ \A h \in DOMAIN objs : Pending(<<h, "obj">>) \/ Keep(<<h, "obj">>)
    BY DEF CleanInv, Swept
  <2>3. \A h : Keep(<<h, "obj">>) => h \in cl.needed /\ (DetectBogus => Intact(h))
    BY DEF Keep
  <2>. QED BY <2>1, <2>2, <2>3 DEF SweepComplete
<1>. QED BY <1>1, AlwaysClean, PTL

----------------------------------------------------------------------------
(***************************************************************************)
(* What a verification says, with and without rechecked hashes.  The       *)
(* strengthening: only a run that copies has a descriptor, and it is on no *)
(* object; and the object a run is about to store is not there.  So no     *)
(* step of a backup changes an object that is.                             *)
(***************************************************************************)
CleanupVerifyApart == {"cleanup", "verify"} \notin Overlap

HandOf(p) ==
    /\ IF bk[p].pc = "copy"
       THEN wfd[p] # None /\ wfd[p].hash = Wanted(p) /\ wfd[p].at # "obj"
       ELSE wfd[p] = None
    /\ bk[p].pc \in {"open", "copy", "rename"} => Wanted(p) \notin DOMAIN objs

Hands == \A p \in Host : HandOf(p)

VerifyAlone == ~ (Verifying /\ Cleaning)

Seen ==
    Verifying /\ vf.ok =>
       \A h \in HashesOf(vf.index) \ vf.left : h \in DOMAIN objs /\ Intact(h)

\* The object that is to be removed is reported, still there and still wrong.
StillWrong ==
    vf.pc = "remove" =>
       ~ vf.ok /\ vf.wrong \in DOMAIN objs /\ ~ Intact(vf.wrong)

SeenInv == OneRun /\ Hands /\ VerifyAlone /\ Seen /\ StillWrong

\* An object that is there stays as it is.
ObjectsStay == \A h \in DOMAIN objs : h \in DOMAIN objs' /\ objs'[h] = objs[h]

----------------------------------------------------------------------------
\* While the run of p goes on, there is no other.
LEMMA OthersHands ==
  ASSUME TypeInv, OneRun, Hands, NEW p \in Host, BackingUp(p),
         NEW q \in Host \ {p}
  PROVE  ~ BackingUp(q) /\ wfd[q] = None
<1>1. ~ BackingUp(q)
  BY DEF OneRun
<1>2. HandOf(q)
  BY DEF Hands
<1>. QED BY <1>1, <1>2 DEF HandOf, BackingUp

\* The run of p becomes r, and all other runs are idle.
LEMMA BecomesHands ==
  ASSUME TypeInv, NEW p \in Host, NEW r, Becomes(p, r),
         \A q \in Host \ {p} : ~ BackingUp(q) /\ wfd'[q] = None,
         bk'[p] = r => HandOf(p)'
  PROVE  OneRun' /\ Hands'
<1>1. bk \in [Host -> Run] /\ bk'[p] = r
  BY DEF TypeInv, TypeOK, BackupTypeOK, Becomes
<1>2. ASSUME NEW q \in Host \ {p} PROVE bk'[q].pc = "idle"
  BY <1>1, <1>2 DEF Becomes, BackingUp
<1>3. OneRun'
  BY <1>2 DEF OneRun, BackingUp
<1>4. ASSUME NEW q \in Host \ {p} PROVE HandOf(q)'
  BY <1>2, <1>4 DEF HandOf
<1>. QED BY <1>1, <1>3, <1>4 DEF Hands

\* The end of a run.
LEMMA ExitHands ==
  ASSUME TypeInv, OneRun, Hands, NEW p \in Host, BackingUp(p), ExitBackup(p),
         objs' = objs
  PROVE  OneRun' /\ Hands' /\ ObjectsStay
<1>1. wfd'[p] = None /\ \A q \in Host \ {p} : ~ BackingUp(q) /\ wfd'[q] = None
  BY OthersHands DEF ExitBackup, TypeInv, TypeOK, MediumTypeOK
<1>2. bk'[p] = BackupIdle => HandOf(p)'
  BY <1>1 DEF HandOf, BackupIdle
<1>. QED BY <1>1, <1>2, BecomesHands DEF ExitBackup, ObjectsStay

\* The steps that store an object.
LEMMA StoreHands ==
  ASSUME TypeInv, OneRun, Hands, NEW p \in Host,
         OpenTmp(p) \/ CopyRead(p) \/ CopyDone(p) \/ RenameObj(p)
  PROVE  OneRun' /\ Hands' /\ ObjectsStay
<1>1. BackingUp(p) /\ bk[p] \in Run /\ bk \in [Host -> Run] /\ HandOf(p)
  BY DEF TypeInv, TypeOK, BackupTypeOK, OpenTmp, CopyRead, CopyDone, RenameObj,
         BackingUp, Hands
<1>2. wfd \in [Host -> {None} \cup WriteFd]
  BY DEF TypeInv, TypeOK, MediumTypeOK
<1>3. \A q \in Host \ {p} : ~ BackingUp(q) /\ wfd[q] = None
  BY <1>1, OthersHands
<1>4. CASE OpenTmp(p)
  <2> DEFINE r == [bk[p] EXCEPT !.pc = "copy", !.ctx = <<>>]
  <2>1. r.pc = "copy" /\ r.hashables = bk[p].hashables
    BY <1>1 DEF Run
  <2>2. wfd' = [wfd EXCEPT ![p] = [hash |-> Wanted(p), at |-> "tmp"]]
    BY <1>4 DEF OpenTmp, OpenTrunc
  <2>3. [hash |-> Wanted(p), at |-> "tmp"] \in WriteFd
    <3>1. bk[p].hashables # <<>>
      BY <1>4 DEF TypeInv, Shape, ShapeOf, RunShape, OpenTmp
    <3>. QED BY <3>1, QueueHead DEF WriteFd
  <2>4. wfd'[p] # None /\ wfd'[p].hash = Wanted(p) /\ wfd'[p].at # "obj"
    BY <1>2, <2>2, <2>3, NoFd
  <2>5. bk'[p] = r => HandOf(p)'
    BY <1>1, <1>4, <2>1, <2>4 DEF HandOf, Wanted, OpenTmp
  <2>6. \A q \in Host \ {p} : ~ BackingUp(q) /\ wfd'[q] = None
    BY <1>2, <1>3, <2>2
  <2>7. Becomes(p, r) /\ objs' = objs
    BY <1>4 DEF OpenTmp
  <2>. QED BY <2>5, <2>6, <2>7, BecomesHands DEF ObjectsStay
<1>5. ASSUME CopyRead(p) \/ CopyDone(p) PROVE objs' = objs /\ bk[p].pc = "copy"
  BY <1>1, <1>5 DEF CopyRead, CopyDone, WriteHeld, WriteBlock, HandOf
<1>6. CASE CopyRead(p)
  <2>1. PICK c : Becomes(p, [bk[p] EXCEPT !.ctx = c])
    BY <1>6 DEF CopyRead, ReadBlock
  <2> DEFINE r == [bk[p] EXCEPT !.ctx = c]
  <2>2. r.pc = "copy" /\ r.hashables = bk[p].hashables /\ wfd' = wfd
    BY <1>1, <1>5, <1>6 DEF Run, CopyRead
  <2>3. bk'[p] = r => HandOf(p)'
    BY <1>1, <1>5, <1>6, <2>2 DEF HandOf, Wanted
  <2>. QED BY <1>3, <1>5, <1>6, <2>1, <2>2, <2>3, BecomesHands DEF ObjectsStay
<1>7. CASE CopyDone(p)
  <2> DEFINE r == [bk[p] EXCEPT !.pc = "rename", !.ctx = <<>>]
  <2>1. /\ r.pc = "rename" /\ r.hashables = bk[p].hashables
        /\ Becomes(p, r) /\ wfd' = [wfd EXCEPT ![p] = None]
    BY <1>1, <1>7 DEF Run, CopyDone
  <2>2. \A q \in Host : wfd'[q] = None
    BY <1>2, <1>3, <2>1
  <2>3. bk'[p] = r => HandOf(p)'
    BY <1>1, <1>5, <1>7, <2>1, <2>2 DEF HandOf, Wanted
  <2>. QED BY <1>3, <1>5, <1>7, <2>1, <2>2, <2>3, BecomesHands DEF ObjectsStay
<1>8. CASE RenameObj(p)
  <2> DEFINE r == [bk[p] EXCEPT !.pc = "test", !.hashables = Tail(bk[p].hashables)]
  <2>1. r.pc = "test" /\ Becomes(p, r) /\ bk[p].pc = "rename"
    BY <1>1, <1>8 DEF Run, RenameObj
  <2>2. \A q \in Host : wfd'[q] = None
    BY <1>1, <1>2, <1>3, <1>8, <2>1 DEF HandOf, RenameObj, RenameTmp, Moved
  <2>3. bk'[p] = r => HandOf(p)'
    BY <2>1, <2>2 DEF HandOf
  <2>4. ObjectsStay
    BY <1>1, <1>8, <2>1 DEF HandOf, RenameObj, RenameTmp, Put, ObjectsStay
  <2>. QED BY <1>3, <2>1, <2>2, <2>3, <2>4, BecomesHands
<1>. QED BY <1>4, <1>6, <1>7, <1>8

\* Every step of a backup, its start and its death.
LEMMA BackupHands ==
  ASSUME TypeInv, OneRun, Hands, OneBackup, NEW p \in Host,
         BackupNext(p) \/ CrashBackup(p)
  PROVE  OneRun' /\ Hands' /\ ObjectsStay
<1>1. ASSUME NEW d \in Date, MayStart("backup"), StartBackup(p, d)
      PROVE  OneRun' /\ Hands' /\ ObjectsStay
  <2> DEFINE r == [BackupIdle EXCEPT
                      !.pc = "dir", !.date = d, !.dir = 1,
                      !.hints = IF UseHints THEN hintfile[p] ELSE NoHints]
  <2>1. \A q \in Host : ~ BackingUp(q)
    BY <1>1, FirstRun
  <2>2. \A q \in Host : wfd'[q] = None
    BY <1>1, <2>1 DEF Hands, HandOf, BackingUp, StartBackup
  <2>3. Becomes(p, r) /\ r.pc = "dir"
    BY <1>1 DEF StartBackup, BackupIdle
  <2>4. bk'[p] = r => HandOf(p)'
    BY <2>2, <2>3 DEF HandOf
  <2>5. ObjectsStay
    BY <1>1 DEF StartBackup, ObjectsStay
  <2>. QED BY <2>1, <2>2, <2>3, <2>4, <2>5, BecomesHands
<1>2. CASE SmallShrunk(p) \/ CopyChanged(p) \/ RenameFails(p) \/ CrashBackup(p)
  <2>1. BackingUp(p) /\ ExitBackup(p) /\ objs' = objs
    BY <1>2 DEF SmallShrunk, CopyChanged, RenameFails, CrashBackup, Scanning,
                BackingUp
  <2>. QED BY <2>1, ExitHands
<1>3. CASE \/ EnterDir(p) \/ StoreSmall(p) \/ UseHint(p) \/ HashRead(p)
           \/ HashDone(p) \/ ScanDone(p) \/ TestExists(p) \/ DirDone(p)
           \/ Finish(p) \/ SaveHints(p) \/ Publish(p)
  <2>1. /\ BackingUp(p) /\ bk[p].pc # "copy" /\ UNCHANGED <<objs, tmps, wfd>>
        /\ \E r : Becomes(p, r) /\ QuietNext(p, r)
    BY <1>3, QuietSteps
  <2>2. PICK r : Becomes(p, r) /\ QuietNext(p, r)
    BY <2>1
  <2>3. \A q \in Host \ {p} : ~ BackingUp(q) /\ wfd'[q] = None
    BY <2>1, OthersHands
  <2>4. wfd'[p] = None
    BY <2>1 DEF Hands, HandOf
  <2>5. bk'[p] = r => HandOf(p)'
    BY <2>1, <2>2, <2>4 DEF HandOf, QuietNext, Wanted
  <2>. QED BY <2>1, <2>2, <2>3, <2>5, BecomesHands DEF ObjectsStay
<1>. QED BY <1>1, <1>2, <1>3, StoreHands DEF BackupNext, BackupStep

----------------------------------------------------------------------------
\* A descriptor that is on no object is on none after a name is taken away.
LEMMA MovedHands ==
  ASSUME TypeInv, Hands, bk' = bk, NEW h,
         NEW to \in [{"tmp", "obj", "gone"} -> {"tmp", "gone"}],
         wfd' = Moved(h, to), DOMAIN objs' \subseteq DOMAIN objs
  PROVE  Hands'
<1> SUFFICES ASSUME NEW p \in Host PROVE HandOf(p)'
  BY DEF Hands
<1>1. HandOf(p) /\ wfd \in [Host -> {None} \cup WriteFd]
  BY DEF Hands, TypeInv, TypeOK, MediumTypeOK
<1>2. wfd[p] = None => wfd'[p] = None
  BY DEF Moved
<1>3. ASSUME wfd[p] # None, wfd[p].at # "obj"
      PROVE  wfd'[p] # None /\ wfd'[p].hash = wfd[p].hash /\ wfd'[p].at # "obj"
  <2>1. wfd[p] \in WriteFd
    BY <1>1, <1>3
  <2>2. CASE wfd[p].hash = h
    <3>1. wfd'[p] = [wfd[p] EXCEPT !.at = to[wfd[p].at]]
      BY <1>3, <2>2 DEF Moved
    <3>2. to[wfd[p].at] \in {"tmp", "gone"}
      BY <2>1 DEF WriteFd
    <3>3. wfd'[p] \in WriteFd /\ wfd'[p].hash = wfd[p].hash /\ wfd'[p].at # "obj"
      BY <2>1, <3>1, <3>2 DEF WriteFd
    <3>. QED BY <3>3, NoFd
  <2>3. CASE wfd[p].hash # h
    BY <1>3, <2>3 DEF Moved
  <2>. QED BY <2>2, <2>3
<1>. QED BY <1>1, <1>2, <1>3 DEF HandOf, Wanted

\* A cleanup gives no descriptor an object.
LEMMA CleanupHands ==
  ASSUME TypeInv, Hands, CleanupNext \/ CrashCleanup
  PROVE  Hands'
<1>1. bk' = bk
  BY DEF CleanupNext, CrashCleanup
<1>2. \/ UNCHANGED <<objs, tmps, wfd>>
      \/ \E h : RemoveObj(h)
      \/ \E h : RemoveTmp(h) /\ objs' = objs
  BY DEF CleanupNext, CrashCleanup, StartCleanup, CleanupStep, MarkIndex,
         MarkFails, MarkDone, ListRepo, SweepFile, SweepFails, CheckFile,
         CheckUnreadable, Verdict, RemoveFile, RemoveFails, RemoveGone,
         SweepDone, medium
<1>3. CASE UNCHANGED <<objs, tmps, wfd>>
  BY <1>1, <1>3 DEF Hands, HandOf, Wanted
<1>4. ASSUME NEW h, RemoveObj(h) PROVE Hands'
  BY <1>1, <1>4, MovedHands DEF RemoveObj, Drop
<1>5. ASSUME NEW h, RemoveTmp(h), objs' = objs PROVE Hands'
  <2> DEFINE to == [tmp |-> "gone", obj |-> "obj", gone |-> "gone"]
             go == [tmp |-> "gone", obj |-> "gone", gone |-> "gone"]
  <2>1. wfd' = Moved(h, go)
    <3>1. ASSUME NEW p \in Host, wfd[p] # None PROVE wfd[p].at \in {"tmp", "gone"}
      <4>1. wfd[p] \in WriteFd
        BY <3>1 DEF TypeInv, TypeOK, MediumTypeOK
      <4>2. wfd[p].at # "obj"
        BY <3>1 DEF Hands, HandOf
      <4>. QED BY <4>1, <4>2 DEF WriteFd
    <3>2. \A a \in {"tmp", "gone"} : to[a] = go[a]
      OBVIOUS
    <3> HIDE DEF to, go
    <3>3. wfd' = Moved(h, to)
      BY <1>5 DEF RemoveTmp, to
    <3>. QED BY <3>1, <3>2, <3>3 DEF Moved
  <2>. QED BY <1>1, <1>5, <2>1, MovedHands
<1>. QED BY <1>2, <1>3, <1>4, <1>5

\* A verification does not either.
LEMMA VerifyHands ==
  ASSUME TypeInv, Hands, VerifyNext \/ CrashVerify
  PROVE  Hands'
<1>1. bk' = bk
  BY DEF VerifyNext, CrashVerify
<1>2. UNCHANGED <<objs, wfd>> \/ \E h : RemoveObj(h)
  BY DEF VerifyNext, CrashVerify, StartVerify, VerifyStep, VerifyGood,
         VerifyMismatch, RemoveWrong, VerifyMissing, VerifyDone, medium
<1>3. CASE UNCHANGED <<objs, wfd>>
  BY <1>1, <1>3 DEF Hands, HandOf, Wanted
<1>4. ASSUME NEW h, RemoveObj(h) PROVE Hands'
  BY <1>1, <1>4, MovedHands DEF RemoveObj, Drop
<1>. QED BY <1>2, <1>3, <1>4

\* A verification starts without a cleanup, and a cleanup without it.
LEMMA VerifyApart ==
  ASSUME CleanupVerifyApart
  PROVE  /\ MayStart("verify") => ~ Cleaning
         /\ MayStart("cleanup") => ~ Verifying
<1>1. {"verify", "cleanup"} = {"cleanup", "verify"}
  OBVIOUS
<1>. QED BY <1>1 DEF MayStart, Running, Operation, CleanupVerifyApart

\* A step of the verification adds what it has seen to what it knows.
LEMMA VerifySeen ==
  ASSUME TypeInv, Seen, StillWrong, VerifyNext \/ CrashVerify
  PROVE  Seen' /\ StillWrong'
<1>1. vf \in Check
  BY DEF TypeInv, TypeOK, VerifyTypeOK
<1>2. ASSUME NEW n, StartVerify(n) PROVE Seen' /\ StillWrong'
  BY <1>2 DEF StartVerify, Seen, StillWrong
<1>3. ASSUME NEW h \in vf.left, VerifyGood(h) PROVE Seen' /\ StillWrong'
  <2>1. /\ vf'.index = vf.index /\ vf'.left = vf.left \ {h}
        /\ vf'.ok => vf.ok
        /\ objs' = objs /\ h \in DOMAIN objs /\ Intact(h) /\ Verifying
        /\ vf'.pc = "verify"
    BY <1>1, <1>3 DEF VerifyGood, Visited, Check, SameHash, Intact, medium,
                      Verifying
  <2>. QED BY <2>1 DEF Seen, HashesOf, Intact, StillWrong
<1>4. ASSUME NEW h, VerifyMissing(h) PROVE Seen' /\ StillWrong'
  <2>1. vf'.ok = FALSE /\ vf'.pc = "verify"
    BY <1>1, <1>4 DEF VerifyMissing, Visited, Check
  <2>. QED BY <2>1 DEF Seen, StillWrong
<1>5. ASSUME NEW h, VerifyMismatch(h) PROVE Seen' /\ StillWrong'
  <2>1. vf'.ok = FALSE /\ (vf'.pc = "remove" => vf'.wrong = h)
    BY <1>1, <1>5 DEF VerifyMismatch, Check
  <2>2. objs' = objs /\ h \in DOMAIN objs /\ ~ Intact(h)
    BY <1>5 DEF VerifyMismatch, SameHash, Intact, medium
  <2>. QED BY <2>1, <2>2 DEF Seen, StillWrong, Intact
<1>6. CASE RemoveWrong
  <2>1. vf'.ok = vf.ok /\ vf'.pc = "verify" /\ vf.pc = "remove"
    BY <1>1, <1>6 DEF RemoveWrong, Check
  <2>. QED BY <2>1 DEF Seen, StillWrong
<1>7. CASE vf' = VerifyIdle
  BY <1>7 DEF Seen, Verifying, VerifyIdle, StillWrong
<1>. QED
  BY <1>2, <1>3, <1>4, <1>5, <1>6, <1>7
     DEF VerifyNext, CrashVerify, VerifyStep, VerifyDone

\* Steps of others that change no object.
LEMMA OthersSeen ==
  ASSUME Seen, StillWrong, vf' = vf, Verifying => ObjectsStay
  PROVE  Seen' /\ StillWrong'
BY DEF Seen, StillWrong, Verifying, ObjectsStay, Intact, HashesOf

\* The invariant holds at first and every step keeps it.
LEMMA InitSeen == Init => SeenInv
BY DEF Init, MediumInit, BackupInit, VerifyInit, BackupIdle, VerifyIdle,
       SeenInv, OneRun, BackingUp, Hands, HandOf, VerifyAlone, Verifying, Seen,
       StillWrong

LEMMA NextSeen ==
  ASSUME OneBackup, CleanupVerifyApart
  PROVE  TypeInv /\ SeenInv /\ [Next]_vars => SeenInv'
<1> SUFFICES ASSUME TypeInv, SeenInv, [Next]_vars PROVE SeenInv'
  OBVIOUS
<1> USE DEF SeenInv
<1>1. ASSUME NEW p \in Host, BackupNext(p) \/ CrashBackup(p) PROVE SeenInv'
  <2>1. OneRun' /\ Hands' /\ ObjectsStay
    BY <1>1, BackupHands
  <2>2. vf' = vf /\ cl' = cl
    BY <1>1 DEF BackupNext, CrashBackup
  <2>. QED BY <2>1, <2>2, OthersSeen DEF VerifyAlone, Verifying, Cleaning
<1>2. CASE CleanupNext \/ CrashCleanup
  <2>1. Hands' /\ OneRun' /\ vf' = vf
    BY <1>2, CleanupHands DEF CleanupNext, CrashCleanup, OneRun, BackingUp
  <2>2. ~ Verifying
    BY <1>2, VerifyApart
       DEF CleanupNext, CrashCleanup, VerifyAlone, Cleaning, CleanupStep,
           MarkIndex, MarkFails, MarkDone, ListRepo, SweepFile, SweepFails,
           CheckFile, CheckUnreadable, Verdict, RemoveFile, RemoveFails,
           RemoveGone, SweepDone
  <2>. QED BY <2>1, <2>2, OthersSeen DEF VerifyAlone, Verifying
<1>3. CASE VerifyNext \/ CrashVerify
  <2>1. Hands' /\ OneRun' /\ cl' = cl
    BY <1>3, VerifyHands DEF VerifyNext, CrashVerify, OneRun, BackingUp
  <2>2. ~ Cleaning
    BY <1>3, VerifyApart
       DEF VerifyNext, CrashVerify, VerifyAlone, Verifying, VerifyStep,
           VerifyGood, VerifyMismatch, RemoveWrong, VerifyMissing, VerifyDone
  <2>. QED BY <1>3, <2>1, <2>2, VerifySeen DEF VerifyAlone, Cleaning
<1>4. CASE Environment \/ UNCHANGED vars
  <2>1. UNCHANGED <<objs, wfd, bk, cl, vf>>
    BY <1>4 DEF Environment, Edit, Tick, DeleteIndex, vars, mvars
  <2>2. Hands'
    BY <2>1 DEF Hands, HandOf, Wanted
  <2>. QED
    BY <2>1, <2>2, OthersSeen
       DEF OneRun, BackingUp, VerifyAlone, Verifying, Cleaning, ObjectsStay
<1>. QED BY <1>1, <1>2, <1>3, <1>4 DEF Next

\* A verification that has reported no error is right about every object it
\* has passed, and stays right till it ends (verify.cc:30-56): also if a
\* backup goes on meanwhile, if that backup does not recheck its hashes, and
\* whether or not wrong objects are removed.
THEOREM VerificationRight ==
  ASSUME OneBackup, CleanupVerifyApart
  PROVE  Spec => []VerifySound
<1>1. TypeInv /\ SeenInv /\ [Next]_vars => (TypeInv /\ SeenInv)'
  BY NextType, NextSeen
<1>2. SeenInv => VerifySound
  BY DEF SeenInv, Seen, Verifying, VerifySound
<1>. QED BY InitType, InitSeen, <1>1, <1>2, PTL DEF Spec

----------------------------------------------------------------------------
(***************************************************************************)
(* What goes away.  Cleanup and verification judge an object in one step   *)
(* and remove what has its name in another.  A good object that came to    *)
(* that name in between would go: two backups that overlap can do that     *)
(* (one of them found the name free before the wrong object was stored),   *)
(* or a backup after a cleanup has made room for it.                       *)
(***************************************************************************)
\* A backup takes no object away.
LEMMA BackupAdds ==
  ASSUME NEW p \in Host, BackupNext(p) \/ CrashBackup(p)
  PROVE  DOMAIN objs \subseteq DOMAIN objs'
<1>1. CASE RenameObj(p)
  BY <1>1 DEF RenameObj, RenameTmp, Put
<1>2. CASE CopyRead(p) \/ CopyDone(p)
  BY <1>2 DEF CopyRead, CopyDone, WriteHeld, WriteBlock
<1>3. CASE ~ (RenameObj(p) \/ CopyRead(p) \/ CopyDone(p))
  BY <1>3 DEF BackupNext, StartBackup, BackupStep, CrashBackup, EnterDir,
       StoreSmall, SmallShrunk, UseHint, HashRead, HashDone, ScanDone,
       TestExists, OpenTmp, CopyChanged, RenameFails, DirDone, Finish,
       SaveHints, Publish, Record, medium
<1>. QED BY <1>1, <1>2, <1>3

\* A cleanup takes an object away if it is wrong or no index needs it.
LEMMA CleanupRemoves ==
  ASSUME CleanInv, ReadsSucceed, CleanupNext \/ CrashCleanup,
         NEW h \in DOMAIN objs \ DOMAIN objs', Intact(h), NEW n \in DOMAIN idx
  PROVE  h \notin HashesOf(idx[n])
<1>1. RemoveFile
  BY DEF CleanupNext, CrashCleanup, StartCleanup, CleanupStep, MarkIndex,
         MarkFails, MarkDone, ListRepo, SweepFile, SweepFails, CheckFile,
         CheckUnreadable, Verdict, RemoveFails, RemoveGone, SweepDone, medium
<1>2. cl.pc = "remove" /\ cl.file[2] = "obj" /\ cl.file[1] = h
  BY <1>1 DEF RemoveFile, RemoveObj, Drop
<1>3. ~ Keep(cl.file)
  BY <1>2 DEF CleanInv, Condemned
<1>4. h \notin cl.needed
  BY <1>2, <1>3 DEF Keep
<1>. QED BY <1>2, <1>4 DEF CleanInv, Marked, SweepInformed

\* A verification takes an object away if it is wrong.
LEMMA VerifyRemoves ==
  ASSUME StillWrong, VerifyNext \/ CrashVerify,
         NEW h \in DOMAIN objs \ DOMAIN objs'
  PROVE  ~ Intact(h)
<1>1. RemoveWrong /\ RemoveObj(vf.wrong)
  BY DEF VerifyNext, CrashVerify, StartVerify, VerifyStep, VerifyGood,
         VerifyMismatch, RemoveWrong, VerifyMissing, VerifyDone, medium
<1>. QED BY <1>1 DEF RemoveWrong, StillWrong, RemoveObj, Drop

\* No step takes away an object that is intact and that an index needs,
\* published or not.
LEMMA NeededStays ==
  ASSUME CleanInv, StillWrong, ReadsSucceed, [Next]_vars,
         NEW h \in DOMAIN objs \ DOMAIN objs', Intact(h), NEW n \in DOMAIN idx
  PROVE  h \notin HashesOf(idx[n])
<1>1. ASSUME NEW p \in Host, BackupNext(p) \/ CrashBackup(p) PROVE FALSE
  BY <1>1, BackupAdds
<1>2. CASE CleanupNext \/ CrashCleanup
  BY <1>2, CleanupRemoves
<1>3. CASE VerifyNext \/ CrashVerify
  BY <1>3, VerifyRemoves
<1>4. CASE Environment \/ UNCHANGED vars
  BY <1>4 DEF Environment, Edit, Tick, DeleteIndex, vars, mvars
<1>. QED BY <1>1, <1>2, <1>3, <1>4 DEF Next

\* Verification and cleanup take away no object that is both intact and needed
\* (cleanup.cc:92-136, verify.cc:42-46), whatever indexes are deleted and edits
\* made meanwhile, with or without rechecked hashes, and also while a backup
\* and a verification overlap; if backups come one at a time, no cleanup goes on
\* during a backup or a verification and, with --detect-bogus, objects can be
\* read.  Without the first a second backup may complete a wrong object between
\* the hash and the removal; without the last the run read_error removes one.
THEOREM NeededNotDeleted ==
  ASSUME OneBackup, CleanupsAlone, CleanupVerifyApart, ReadsSucceed
  PROVE  Spec => OnlyWrongDeleted
<1>1. CleanInv /\ SeenInv /\ [Next]_vars =>
         [\A h \in DOMAIN objs \ DOMAIN objs' :
             Intact(h) => \A n \in Published : h \notin HashesOf(idx[n])]_vars
  BY NeededStays DEF Published, SeenInv
<1>2. TypeInv /\ SeenInv /\ [Next]_vars => (TypeInv /\ SeenInv)'
  BY NextType, NextSeen
<1>. QED
  BY InitType, InitSeen, <1>1, <1>2, AlwaysClean, PTL DEF Spec, OnlyWrongDeleted

----------------------------------------------------------------------------
(***************************************************************************)
(* What backup says of a file that does not change: the line it writes and *)
(* the hint it leaves describe that file, whatever is edited between the   *)
(* reads of its blocks, however often runs die, however old the hint and   *)
(* whatever runs overlap.                                                  *)
(*                                                                         *)
(* No stamp is later than that of the file now, so an edit that does not   *)
(* fall into the second of an earlier one outdates all stat data and hints *)
(* there are.  While a file is hashed that has not changed since its stat, *)
(* what was read is a beginning of it.                                     *)
(***************************************************************************)
\* The hint k for a file that is now s.
HintRight(k, s) ==
    k # None =>
       /\ k.stamp <= s.stamp
       /\ HintFits(k, StatOf(s)) /\ ~ s.again => k.hash = Hash(s.data)

\* What the stat data st tell of a file that is now s.
Same(st, s) == StatOf(s) = st /\ ~ s.again

\* What was read of a file that is now s, with the stat data st.
ReadRight(c, st, s) ==
    Same(st, s) => /\ Len(c) <= Len(s.data)
                   /\ \A i \in 1 .. Len(c) : c[i] = s.data[i]

LineRight(x, f, st, s) ==
    st # None /\ Same(st, s) => /\ x.data[f] \in {None, s.data}
                                /\ x.sha1[f] \in {None, Hash(s.data)}

\* The files of directories not yet entered, and those listed, for a run r.
NotEntered(r, e) == IF r.pc = "dir" THEN e >= r.dir ELSE e > r.dir

Hashing(r) == r.pc = "scan" /\ r.todo # <<>> /\ r.stat[Head(r.todo)].size > StoreLimit

\* Nothing is read ahead of its file.
Context(r) == r.pc # "copy" /\ ~ Hashing(r) => r.ctx = <<>>

FileOf(p, f) ==
    LET r == bk[p]  s == src[p][f] IN
    /\ s.stamp <= clock
    /\ HintRight(hintfile[p][f], s)
    /\ HintRight(r.hints[f], s)
    /\ HintRight(r.newhints[f], s)
    /\ r.stat[f] # None => r.stat[f].stamp <= s.stamp
    /\ Hashing(r) /\ f = Head(r.todo) => ReadRight(r.ctx, r.stat[f], s)
    /\ BackingUp(p) /\ Draft(p) \in DOMAIN idx => LineRight(idx[Draft(p)], f, r.stat[f], s)

\* The lines of a directory are written after it is entered.
TodoOf(p) ==
    /\ Context(bk[p])
    /\ bk[p].pc = "scan" =>
          /\ bk[p].dir \in DOMAIN Tree
          /\ \A i \in 1 .. Len(bk[p].todo) : bk[p].todo[i] \in FilesIn(bk[p].dir)
    /\ BackingUp(p) /\ Draft(p) \in DOMAIN idx =>
          \A e \in DOMAIN Tree : NotEntered(bk[p], e) =>
             \A f \in FilesIn(e) : /\ idx[Draft(p)].data[f] = None
                                   /\ idx[Draft(p)].sha1[f] = None

HintInv == \A p \in Host : TodoOf(p) /\ \A f \in File : FileOf(p, f)

HostOf(p) == TodoOf(p) /\ \A f \in File : FileOf(p, f)

----------------------------------------------------------------------------
(***************************************************************************)
(* Files.                                                                  *)
(***************************************************************************)
\* The stat data of a file have its stamp and its size.
LEMMA StatFacts ==
  ASSUME TypeInv, NEW p \in Host, NEW f \in File
  PROVE  /\ src[p][f].data \in Bytes /\ Len(src[p][f].data) \in Nat
         /\ src[p][f].stamp \in Nat /\ StatOf(src[p][f]) \in Stat
         /\ StatOf(src[p][f]).stamp = src[p][f].stamp
         /\ StatOf(src[p][f]).size = Len(src[p][f].data)
<1>1. src[p][f].data \in Bytes /\ src[p][f].stamp \in Nat
  BY Parts DEF TypeInv
<1>2. Len(src[p][f].data) \in Nat
  BY <1>1, LenProperties DEF Bytes
<1>. QED BY <1>1, <1>2 DEF StatOf, Stat

\* A run, the files it has listed and the hints it goes by.
LEMMA RunTypes ==
  ASSUME TypeInv, NEW p \in Host
  PROVE  /\ bk \in [Host -> Run] /\ bk[p] \in Run /\ RunShape(bk[p])
         /\ bk[p].stat \in [File -> {None} \cup Stat]
         /\ bk[p].hints \in Hints /\ bk[p].newhints \in Hints
         /\ bk[p].todo \in Seq(File) /\ bk[p].ctx \in Bytes /\ bk[p].dir \in Nat
         /\ IsMap(idx, IndexName, IndexFile)
         /\ hintfile \in [Host -> Hints] /\ clock \in Nat
BY Parts DEF TypeInv, TypeOK, MediumTypeOK, Shape, ShapeOf, Run

\* The order of directories.
LEMMA Directories ==
  ASSUME NEW d \in DOMAIN Tree, NEW e \in DOMAIN Tree, e > d,
         NEW f \in FilesIn(d)
  PROVE  f \notin FilesIn(e)
<1>1. d \in Nat /\ e \in Nat
  BY NamesAssumption, LenProperties
<1>2. d # e
  BY <1>1
<1>. QED BY <1>2, PathsAssumption DEF FilesIn

----------------------------------------------------------------------------
(***************************************************************************)
(* Steps that write no line.                                               *)
(***************************************************************************)
\* The files, hints, run and draft of p stay the same.
LEMMA HostStays ==
  ASSUME NEW p \in Host, HostOf(p), src'[p] = src[p], clock' = clock,
         hintfile'[p] = hintfile[p], bk'[p] = bk[p],
         BackingUp(p) /\ Draft(p) \in DOMAIN idx' =>
            Draft(p) \in DOMAIN idx /\ idx'[Draft(p)] = idx[Draft(p)]
  PROVE  HostOf(p)'
<1>1. Draft(p)' = Draft(p) /\ (BackingUp(p)' <=> BackingUp(p))
  BY DEF Draft, BackingUp
<1>2. TodoOf(p)'
  BY <1>1 DEF HostOf, TodoOf, Context, Hashing, NotEntered
<1>3. ASSUME NEW f \in File PROVE FileOf(p, f)'
  BY <1>1 DEF HostOf, FileOf, HintRight, ReadRight, LineRight, Same, Hashing
<1>. QED BY <1>2, <1>3 DEF HostOf

\* A step of the run of p that neither writes a line nor reads a file for its
\* hash.
LEMMA RunMovesOn ==
  ASSUME NEW p \in Host, HostOf(p), BackingUp(p),
         UNCHANGED <<src, clock>>,
         \A f \in File : hintfile'[p][f] \in {hintfile[p][f], bk[p].newhints[f]},
         NEW r, bk'[p] = r, r.hints = bk[p].hints, r.newhints = bk[p].newhints,
         r.stat = bk[p].stat, r.date = bk[p].date,
         Draft(p) \in DOMAIN idx' =>
            /\ Draft(p) \in DOMAIN idx
            /\ idx'[Draft(p)].data = idx[Draft(p)].data
            /\ idx'[Draft(p)].sha1 = idx[Draft(p)].sha1,
         r.pc # "scan", r.pc # "copy" => r.ctx = <<>>,
         \A e \in DOMAIN Tree : NotEntered(r, e) => NotEntered(bk[p], e)
  PROVE  HostOf(p)'
<1>1. Draft(p)' = Draft(p)
  BY DEF Draft
<1>2. TodoOf(p)'
  <2>1. Context(bk[p])'
    BY DEF Context
  <2>2. BackingUp(p)' /\ Draft(p)' \in DOMAIN idx' =>
          \A e \in DOMAIN Tree : NotEntered(r, e) =>
             \A f \in FilesIn(e) : /\ idx'[Draft(p)].data[f] = None
                                   /\ idx'[Draft(p)].sha1[f] = None
    BY <1>1 DEF HostOf, TodoOf
  <2>. QED BY <1>1, <2>1, <2>2 DEF TodoOf, NotEntered
<1>3. ASSUME NEW f \in File PROVE FileOf(p, f)'
  <2>1. FileOf(p, f)
    BY DEF HostOf
  <2>2. ~ Hashing(bk[p])'
    BY DEF Hashing
  <2>3. HintRight(hintfile[p][f], src[p][f])'
    BY <2>1 DEF FileOf, HintRight
  <2>4. (BackingUp(p) /\ Draft(p) \in DOMAIN idx
            => LineRight(idx[Draft(p)], f, bk[p].stat[f], src[p][f]))'
    BY <1>1, <2>1 DEF FileOf, LineRight, Same
  <2>. QED BY <2>1, <2>2, <2>3, <2>4 DEF FileOf, HintRight
<1>. QED BY <1>2, <1>3 DEF HostOf

\* The steps of the second pass and of the end change only these parts of a
\* run, and no hint file but that of p.
LEMMA PassKeepsHints ==
  ASSUME TypeInv, NEW p \in Host, Context(bk[p]),
         \/ ScanDone(p) \/ TestExists(p) \/ OpenTmp(p) \/ CopyRead(p)
         \/ CopyDone(p) \/ RenameObj(p) \/ Finish(p) \/ SaveHints(p)
  PROVE  LET r == bk'[p] IN
         /\ bk[p].pc # "idle" /\ bk[p].pc # "dir"
         /\ r.hints = bk[p].hints /\ r.newhints = bk[p].newhints
         /\ r.stat = bk[p].stat /\ r.date = bk[p].date /\ r.dir = bk[p].dir
         /\ r.pc # "scan" /\ r.pc # "dir" /\ (r.pc # "copy" => r.ctx = <<>>)
<1>1. bk[p] \in Run /\ bk \in [Host -> Run]
  BY RunTypes
<1> DEFINE R(pc, ctx, h) == [bk[p] EXCEPT !.pc = pc, !.ctx = ctx, !.hashables = h]
<1>2. ASSUME NEW pc \in {"test", "open", "copy", "rename", "hints", "publish"},
             NEW ctx, NEW h, bk'[p] = R(pc, ctx, h), pc # "copy" => ctx = <<>>,
             bk[p].pc # "idle", bk[p].pc # "dir"
      PROVE  LET r == bk'[p] IN
             /\ bk[p].pc # "idle" /\ bk[p].pc # "dir"
             /\ r.hints = bk[p].hints /\ r.newhints = bk[p].newhints
             /\ r.stat = bk[p].stat /\ r.date = bk[p].date /\ r.dir = bk[p].dir
             /\ r.pc # "scan" /\ r.pc # "dir" /\ (r.pc # "copy" => r.ctx = <<>>)
  BY <1>1, <1>2 DEF Run
<1>3. bk[p].pc \notin {"copy", "scan"} => bk[p].ctx = <<>>
  BY DEF Context, Hashing
<1>4. CASE ScanDone(p)
  <2>1. bk[p].ctx = <<>>
    BY <1>4 DEF ScanDone, Context, Hashing
  <2>2. bk'[p] = R("test", <<>>, bk[p].hashables)
    BY <1>1, <1>4, <2>1 DEF ScanDone, Becomes, Run
  <2>. QED BY <1>2, <1>4, <2>2 DEF ScanDone
<1>5. CASE TestExists(p)
  <2>1. bk[p].pc = "test" /\ bk[p].ctx = <<>>
    BY <1>3, <1>5 DEF TestExists
  <2>2. CASE Stored(Wanted(p))
    <3>1. bk'[p] = [bk[p] EXCEPT !.hashables = Tail(bk[p].hashables)]
      BY <1>1, <1>5, <2>2 DEF TestExists, Becomes
    <3>2. bk'[p] = R("test", <<>>, Tail(bk[p].hashables))
      BY <1>1, <2>1, <3>1 DEF Run
    <3>. QED BY <1>2, <2>1, <3>2
  <2>3. CASE ~ Stored(Wanted(p))
    <3>1. bk'[p] = [bk[p] EXCEPT !.pc = "open"]
      BY <1>1, <1>5, <2>3 DEF TestExists, Becomes
    <3>2. bk'[p] = R("open", <<>>, bk[p].hashables)
      BY <1>1, <2>1, <3>1 DEF Run
    <3>. QED BY <1>2, <2>1, <3>2
  <2>. QED BY <2>2, <2>3
<1>6. CASE OpenTmp(p)
  <2>1. bk'[p] = R("copy", <<>>, bk[p].hashables)
    BY <1>1, <1>6 DEF OpenTmp, Becomes, Run
  <2>. QED BY <1>2, <1>6, <2>1 DEF OpenTmp
<1>7. CASE CopyRead(p)
  <2> DEFINE c == Append(bk[p].ctx, src[p][Source(p)].data[Len(bk[p].ctx) + 1])
  <2>1. bk'[p] = R("copy", c, bk[p].hashables)
    BY <1>1, <1>7 DEF CopyRead, ReadBlock, Becomes, Run
  <2>. QED BY <1>2, <1>7, <2>1 DEF CopyRead
<1>8. CASE CopyDone(p)
  <2>1. bk'[p] = R("rename", <<>>, bk[p].hashables)
    BY <1>1, <1>8 DEF CopyDone, Becomes, Run
  <2>. QED BY <1>2, <1>8, <2>1 DEF CopyDone
<1>9. CASE RenameObj(p)
  <2>1. bk'[p] = R("test", <<>>, Tail(bk[p].hashables))
    BY <1>1, <1>3, <1>9 DEF RenameObj, Becomes, Run
  <2>. QED BY <1>2, <1>9, <2>1 DEF RenameObj
<1>10. CASE Finish(p)
  <2>1. \/ bk'[p] = R("hints", <<>>, bk[p].hashables)
        \/ bk'[p] = R("publish", <<>>, bk[p].hashables)
    BY <1>1, <1>3, <1>10 DEF Finish, Becomes, Run
  <2>. QED BY <1>2, <1>10, <2>1 DEF Finish
<1>11. CASE SaveHints(p)
  <2>1. bk'[p] = R("publish", <<>>, bk[p].hashables)
    BY <1>1, <1>3, <1>11 DEF SaveHints, Becomes, Run
  <2>. QED BY <1>2, <1>11, <2>1 DEF SaveHints
<1>. QED BY <1>4, <1>5, <1>6, <1>7, <1>8, <1>9, <1>10, <1>11

\* The steps of the second pass and of the end.
LEMMA SecondPassHost ==
  ASSUME TypeInv, NEW p \in Host, HostOf(p),
         \/ ScanDone(p) \/ TestExists(p) \/ OpenTmp(p) \/ CopyRead(p)
         \/ CopyDone(p) \/ RenameObj(p) \/ Finish(p) \/ SaveHints(p)
  PROVE  HostOf(p)'
<1> DEFINE r == bk'[p]
<1>1. Context(bk[p])
  BY DEF HostOf, TodoOf
<1>2. /\ bk[p].pc # "idle" /\ bk[p].pc # "dir"
      /\ r.hints = bk[p].hints /\ r.newhints = bk[p].newhints
      /\ r.stat = bk[p].stat /\ r.date = bk[p].date /\ r.dir = bk[p].dir
      /\ r.pc # "scan" /\ r.pc # "dir" /\ (r.pc # "copy" => r.ctx = <<>>)
  BY <1>1, PassKeepsHints
<1>3. UNCHANGED <<src, clock>>
  BY DEF ScanDone, TestExists, OpenTmp, CopyRead, CopyDone, RenameObj,
     Finish, SaveHints, files, medium
<1>4. \A f \in File : hintfile'[p][f] \in {hintfile[p][f], bk[p].newhints[f]}
  BY RunTypes DEF ScanDone, TestExists, OpenTmp, CopyRead, CopyDone, RenameObj,
     Finish, SaveHints, files
<1>5. Draft(p) \in DOMAIN idx' =>
         /\ Draft(p) \in DOMAIN idx
         /\ idx'[Draft(p)].data = idx[Draft(p)].data
         /\ idx'[Draft(p)].sha1 = idx[Draft(p)].sha1
  <2>1. CASE Finish(p)
    BY <2>1, RunTypes DEF Finish, IsMap, IndexFile
  <2>2. CASE ~ Finish(p)
    BY <2>2 DEF ScanDone, TestExists, OpenTmp, CopyRead, CopyDone, RenameObj,
       SaveHints, medium
  <2>. QED BY <2>1, <2>2
<1>6. \A e \in DOMAIN Tree : NotEntered(r, e) => NotEntered(bk[p], e)
  BY <1>2 DEF NotEntered
<1>7. BackingUp(p)
  BY <1>2 DEF BackingUp
<1> HIDE DEF r
<1>8. bk'[p] = r
  BY DEF r
<1>. QED BY <1>2, <1>3, <1>4, <1>5, <1>6, <1>7, <1>8, RunMovesOn

\* backup_dir moves on to the next directory.
LEMMA DirDoneHost ==
  ASSUME TypeInv, NEW p \in Host, HostOf(p), DirDone(p)
  PROVE  HostOf(p)'
<1> DEFINE next == bk[p].dir + 1
           r == [bk[p] EXCEPT !.dir = next,
                              !.pc = IF next \in DOMAIN Tree THEN "dir" ELSE "end"]
<1>1. bk'[p] = r
  BY RunTypes DEF DirDone, Becomes
<1>2. /\ r.hints = bk[p].hints /\ r.newhints = bk[p].newhints
      /\ r.stat = bk[p].stat /\ r.date = bk[p].date /\ r.ctx = bk[p].ctx
      /\ r.dir = next /\ r.pc \in {"dir", "end"}
  BY RunTypes DEF Run
<1>3. bk[p].pc = "test" /\ BackingUp(p) /\ bk[p].ctx = <<>>
  BY DEF DirDone, BackingUp, HostOf, TodoOf, Context, Hashing
<1>4. ASSUME NEW e \in DOMAIN Tree, NotEntered(r, e) PROVE NotEntered(bk[p], e)
  <2>1. e \in Nat /\ bk[p].dir \in Nat
    BY NamesAssumption, LenProperties, RunTypes
  <2>. QED BY <1>2, <1>3, <1>4, <2>1 DEF NotEntered
<1>5. UNCHANGED <<src, clock, hintfile, idx>>
  BY DEF DirDone, files, medium
<1> HIDE DEF r
<1>. QED BY <1>1, <1>2, <1>3, <1>4, <1>5, RunMovesOn

----------------------------------------------------------------------------
(***************************************************************************)
(* The first pass.                                                         *)
(***************************************************************************)
\* backup_dir stats the files of a directory: there is no line of them yet.
LEMMA EnterDirHost ==
  ASSUME TypeInv, NEW p \in Host, HostOf(p), EnterDir(p)
  PROVE  HostOf(p)'
<1> DEFINE d == bk[p].dir
           r == [bk[p] EXCEPT !.pc = "scan", !.todo = Tree[d],
                              !.stat = Statted(p, FilesIn(d))]
<1>1. bk'[p] = r
  BY RunTypes DEF EnterDir, Becomes
<1>2. /\ r.hints = bk[p].hints /\ r.newhints = bk[p].newhints
      /\ r.stat = Statted(p, FilesIn(d)) /\ r.date = bk[p].date
      /\ r.ctx = bk[p].ctx /\ r.dir = d /\ r.pc = "scan" /\ r.todo = Tree[d]
  BY RunTypes DEF Run
<1>3. bk[p].pc = "dir" /\ BackingUp(p) /\ bk[p].ctx = <<>> /\ d \in DOMAIN Tree
  BY DEF EnterDir, BackingUp, HostOf, TodoOf, Context, Hashing
<1>4. UNCHANGED <<src, clock, hintfile, idx>>
  BY DEF EnterDir, files, medium
<1>5. d \in Nat /\ NotEntered(bk[p], d)
  BY <1>3, RunTypes DEF NotEntered
<1> HIDE DEF r
<1>6. Draft(p)' = Draft(p)
  BY <1>1, <1>2 DEF Draft
<1>7. TodoOf(p)'
  <2>1. Context(r) /\ d \in DOMAIN Tree
    BY <1>2, <1>3 DEF Context
  <2>2. \A i \in 1 .. Len(Tree[d]) : Tree[d][i] \in FilesIn(d)
    BY <1>3, NamesAssumption, LenProperties DEF FilesIn
  <2>3. ASSUME NEW e \in DOMAIN Tree, NotEntered(r, e) PROVE NotEntered(bk[p], e)
    <3>1. e \in Nat
      BY NamesAssumption, LenProperties
    <3>. QED BY <1>2, <1>3, <1>5, <2>3, <3>1 DEF NotEntered
  <2>4. Draft(p) \in DOMAIN idx => \A e \in DOMAIN Tree : NotEntered(r, e) =>
             \A f \in FilesIn(e) : /\ idx[Draft(p)].data[f] = None
                                   /\ idx[Draft(p)].sha1[f] = None
    BY <1>3, <2>3 DEF HostOf, TodoOf
  <2>5. Context(bk'[p])
    BY <1>1, <2>1
  <2>. QED BY <1>1, <1>2, <1>4, <1>6, <2>1, <2>2, <2>4, <2>5 DEF TodoOf, Context, Hashing, NotEntered
<1>8. ASSUME NEW f \in File PROVE FileOf(p, f)'
  <2> DEFINE s == src[p][f]
  <2>1. FileOf(p, f)
    BY DEF HostOf
  <2>2. r.stat[f] = IF f \in FilesIn(d) THEN StatOf(s) ELSE bk[p].stat[f]
    BY <1>2 DEF Statted
  <2>3. r.stat[f] # None => r.stat[f].stamp <= s.stamp
    BY <2>1, <2>2, StatFacts DEF FileOf
  <2>4. ReadRight(r.ctx, r.stat[f], s)
    BY <1>2, <1>3, StatFacts DEF ReadRight
  <2>5. Draft(p) \in DOMAIN idx => LineRight(idx[Draft(p)], f, r.stat[f], s)
    <3>1. CASE f \in FilesIn(d)
      BY <1>3, <1>5, <3>1 DEF HostOf, TodoOf, LineRight
    <3>2. CASE f \notin FilesIn(d)
      BY <1>3, <2>1, <2>2, <3>2 DEF FileOf
    <3>. QED BY <3>1, <3>2
  <2>6. src'[p][f] = s /\ clock' = clock /\ hintfile' = hintfile /\ idx' = idx
    BY <1>4
  <2> HIDE DEF s
  <2>7. s.stamp <= clock /\ HintRight(hintfile[p][f], s)
        /\ HintRight(r.hints[f], s) /\ HintRight(r.newhints[f], s)
    BY <1>2, <2>1 DEF FileOf, s
  <2>. QED BY <1>1, <1>6, <2>3, <2>4, <2>5, <2>6, <2>7
           DEF FileOf, HintRight, LineRight, ReadRight, Same
<1>. QED BY <1>7, <1>8 DEF HostOf

\* backup_dir has dealt with a file: it wrote at most a right line for it,
\* remembers at most a right hint, and nothing is read of the next file.
LEMMA FileDealtWith ==
  ASSUME TypeInv, NEW p \in Host, HostOf(p), Scanning(p),
         UNCHANGED <<src, clock, hintfile>>,
         NEW r, bk'[p] = r, r.pc = "scan", r.ctx = <<>>,
         r.todo = Tail(bk[p].todo), r.stat = bk[p].stat, r.dir = bk[p].dir,
         r.hints = bk[p].hints, r.date = bk[p].date,
         \A f \in File : HintRight(r.newhints[f], src[p][f]),
         Draft(p) \in DOMAIN idx' => Draft(p) \in DOMAIN idx,
         \A f \in File \ {Current(p)} : Draft(p) \in DOMAIN idx =>
            /\ idx'[Draft(p)].data[f] = idx[Draft(p)].data[f]
            /\ idx'[Draft(p)].sha1[f] = idx[Draft(p)].sha1[f],
         Draft(p) \in DOMAIN idx =>
            LineRight(idx'[Draft(p)], Current(p), bk[p].stat[Current(p)],
                      src[p][Current(p)])
  PROVE  HostOf(p)'
<1>1. Draft(p)' = Draft(p) /\ BackingUp(p)
  BY DEF Draft, Scanning, BackingUp
<1>2. bk[p].todo \in Seq(File) /\ bk[p].todo # <<>> /\ bk[p].dir \in DOMAIN Tree
  BY RunTypes DEF Scanning, HostOf, TodoOf
<1>3. /\ Tail(bk[p].todo) \in Seq(File)
      /\ Len(Tail(bk[p].todo)) = Len(bk[p].todo) - 1
      /\ \A i \in 1 .. Len(Tail(bk[p].todo)) : Tail(bk[p].todo)[i] = bk[p].todo[i + 1]
      /\ Len(bk[p].todo) \in Nat \ {0} /\ Current(p) = bk[p].todo[1]
  BY <1>2, HeadTailProperties, LenProperties, EmptySeq DEF Current
<1>4. Current(p) \in FilesIn(bk[p].dir) /\ Current(p) \in File
  BY <1>2, <1>3, ElementOfSeq DEF HostOf, TodoOf, Scanning
<1>5. TodoOf(p)'
  <2>1. \A i \in 1 .. Len(r.todo) : r.todo[i] \in FilesIn(r.dir)
    <3> SUFFICES ASSUME NEW i \in 1 .. Len(Tail(bk[p].todo))
                 PROVE  Tail(bk[p].todo)[i] \in FilesIn(bk[p].dir)
      OBVIOUS
    <3>1. i + 1 \in 1 .. Len(bk[p].todo)
      BY <1>3
    <3>. QED BY <1>3, <3>1 DEF HostOf, TodoOf, Scanning
  <2>2. Draft(p) \in DOMAIN idx => \A e \in DOMAIN Tree : NotEntered(r, e) =>
             \A f \in FilesIn(e) : /\ idx'[Draft(p)].data[f] = None
                                   /\ idx'[Draft(p)].sha1[f] = None
    <3> SUFFICES ASSUME Draft(p) \in DOMAIN idx, NEW e \in DOMAIN Tree,
                        NotEntered(r, e), NEW f \in FilesIn(e)
                 PROVE  /\ idx'[Draft(p)].data[f] = None
                        /\ idx'[Draft(p)].sha1[f] = None
      OBVIOUS
    <3>1. e > bk[p].dir /\ NotEntered(bk[p], e)
      BY DEF NotEntered, Scanning
    <3>2. f # Current(p)
      BY <1>2, <1>4, <3>1, Directories
    <3>3. f \in File
      BY NamesAssumption, ElementOfSeq, LenProperties DEF FilesIn
    <3>. QED BY <1>1, <3>1, <3>2, <3>3 DEF HostOf, TodoOf
  <2>3. r.dir \in DOMAIN Tree
    BY <1>2
  <2>. QED BY <1>1, <2>1, <2>2, <2>3, ZenonT(60) DEF TodoOf, Context, NotEntered
<1>6. ASSUME NEW f \in File PROVE FileOf(p, f)'
  <2>1. FileOf(p, f)
    BY DEF HostOf
  <2>2. ReadRight(r.ctx, r.stat[f], src[p][f])
    BY StatFacts DEF ReadRight
  <2>3. Draft(p) \in DOMAIN idx => LineRight(idx'[Draft(p)], f, r.stat[f], src[p][f])
    BY <1>1, <2>1 DEF FileOf, LineRight
  <2> DEFINE s == src[p][f]
  <2>4. src'[p][f] = s /\ clock' = clock /\ hintfile' = hintfile
    OBVIOUS
  <2>5. /\ s.stamp <= clock /\ HintRight(hintfile[p][f], s)
        /\ HintRight(r.hints[f], s) /\ HintRight(r.newhints[f], s)
        /\ (r.stat[f] # None => r.stat[f].stamp <= s.stamp)
    BY <2>1 DEF FileOf
  <2>. QED BY <1>1, <2>2, <2>3, <2>4, <2>5
           DEF FileOf, HintRight, LineRight, ReadRight, Same
<1>. QED BY <1>5, <1>6 DEF HostOf

\* A run at a file has listed it, and has its stat data.
LEMMA AtFile ==
  ASSUME TypeInv, NEW p \in Host, Scanning(p)
  PROVE  /\ bk[p].todo \in Seq(File) /\ Len(bk[p].todo) \in Nat \ {0}
         /\ Current(p) \in File /\ Current(p) = bk[p].todo[1]
         /\ bk[p].stat[Current(p)] \in Stat
<1>1. bk[p].todo \in Seq(File) /\ bk[p].todo # <<>> /\ RunShape(bk[p])
  BY RunTypes DEF Scanning
<1>2. Len(bk[p].todo) \in Nat \ {0} /\ Current(p) = bk[p].todo[1]
  BY <1>1, HeadTailProperties, LenProperties, EmptySeq DEF Current
<1>3. Current(p) \in File
  BY <1>1, <1>2, ElementOfSeq
<1>4. bk[p].stat[Current(p)] # None
  BY <1>1, <1>2 DEF RunShape, Scanning
<1>. QED BY <1>1, <1>2, <1>3, <1>4, RunTypes

\* The first st_size bytes of a file that still has that size are all of it.
LEMMA StoreSmallHost ==
  ASSUME TypeInv, NEW p \in Host, HostOf(p), StoreSmall(p)
  PROVE  HostOf(p)'
<1> DEFINE f == Current(p)
           d == src[p][f].data
           n == bk[p].stat[f].size
           r == [bk[p] EXCEPT !.todo = Tail(bk[p].todo)]
<1>1. bk'[p] = r
  BY RunTypes DEF StoreSmall, Becomes
<1>2. Scanning(p) /\ ~ Hashing(bk[p])
  BY DEF StoreSmall, Hashing, Large, Current
<1>3. bk[p].pc = "scan" /\ bk[p].ctx = <<>>
  BY <1>2 DEF Scanning, HostOf, TodoOf, Context
<1>4. /\ r.hints = bk[p].hints /\ r.newhints = bk[p].newhints
      /\ r.stat = bk[p].stat /\ r.date = bk[p].date /\ r.ctx = <<>>
      /\ r.dir = bk[p].dir /\ r.pc = "scan" /\ r.todo = Tail(bk[p].todo)
  BY <1>3, RunTypes DEF Run
<1>5. UNCHANGED <<src, clock, hintfile>>
  BY DEF StoreSmall, files
<1>6. f \in File /\ bk[p].stat[f] \in Stat
  BY <1>2, AtFile
<1>7. idx' = [idx EXCEPT ![Draft(p)].data[f] = SubSeq(d, 1, n)]
  BY DEF StoreSmall
<1>8. DOMAIN idx' = DOMAIN idx
  BY <1>7
<1>9. ASSUME Draft(p) \in DOMAIN idx
      PROVE  /\ idx'[Draft(p)].sha1 = idx[Draft(p)].sha1
             /\ idx'[Draft(p)].data = [idx[Draft(p)].data EXCEPT ![f] = SubSeq(d, 1, n)]
             /\ idx[Draft(p)].data \in [File -> {None} \cup Bytes]
  BY <1>7, <1>9, RunTypes DEF IsMap, IndexFile
<1>10. Same(bk[p].stat[f], src[p][f]) => SubSeq(d, 1, n) = d
  <2>1. d \in Seq(Byte) /\ StatOf(src[p][f]).size = Len(d)
    BY <1>6, StatFacts DEF Bytes
  <2>2. Same(bk[p].stat[f], src[p][f]) => n = Len(d)
    BY <2>1 DEF Same
  <2>. QED BY <2>1, <2>2, SubSeqFull
<1>11. Draft(p) \in DOMAIN idx =>
          LineRight(idx'[Draft(p)], f, bk[p].stat[f], src[p][f])
  <2> SUFFICES ASSUME Draft(p) \in DOMAIN idx,
                      bk[p].stat[f] # None, Same(bk[p].stat[f], src[p][f])
               PROVE  /\ idx'[Draft(p)].data[f] = d
                      /\ idx'[Draft(p)].sha1[f] \in {None, Hash(d)}
    BY DEF LineRight
  <2>1. idx'[Draft(p)].data[f] = d
    BY <1>6, <1>9, <1>10
  <2>2. LineRight(idx[Draft(p)], f, bk[p].stat[f], src[p][f])
    BY <1>2, <1>6 DEF HostOf, FileOf, BackingUp, Scanning
  <2>. QED BY <1>9, <2>1, <2>2 DEF LineRight
<1>12. \A g \in File : HintRight(bk[p].newhints[g], src[p][g])
  BY DEF HostOf, FileOf
<1>13. \A g \in File \ {f} : Draft(p) \in DOMAIN idx =>
          /\ idx'[Draft(p)].data[g] = idx[Draft(p)].data[g]
          /\ idx'[Draft(p)].sha1[g] = idx[Draft(p)].sha1[g]
  BY <1>9
<1> HIDE DEF r, d, n
<1>. QED BY <1>1, <1>2, <1>4, <1>5, <1>8, <1>11, <1>12, <1>13, FileDealtWith

\* A hash that is right for an unchanged file makes a right line and hint.
LEMMA RecordHost ==
  ASSUME TypeInv, NEW p \in Host, HostOf(p), Scanning(p), Large(p),
         NEW h \in HashName, Record(p, h),
         Same(bk[p].stat[Current(p)], src[p][Current(p)])
            => h = Hash(src[p][Current(p)].data)
  PROVE  HostOf(p)'
<1> DEFINE f == Current(p)
           s == src[p][f]
           st == bk[p].stat[f]
           k == IF UseHints THEN HintOf(p, f, h) ELSE None
           q == IF NewHash(p, h) THEN <<[path |-> f, hash |-> h]>> ELSE <<>>
           nh == [bk[p].newhints EXCEPT ![f] = k]
           r == [bk[p] EXCEPT !.todo = Tail(bk[p].todo), !.ctx = <<>>,
                              !.newhints = nh, !.hashables = bk[p].hashables \o q,
                              !.inrepo = bk[p].inrepo \cup {h}]
<1>1. bk'[p] = r
  BY RunTypes DEF Record, Becomes
<1>2. /\ r.hints = bk[p].hints /\ r.newhints = nh
      /\ r.stat = bk[p].stat /\ r.date = bk[p].date /\ r.ctx = <<>>
      /\ r.dir = bk[p].dir /\ r.pc = "scan" /\ r.todo = Tail(bk[p].todo)
  BY RunTypes DEF Run, Scanning
<1>3. UNCHANGED <<src, clock, hintfile>>
  BY DEF Record, files
<1>4. f \in File /\ st \in Stat /\ st # None
  BY AtFile, NoneAssumption
<1>5. idx' = [idx EXCEPT ![Draft(p)].sha1[f] = h] /\ DOMAIN idx' = DOMAIN idx
  BY DEF Record
<1>6. ASSUME Draft(p) \in DOMAIN idx
      PROVE  /\ idx'[Draft(p)].data = idx[Draft(p)].data
             /\ idx'[Draft(p)].sha1 = [idx[Draft(p)].sha1 EXCEPT ![f] = h]
             /\ idx[Draft(p)].sha1 \in [File -> {None} \cup HashName]
  BY <1>5, <1>6, RunTypes DEF IsMap, IndexFile
<1>7. Draft(p) \in DOMAIN idx => LineRight(idx'[Draft(p)], f, st, s)
  <2>1. Draft(p) \in DOMAIN idx => LineRight(idx[Draft(p)], f, st, s)
    BY <1>4 DEF HostOf, FileOf, BackingUp, Scanning
  <2>. QED BY <1>4, <1>6, <2>1 DEF LineRight
<1>8. \A g \in File \ {f} : Draft(p) \in DOMAIN idx =>
         /\ idx'[Draft(p)].data[g] = idx[Draft(p)].data[g]
         /\ idx'[Draft(p)].sha1[g] = idx[Draft(p)].sha1[g]
  BY <1>6
<1>9. HintRight(k, s)
  <2> SUFFICES ASSUME UseHints PROVE HintRight(HintOf(p, f, h), s)
    BY DEF HintRight
  <2>1. st.stamp <= s.stamp
    BY <1>4 DEF HostOf, FileOf
  <2>2. StatOf(s) \in Stat
    BY <1>4, StatFacts
  <2>3. HintFits(HintOf(p, f, h), StatOf(s)) => StatOf(s) = st
    BY <1>4, <2>2 DEF HintFits, HintOf, Stat
  <2>. QED BY <2>1, <2>3 DEF HintRight, HintOf, Same
<1>10. \A g \in File : HintRight(nh[g], s) \/ g # f
  BY <1>4, <1>9, RunTypes DEF Hints
<1>11. \A g \in File : HintRight(nh[g], src[p][g])
  <2> SUFFICES ASSUME NEW g \in File, g # f PROVE HintRight(nh[g], src[p][g])
    BY <1>10
  <2>1. nh[g] = bk[p].newhints[g]
    BY RunTypes DEF Hints
  <2>. QED BY <2>1 DEF HostOf, FileOf
<1> HIDE DEF r, nh, s, st
<1>12. /\ \A g \in File : HintRight(r.newhints[g], src[p][g])
       /\ Draft(p) \in DOMAIN idx =>
            LineRight(idx'[Draft(p)], Current(p), bk[p].stat[Current(p)], src[p][Current(p)])
  BY <1>2, <1>7, <1>11 DEF s, st
<1>. QED BY <1>1, <1>2, <1>3, <1>5, <1>8, <1>12, FileDealtWith

\* The hint that is taken fits the stat data.
LEMMA UseHintHost ==
  ASSUME TypeInv, NEW p \in Host, HostOf(p), UseHint(p)
  PROVE  HostOf(p)'
<1> DEFINE f == Current(p)
           k == bk[p].hints[f]
<1>1. Scanning(p) /\ Large(p) /\ HintFits(k, bk[p].stat[f]) /\ Record(p, k.hash)
  BY DEF UseHint, MatchingHint
<1>2. f \in File
  BY <1>1, AtFile
<1>3. k # None /\ k.hash \in HashName
  BY <1>1, <1>2, RunTypes DEF HintFits, Hints, Hint
<1>4. HintRight(k, src[p][f])
  BY <1>2 DEF HostOf, FileOf
<1>5. Same(bk[p].stat[f], src[p][f]) => k.hash = Hash(src[p][f].data)
  BY <1>1, <1>3, <1>4 DEF HintRight, Same
<1>. QED BY <1>1, <1>3, <1>5, RecordHost

\* hashfile reads the next block: of an unchanged file it is the one that
\* follows what was read.
LEMMA HashReadHost ==
  ASSUME TypeInv, NEW p \in Host, HostOf(p), HashRead(p)
  PROVE  HostOf(p)'
<1> DEFINE f == Current(p)
           c == bk[p].ctx
           b == src[p][f].data[Len(c) + 1]
           r == [bk[p] EXCEPT !.ctx = Append(c, b)]
<1>1. bk'[p] = r
  BY RunTypes DEF HashRead, ReadBlock, Becomes
<1>2. Scanning(p) /\ Large(p) /\ Len(c) < Len(src[p][f].data)
  BY DEF HashRead, ReadBlock
<1>3. /\ r.hints = bk[p].hints /\ r.newhints = bk[p].newhints
      /\ r.stat = bk[p].stat /\ r.date = bk[p].date /\ r.ctx = Append(c, b)
      /\ r.dir = bk[p].dir /\ r.pc = bk[p].pc /\ r.todo = bk[p].todo
  BY RunTypes DEF Run
<1>4. UNCHANGED <<src, clock, hintfile, idx>>
  BY DEF HashRead, files, medium
<1>5. f \in File /\ c \in Bytes /\ Len(c) \in Nat /\ Hashing(bk[p])
  BY <1>2, AtFile, RunTypes, LenProperties DEF Bytes, Hashing, Scanning, Large, Current
<1>6. b \in Byte
  BY <1>2, <1>5, StatFacts, ElementOfSeq, SMTT(60) DEF Bytes
<1>7. /\ Len(Append(c, b)) = Len(c) + 1
      /\ \A i \in 1 .. Len(c) : Append(c, b)[i] = c[i]
      /\ Append(c, b)[Len(c) + 1] = b
  BY <1>5, <1>6, AppendProperties DEF Bytes
<1>8. Hashing(r) /\ Head(r.todo) = f /\ r.pc = "scan" /\ BackingUp(p)
  BY <1>2, <1>3, <1>5 DEF Hashing, Scanning, Current, BackingUp
<1>9. ReadRight(Append(c, b), bk[p].stat[f], src[p][f])
  <2>1. ReadRight(c, bk[p].stat[f], src[p][f])
    BY <1>5 DEF HostOf, FileOf, Hashing, Current
  <2>2. Len(src[p][f].data) \in Nat
    BY <1>5, StatFacts
  <2>. QED BY <1>2, <1>5, <1>7, <2>1, <2>2, SMTT(60) DEF ReadRight
<1> HIDE DEF r, c, b
<1>10. Draft(p)' = Draft(p)
  BY <1>1, <1>3 DEF Draft
<1>11. TodoOf(p)'
  BY <1>1, <1>3, <1>4, <1>8, <1>10 DEF HostOf, TodoOf, Context, Hashing, NotEntered
<1>12. ASSUME NEW g \in File PROVE FileOf(p, g)'
  <2>1. FileOf(p, g)
    BY DEF HostOf
  <2>2. Hashing(r) /\ g = Head(r.todo) => ReadRight(r.ctx, r.stat[g], src[p][g])
    BY <1>3, <1>8, <1>9
  <2>3. BackingUp(p)' <=> BackingUp(p)
    BY <1>1, <1>8 DEF BackingUp
  <2>. QED BY <1>1, <1>3, <1>4, <1>10, <2>1, <2>2, <2>3
           DEF FileOf, HintRight, LineRight, ReadRight, Same, Hashing
<1>. QED BY <1>11, <1>12 DEF HostOf

\* At its end all of an unchanged file was read.
LEMMA HashDoneHost ==
  ASSUME TypeInv, NEW p \in Host, HostOf(p), HashDone(p)
  PROVE  HostOf(p)'
<1> DEFINE f == Current(p)
           c == bk[p].ctx
           s == src[p][f]
<1>1. Scanning(p) /\ Large(p) /\ Len(c) >= Len(s.data) /\ Record(p, Hash(c))
  BY DEF HashDone, AtEof
<1>2. f \in File /\ c \in Bytes /\ Len(c) \in Nat /\ Hashing(bk[p])
  BY <1>1, AtFile, RunTypes, LenProperties DEF Bytes, Hashing, Scanning, Large, Current
<1>3. s.data \in Bytes /\ Len(s.data) \in Nat
  BY <1>2, StatFacts
<1>4. ReadRight(c, bk[p].stat[f], s)
  BY <1>2 DEF HostOf, FileOf, Hashing, Current
<1>5. Same(bk[p].stat[f], s) => Hash(c) = Hash(s.data)
  <2> SUFFICES ASSUME Same(bk[p].stat[f], s) PROVE c = s.data
    OBVIOUS
  <2>1. Len(c) = Len(s.data) /\ \A i \in 1 .. Len(c) : c[i] = s.data[i]
    BY <1>1, <1>2, <1>3, <1>4 DEF ReadRight
  <2>. QED BY <1>2, <1>3, <2>1, SeqEqual DEF Bytes
<1>6. Hash(c) \in HashName
  BY <1>2, HashType
<1>. QED BY <1>1, <1>5, <1>6, RecordHost

----------------------------------------------------------------------------
(***************************************************************************)
(* The beginning and the end of a run.                                     *)
(***************************************************************************)
\* A run starts with an empty index and the hints of the file.
LEMMA StartHost ==
  ASSUME TypeInv, NEW p \in Host, HostOf(p), NEW d \in Date, StartBackup(p, d)
  PROVE  HostOf(p)'
<1> DEFINE k == IF UseHints THEN hintfile[p] ELSE NoHints
           r == [BackupIdle EXCEPT !.pc = "dir", !.date = d, !.dir = 1, !.hints = k]
<1>1. bk'[p] = r
  BY RunTypes DEF StartBackup, Becomes
<1>2. /\ r.hints = k /\ r.newhints = NoHints /\ r.pc = "dir" /\ r.ctx = <<>>
      /\ r.stat = [f \in File |-> None] /\ r.date = d
  BY DEF BackupIdle
<1>3. UNCHANGED <<src, clock, hintfile>> /\ idx' = Put(idx, Outfile(p, d), EmptyIndex)
  BY DEF StartBackup, files
<1> HIDE DEF r
<1>4. Draft(p)' = Outfile(p, d)
  BY <1>1, <1>2 DEF Draft
<1>5. idx'[Outfile(p, d)] = EmptyIndex
  BY <1>3 DEF Put
<1>6. \A f \in File : EmptyIndex.data[f] = None /\ EmptyIndex.sha1[f] = None
  BY DEF EmptyIndex
<1>7. TodoOf(p)'
  <2>1. \A e \in DOMAIN Tree : \A f \in FilesIn(e) : f \in File
    BY NamesAssumption, ElementOfSeq, LenProperties DEF FilesIn
  <2>2. Context(r)
    BY <1>2 DEF Context
  <2>. QED BY <1>1, <1>2, <1>4, <1>5, <1>6, <2>1, <2>2 DEF TodoOf, Context, Hashing
<1>8. ASSUME NEW f \in File PROVE FileOf(p, f)'
  <2>1. FileOf(p, f)
    BY DEF HostOf
  <2>2. HintRight(r.hints[f], src[p][f]) /\ HintRight(r.newhints[f], src[p][f])
    BY <1>2, <2>1 DEF FileOf, HintRight, NoHints
  <2>3. r.stat[f] = None /\ ~ Hashing(r)
    BY <1>2 DEF Hashing
  <2>. QED BY <1>1, <1>3, <2>1, <2>2, <2>3 DEF FileOf, HintRight, LineRight, Hashing
<1>. QED BY <1>7, <1>8 DEF HostOf

\* Without a run only the hint file is left.
LEMMA EndHost ==
  ASSUME TypeInv, NEW p \in Host, HostOf(p), bk'[p] = BackupIdle,
         UNCHANGED <<src, clock, hintfile>>
  PROVE  HostOf(p)'
<1>1. /\ BackupIdle.pc = "idle" /\ BackupIdle.ctx = <<>>
      /\ \A f \in File : /\ BackupIdle.stat[f] = None
                         /\ BackupIdle.hints[f] = None
                         /\ BackupIdle.newhints[f] = None
  BY DEF BackupIdle, NoHints
<1>2. TodoOf(p)'
  BY <1>1 DEF TodoOf, Context, Hashing, BackingUp
<1>3. ASSUME NEW f \in File PROVE FileOf(p, f)'
  BY <1>1 DEF HostOf, FileOf, HintRight, Hashing, BackingUp
<1>. QED BY <1>2, <1>3 DEF HostOf

----------------------------------------------------------------------------
(***************************************************************************)
(* Every step.                                                             *)
(***************************************************************************)
\* The indexes of two machines are two files.
LEMMA OtherDraft ==
  ASSUME NEW p \in Host, NEW q \in Host, q # p, NEW d, NEW e
  PROVE  Outfile(q, e) \notin {Outfile(p, d), Final(p, d), Tmp(p, d)}
BY DEF Outfile, Final, Tmp

\* A run of p leaves what belongs to another machine alone.
LEMMA BackupOthers ==
  ASSUME TypeInv, NEW p \in Host, BackupNext(p) \/ CrashBackup(p),
         NEW q \in Host, q # p, HostOf(q)
  PROVE  HostOf(q)'
<1>1. bk \in [Host -> Run] /\ hintfile \in [Host -> Hints]
  BY RunTypes, SMTT(60)
<1>2. bk'[q] = bk[q]
  BY <1>1, ZenonT(60) DEF BackupNext, CrashBackup, BackupStep, StartBackup, EnterDir, StoreSmall,
     SmallShrunk, UseHint, HashRead, ReadBlock, HashDone, Record, ScanDone, TestExists,
     OpenTmp, CopyRead, CopyDone, CopyChanged, RenameObj, RenameFails, DirDone,
     Finish, SaveHints, Publish, ExitBackup, Becomes
<1>3. src' = src /\ clock' = clock /\ hintfile'[q] = hintfile[q]
  BY <1>1 DEF BackupNext, CrashBackup, BackupStep, StartBackup, EnterDir, StoreSmall,
     SmallShrunk, UseHint, HashRead, HashDone, Record, ScanDone, TestExists,
     OpenTmp, CopyRead, CopyDone, CopyChanged, RenameObj, RenameFails, DirDone,
     Finish, SaveHints, Publish, files
<1>4. Outfile(q, bk[q].date) \notin {Draft(p), Final(p, bk[p].date), Tmp(p, bk[p].date)}
  BY OtherDraft DEF Draft
<1>5. \A d \in Date : Draft(q) # Outfile(p, d)
  BY OtherDraft DEF Draft
<1>6. Draft(q) \in DOMAIN idx' =>
         Draft(q) \in DOMAIN idx /\ idx'[Draft(q)] = idx[Draft(q)]
  <2>1. CASE \E d \in Date : StartBackup(p, d)
    BY <1>5, <2>1, SMTT(60) DEF StartBackup, Put
  <2>2. CASE StoreSmall(p) \/ UseHint(p) \/ HashDone(p) \/ Finish(p)
    BY <1>4, <2>2 DEF StoreSmall, UseHint, HashDone, Record, Finish, Draft
  <2>3. CASE Publish(p)
    BY <1>4, <2>3 DEF Publish, Put, Drop, Draft
  <2>4. CASE idx' = idx
    BY <2>4
  <2>. QED
    BY <2>1, <2>2, <2>3, <2>4 DEF BackupNext, CrashBackup, BackupStep, EnterDir,
       SmallShrunk, HashRead, ScanDone, TestExists, OpenTmp, CopyRead, CopyDone,
       CopyChanged, RenameObj, RenameFails, DirDone, SaveHints, medium
<1>. QED BY <1>2, <1>3, <1>6, HostStays

\* A run of p keeps what is known of the files of p right.
LEMMA BackupOwn ==
  ASSUME TypeInv, NEW p \in Host, BackupNext(p) \/ CrashBackup(p), HostOf(p)
  PROVE  HostOf(p)'
<1>1. CASE \E d \in Date : StartBackup(p, d)
  BY <1>1, StartHost
<1>2. CASE EnterDir(p)
  BY <1>2, EnterDirHost
<1>3. CASE StoreSmall(p)
  BY <1>3, StoreSmallHost
<1>4. CASE UseHint(p)
  BY <1>4, UseHintHost
<1>5. CASE HashRead(p)
  BY <1>5, HashReadHost
<1>6. CASE HashDone(p)
  BY <1>6, HashDoneHost
<1>7. CASE \/ ScanDone(p) \/ TestExists(p) \/ OpenTmp(p) \/ CopyRead(p)
           \/ CopyDone(p) \/ RenameObj(p) \/ Finish(p) \/ SaveHints(p)
  BY <1>7, SecondPassHost
<1>8. CASE DirDone(p)
  BY <1>8, DirDoneHost
<1>9. CASE \/ SmallShrunk(p) \/ CopyChanged(p) \/ RenameFails(p) \/ Publish(p)
           \/ CrashBackup(p)
  <2>1. bk'[p] = BackupIdle /\ UNCHANGED <<src, clock, hintfile>>
    BY <1>9, RunTypes DEF SmallShrunk, CopyChanged, RenameFails, Publish,
       CrashBackup, ExitBackup, Becomes, files
  <2>. QED BY <2>1, EndHost
<1>. QED BY <1>1, <1>2, <1>3, <1>4, <1>5, <1>6, <1>7, <1>8, <1>9
         DEF BackupNext, BackupStep

\* Cleanup and verification change nothing of it, nor does the removal of an
\* index.
LEMMA ReadersHost ==
  ASSUME TypeInv, NEW p \in Host, HostOf(p),
         \/ CleanupNext \/ CrashCleanup \/ VerifyNext \/ CrashVerify
         \/ UNCHANGED vars
         \/ UNCHANGED bk /\ \E n \in Published : DeleteIndex(n)
  PROVE  HostOf(p)'
<1>1. /\ UNCHANGED <<src, clock, hintfile, bk>>
      /\ idx' = idx \/ \E n \in Published : DeleteIndex(n)
  <2>1. CASE CleanupNext \/ CrashCleanup
    BY <2>1 DEF CleanupNext, CleanupStep, StartCleanup, MarkIndex, MarkFails, MarkDone,
       ListRepo, SweepFile, SweepFails, CheckFile, CheckUnreadable, Verdict,
       RemoveFile, RemoveFails, RemoveGone, SweepDone, CrashCleanup, files, medium
  <2>2. CASE VerifyNext \/ CrashVerify
    BY <2>2 DEF VerifyNext, StartVerify, VerifyStep, VerifyGood, VerifyMismatch,
       RemoveWrong, VerifyMissing, VerifyDone, CrashVerify, files, medium
  <2>. QED BY <2>1, <2>2, SMTT(60) DEF DeleteIndex, mvars, vars
<1>2. CASE idx' = idx
  BY <1>1, <1>2, HostStays
<1>3. CASE \E n \in Published : DeleteIndex(n)
  BY <1>1, <1>3, HostStays DEF DeleteIndex, Drop
<1>. QED BY <1>1, <1>2, <1>3

\* A second passes.
LEMMA TickHost ==
  ASSUME TypeInv, NEW p \in Host, HostOf(p), Tick, UNCHANGED bk
  PROVE  HostOf(p)'
<1>1. UNCHANGED <<src, hintfile, idx, bk>> /\ clock' = clock + 1
  BY DEF Tick
<1>2. Draft(p)' = Draft(p) /\ (BackingUp(p)' <=> BackingUp(p))
  BY <1>1 DEF Draft, BackingUp
<1>3. TodoOf(p)'
  BY <1>1, <1>2 DEF HostOf, TodoOf, Context, Hashing, NotEntered
<1>4. ASSUME NEW f \in File PROVE FileOf(p, f)'
  <2>1. FileOf(p, f)
    BY DEF HostOf
  <2>2. src[p][f].stamp <= clock'
    BY <1>1, <2>1, StatFacts, RunTypes DEF FileOf
  <2>. QED BY <1>1, <1>2, <2>1, <2>2 DEF FileOf, HintRight, ReadRight, LineRight, Same, Hashing
<1>. QED BY <1>3, <1>4 DEF HostOf

\* An edit that does not fall into the second of an earlier one outdates all
\* stat data and hints there are of the file.
LEMMA EditHost ==
  ASSUME TypeInv, NEW q \in Host, HostOf(q), UNCHANGED bk,
         NEW p \in Host, NEW g \in File, Edit(p, g), HostOf(p)
  PROVE  HostOf(q)'
<1>1. UNCHANGED <<clock, hintfile, idx, bk>>
  BY DEF Edit
<1>2. Draft(q)' = Draft(q) /\ (BackingUp(q)' <=> BackingUp(q))
  BY <1>1 DEF Draft, BackingUp
<1>3. TodoOf(q)'
  BY <1>1, <1>2 DEF HostOf, TodoOf, Context, Hashing, NotEntered
<1>4. ASSUME NEW f \in File PROVE FileOf(q, f)'
  <2>1. FileOf(q, f)
    BY DEF HostOf
  <2>2. CASE src'[q][f] = src[q][f]
    BY <1>1, <1>2, <2>1, <2>2 DEF FileOf, HintRight, ReadRight, LineRight, Same, Hashing
  <2>3. CASE src'[q][f] # src[q][f]
    <3> DEFINE s == src[q][f]
               t == src'[q][f]
    <3>1. q = p /\ f = g
      BY <2>3, RunTypes DEF Edit, TypeInv, TypeOK, MediumTypeOK
    <3>2. t.stamp = clock /\ (t.again <=> s.stamp = clock)
      <4>1. src \in [Host -> [File -> SourceFile]]
        BY DEF TypeInv, TypeOK, MediumTypeOK
      <4>2. PICK d \in Content :
              src' = [src EXCEPT ![p][g] = [data |-> d, stamp |-> clock,
                                            again |-> src[p][g].stamp = clock]]
        BY DEF Edit
      <4>3. t = [data |-> d, stamp |-> clock, again |-> s.stamp = clock]
        BY <3>1, <4>1, <4>2
      <4> HIDE DEF s, t
      <4>4. t.stamp = clock /\ t.again = (s.stamp = clock)
        BY <4>3
      <4>. QED BY <4>4, Zenon
    <3>3. StatOf(t).stamp = clock
      BY <3>2 DEF StatOf
    <3>4. s.stamp \in Nat /\ s.stamp <= clock /\ clock \in Nat
      BY <2>1, StatFacts, RunTypes DEF FileOf
    <3> HIDE DEF s, t
    <3>5. ASSUME NEW k \in Hints, HintRight(k[f], s) PROVE HintRight(k[f], t)
      <4> SUFFICES ASSUME k[f] # None PROVE HintRight(k[f], t)
        BY DEF HintRight
      <4>1. k[f].stamp \in Nat /\ k[f].stamp <= s.stamp
        BY <3>5 DEF HintRight, Hints, Hint
      <4>2. t.again \/ k[f].stamp # StatOf(t).stamp
        BY <3>2, <3>3, <3>4, <4>1
      <4>3. k[f].stamp <= t.stamp
        BY <3>2, <3>4, <4>1
      <4>. QED BY <4>2, <4>3 DEF HintRight, HintFits
    <3>6. ASSUME bk[q].stat[f] # None
          PROVE  bk[q].stat[f].stamp <= t.stamp /\ ~ Same(bk[q].stat[f], t)
      <4>1. bk[q].stat[f].stamp \in Nat /\ bk[q].stat[f].stamp <= s.stamp
        BY <2>1, <3>6, RunTypes DEF FileOf, Stat, s
      <4>2. bk[q].stat[f].stamp <= t.stamp
        BY <3>2, <3>4, <4>1
      <4>3. t.again \/ bk[q].stat[f].stamp # StatOf(t).stamp
        BY <3>2, <3>3, <3>4, <4>1
      <4>. QED BY <4>2, <4>3 DEF Same
    <3>7. Hashing(bk[q]) /\ f = Head(bk[q].todo) => bk[q].stat[f] # None
      <4> SUFFICES ASSUME Hashing(bk[q]), f = Head(bk[q].todo)
                   PROVE  bk[q].stat[f] # None
        OBVIOUS
      <4>1. Scanning(q) /\ f = Current(q)
        BY DEF Hashing, Scanning, Current
      <4>. QED BY <4>1, AtFile, NoneAssumption
    <3>8. /\ t.stamp <= clock /\ HintRight(hintfile[q][f], t)
          /\ HintRight(bk[q].hints[f], t) /\ HintRight(bk[q].newhints[f], t)
      <4>1. /\ HintRight(hintfile[q][f], s) /\ HintRight(bk[q].hints[f], s)
            /\ HintRight(bk[q].newhints[f], s)
        BY <2>1 DEF FileOf, s
      <4>. QED BY <3>2, <3>4, <3>5, <4>1, RunTypes
    <3>9. /\ Hashing(bk[q]) /\ f = Head(bk[q].todo)
               => ReadRight(bk[q].ctx, bk[q].stat[f], t)
          /\ LineRight(idx[Draft(q)], f, bk[q].stat[f], t)
      BY <3>6, <3>7 DEF ReadRight, LineRight
    <3>10. src'[q][f] = t
      BY DEF t
    <3>. QED BY <1>1, <1>2, <3>6, <3>8, <3>9, <3>10
             DEF FileOf, HintRight, ReadRight, LineRight, Same, Hashing
  <2>. QED BY <2>2, <2>3
<1>. QED BY <1>3, <1>4 DEF HostOf

\* At first nothing is known of any file.
LEMMA HintInit == ASSUME Init, TypeInv PROVE HintInv
<1> SUFFICES ASSUME NEW p \in Host PROVE HostOf(p)
  BY DEF HintInv, HostOf
<1>1. bk[p] = BackupIdle
  BY DEF Init, BackupInit
<1>2. /\ BackupIdle.pc = "idle" /\ BackupIdle.ctx = <<>>
      /\ \A f \in File : /\ BackupIdle.stat[f] = None
                         /\ BackupIdle.hints[f] = None
                         /\ BackupIdle.newhints[f] = None
  BY DEF BackupIdle, NoHints
<1>3. TodoOf(p)
  BY <1>1, <1>2 DEF TodoOf, Context, BackingUp
<1>4. ASSUME NEW f \in File PROVE FileOf(p, f)
  <2>1. src[p][f].stamp = 0 /\ clock = 0 /\ hintfile[p][f] = None
    BY DEF Init, MediumInit, NoHints
  <2>. QED BY <1>1, <1>2, <2>1 DEF FileOf, HintRight, Hashing, BackingUp
<1>. QED BY <1>3, <1>4 DEF HostOf

\* Every step keeps what is known of a file right.
LEMMA HintNext == ASSUME TypeInv, HintInv, [Next]_vars PROVE HintInv'
<1> SUFFICES ASSUME NEW q \in Host PROVE HostOf(q)'
  BY DEF HintInv, HostOf
<1>1. \A p \in Host : HostOf(p)
  BY DEF HintInv, HostOf
<1>2. ASSUME NEW p \in Host, BackupNext(p) \/ CrashBackup(p) PROVE HostOf(q)'
  BY <1>1, <1>2, BackupOwn, BackupOthers
<1>3. CASE CleanupNext \/ CrashCleanup \/ VerifyNext \/ CrashVerify \/ UNCHANGED vars
  BY <1>1, <1>3, ReadersHost
<1>4. CASE Environment
  BY <1>1, <1>4, EditHost, TickHost, ReadersHost DEF Environment
<1>. QED BY <1>2, <1>3, <1>4 DEF Next

\* HintInv is an invariant.
LEMMA HintInductive == Spec => [](TypeInv /\ HintInv)
<1>1. Init => TypeInv
  BY InitType
<1>2. Init /\ TypeInv => HintInv
  BY HintInit
<1>3. TypeInv /\ [Next]_vars => TypeInv'
  BY NextType
<1>4. TypeInv /\ HintInv /\ [Next]_vars => HintInv'
  BY HintNext
<1>. QED BY <1>1, <1>2, <1>3, <1>4, PTL DEF Spec

----------------------------------------------------------------------------
(***************************************************************************)
(* The theorems.                                                           *)
(***************************************************************************)
\* A hint that backup would take (backup.cc:236-240) has the hash of the file
\* it is for, though the run that saved it read that file between edits, and
\* runs died since: unless some second saw two changes of the file.
THEOREM HintsRight == Spec => []HintSound
<1>1. HintInv => HintSound
  BY DEF HintInv, FileOf, HintRight, HintSound, HintFits
<1>. QED BY <1>1, HintInductive, PTL

\* The line that backup writes for a file (backup.cc:215-268) is right if the
\* file does not change after its stat, whether it was read in blocks between
\* edits or taken from a hint.
THEOREM LinesDescribe == Spec => []LineSound
<1>1. HintInv => LineSound
  BY DEF HintInv, FileOf, LineSound, LineRight, Same, Unchanged
<1>. QED BY <1>1, HintInductive, PTL
=============================================================================
