--------------------------- MODULE HbackupProofs ---------------------------
(***************************************************************************)
(* What hbackup, the older program, keeps on the medium: for any machines, *)
(* with or without --no-rename, any files, contents and options.           *)
(***************************************************************************)
EXTENDS Hbackup, MediumProofs

----------------------------------------------------------------------------
(***************************************************************************)
(* The strengthening, first what holds whatever overlaps.                  *)
(***************************************************************************)
\* Steps with a file at hand, and steps with an index that is being written.
AtFile == {"isfile", "create", "copy", "rename", "line"}
Scan == {"mark unsafe", "hash"} \cup AtFile
Drafting == Scan \cup {"end", "publish"}

ProgramShape(p) ==
    LET r == py[p] IN
    /\ r.pc \in {"rename", "publish"} => p \notin NoRename
    /\ r.pc \in {"mark unsafe", "unmark unsafe"} => p \in NoRename
    /\ r.pc \in AtFile => r.todo # <<>> /\ Head(r.todo) # <<>> /\ r.hash # None
    /\ wfd[p] # None => wfd[p].hash = r.hash
    /\ r.pc \in Drafting => Ind(p) \in DOMAIN idx
    /\ r.pc \in Drafting /\ p \in NoRename => ~ idx[Ind(p)].end

\* No file is lost between the lines of the index x and the scan of r.
FilesKept(r, x) ==
    /\ r.pc \in Step \ (Drafting \cup {"unmark unsafe", "unmark"}) => r.todo = Tree
    /\ r.pc \in Drafting => \A f \in File :
          \/ x.sha1[f] # None
          \/ /\ r.pc \in Scan
             /\ \E d \in DOMAIN r.todo : \E i \in DOMAIN r.todo[d] : r.todo[d][i] = f

NoFileLost(p) == FilesKept(py[p], idx[Ind(p)])

Obj(h) == [name |-> "obj", hash |-> h]
TmpOf(h) == [name |-> "tmp", hash |-> h]

\* The pipeline of a cleanup has everything that no index it read needs.
Listing ==
    /\ rm.pc # "idle" => \A p \in Host : ~ BackingUp(p)
    /\ rm.pc = "rm" => rm.argv = {}
    /\ rm.pc \in {"parse", "rm"} =>
          /\ \A h \in DOMAIN objs : h \in rm.kept \/ Obj(h) \in rm.files
          /\ \A h \in DOMAIN tmps : TmpOf(h) \in rm.files
          /\ \A h \in rm.kept : Obj(h) \notin rm.files
    /\ rm.pc = "scan" => rm.kept = {}

TypeInv == /\ TypeOK
           /\ \A p \in Host : ProgramShape(p) /\ NoFileLost(p)
           /\ Listing

(***************************************************************************)
(* Then what holds as long as no two backups raced: at most one is past    *)
(* the markers, and all it does to the repository goes to the one object   *)
(* it is copying.                                                          *)
(***************************************************************************)
Inside(p) == py[p].pc \in Step \ {"unsafe?", "active?", "mark"}

Alone == \A p \in Host : Inside(p) =>
            /\ active
            /\ \A q \in Host \ {p} : py[q].pc \in {"idle", "unsafe?", "active?"}
            /\ p \in NoRename /\ py[p].pc \notin {"open", "mark unsafe", "unmark"} => unsafe

Dest(p) == IF p \in NoRename THEN objs ELSE tmps

\* d is what sha1() hashed to h, as far as off.
Prefix(d, off, h) ==
    Len(d) = off /\ off <= Len(h.sha1) /\ \A i \in 1 .. off : d[i] = h.sha1[i]

CopyOf(p) ==
    LET h == py[p].hash IN
    /\ py[p].pc \in (IF p \in NoRename THEN {"create"} ELSE {"create", "copy", "rename"})
          => h \notin DOMAIN objs
    /\ py[p].pc = "copy" =>
          /\ wfd[p].at = (IF p \in NoRename THEN "obj" ELSE "tmp")
          /\ h \in DOMAIN Dest(p)
          /\ h \in stale \/ Prefix(Dest(p)[h], py[p].off, h)
    /\ py[p].pc = "rename" =>
          h \in DOMAIN tmps /\ (Hash(tmps[h]) = h \/ h \in stale)

CopyInv == Alone /\ (\A p \in Host : CopyOf(p)) /\ Cut \subseteq killed

(***************************************************************************)
(* And what holds as long as the marker unsafe was heeded, too: a backup   *)
(* that got past it trusts only objects that are right.                    *)
(***************************************************************************)
\* The object that p is writing in place.
InPlace(p, h) == p \in NoRename /\ py[p].pc = "copy" /\ h = py[p].hash

\* An object that an index may name.
Safe(h) == /\ h \in DOMAIN objs
           /\ Intact(h) \/ h \in stale
           /\ \A p \in Host : ~ InPlace(p, h)

LinesOf(p) ==
    /\ py[p].pc \in Drafting => \A f \in File :
          LET h == idx[Ind(p)].sha1[f] IN h # None => Safe(h)
    /\ py[p].pc = "line" => Safe(py[p].hash)
    /\ py[p].pc = "publish" => idx[Ind(p)].end

Needed == \A n \in Published : \A f \in File : Safe(idx[n].sha1[f])

\* Some unfinished index is there, too, and keeps cleanups of all indexes from
\* listing anything.
Warned ==
    /\ Cut # {} => \E n \in DOMAIN idx : ~ idx[n].end
    /\ Cut # {} /\ rm.pc # "rm" =>
          /\ unsafe
          /\ \A p \in Host : \/ py[p].pc \in {"idle", "unsafe?"}
                             \/ py[p].pc = "active?" /\ active

\* A cleanup is given the finished indexes, or those not finished as well.
Keeping == rm.pc # "idle" =>
    /\ \A n \in Published : n \in rm.argv \/ HashesOf(idx[n]) \subseteq rm.kept
    /\ \/ /\ rm.argv \cap DOMAIN idx \subseteq Published
          /\ \A h \in rm.kept : Safe(h)
       \/ \A n \in DOMAIN idx : idx[n].end \/ n \in rm.argv

TrustInv == (\A p \in Host : LinesOf(p)) /\ Needed /\ Warned /\ Keeping

PyInv == /\ TypeInv
         /\ ~ raced => CopyInv
         /\ ~ raced /\ ~ unmarked => TrustInv

\* The steps at which a backup may still create, or finish, its index.
Writing == Step \ {"unmark unsafe", "unmark"}

\* Without --overwrite and with --verbose no backup writes over a finished index.
IndexNew == ~ OverwriteIndex /\ Verbose =>
    \A p \in Host : py[p].pc \in Writing => Final(p, py[p].date) \notin Published

----------------------------------------------------------------------------
(***************************************************************************)
(* Types.                                                                  *)
(***************************************************************************)
\* The parts of TypeOK one by one, as the steps below use them.
LEMMA Parts ==
  ASSUME TypeInv, NEW p \in Host
  PROVE  /\ py \in [Host -> Program] /\ py[p] \in Program
         /\ py[p].todo \in Seq(Seq(File)) /\ py[p].off \in Nat
         /\ py[p].hash \in {None} \cup HashName /\ py[p].date \in Date
         /\ \A f \in File : src[p][f].data \in Bytes
         /\ IsMap(idx, IndexName, IndexFile)
         /\ IsMap(objs, HashName, Bytes) /\ IsMap(tmps, HashName, Bytes)
         /\ wfd \in [Host -> {None} \cup WriteFd]
         /\ rm \in Pipeline /\ MediumTypeOK /\ TypeOK
         /\ ProgramShape(p) /\ NoFileLost(p)
         /\ (wfd[p] # None <=> py[p].pc = "copy")
         /\ Ind(p) \in IndexName
<1>1. TypeOK /\ MediumTypeOK /\ ProgramShape(p) /\ NoFileLost(p)
  BY DEF TypeInv, TypeOK
<1>2. py \in [Host -> Program] /\ py[p] \in Program /\ (wfd[p] # None <=> py[p].pc = "copy")
  BY <1>1 DEF TypeOK
<1>3. \A f \in File : src[p][f].data \in Bytes
  BY <1>1 DEF MediumTypeOK, SourceFile
<1>4. /\ py[p].todo \in Seq(Seq(File)) /\ py[p].off \in Nat
      /\ py[p].hash \in {None} \cup HashName /\ py[p].date \in Date
  BY <1>2 DEF Program
<1>5. Ind(p) \in IndexName
  BY <1>4 DEF Ind, Final, Tmp, IndexName
<1>. QED BY <1>1, <1>2, <1>3, <1>4, <1>5 DEF TypeOK, MediumTypeOK

\* No cleanup goes on during a backup.
LEMMA NoPipelineThen ==
  ASSUME TypeInv, NEW p \in Host, BackingUp(p) PROVE rm.pc = "idle"
BY DEF TypeInv, Listing

\* The indexes of the other machines are as they were.
OtherIndexes(p) ==
    \A n \in IndexName : n[1] # p =>
       /\ n \in DOMAIN idx' <=> n \in DOMAIN idx
       /\ n \in DOMAIN idx => idx'[n] = idx[n]

\* A step of the backup of p to a state r, if no other machine's descriptor
\* and index is affected.
Turn(p, r) ==
    /\ py' = [py EXCEPT ![p] = r]
    /\ \A q \in Host \ {p} :
          /\ wfd'[q] # None <=> wfd[q] # None
          /\ wfd[q] # None => wfd'[q].hash = wfd[q].hash
    /\ OtherIndexes(p)
    /\ rm' = rm

\* The other machines' programs are as they were.
LEMMA OthersShape ==
  ASSUME TypeInv, NEW p \in Host, NEW r, Turn(p, r), NEW q \in Host \ {p}
  PROVE  py'[q] = py[q] /\ (ProgramShape(q) /\ NoFileLost(q))'
<1>1. py'[q] = py[q] /\ Ind(q)' = Ind(q)
  BY Parts DEF Turn, Ind
<1>2. Ind(q) \in IndexName /\ Ind(q)[1] # p
  BY Parts DEF Ind, Final, Tmp
<1>3. ProgramShape(q) /\ NoFileLost(q)
  BY DEF TypeInv
<1>4. /\ Ind(q) \in DOMAIN idx' <=> Ind(q) \in DOMAIN idx
      /\ Ind(q) \in DOMAIN idx => idx'[Ind(q)] = idx[Ind(q)]
  BY <1>2 DEF Turn, OtherIndexes
<1>5. ProgramShape(q)'
  BY <1>1, <1>3, <1>4 DEF ProgramShape, Turn
<1>6. NoFileLost(q)'
  <2>1. CASE Ind(q) \in DOMAIN idx
    BY <1>1, <1>3, <1>4, <2>1 DEF NoFileLost
  <2>2. CASE py[q].pc \notin Drafting
    BY <1>1, <1>3, <2>2 DEF NoFileLost, FilesKept
  <2>. QED BY <1>3, <2>1, <2>2 DEF ProgramShape
<1>. QED BY <1>1, <1>5, <1>6

\* So only the program of p and what is stored have to be looked at.
LEMMA TurnType ==
  ASSUME TypeInv, NEW p \in Host, NEW r \in Program, Turn(p, r),
         BackingUp(p) \/ rm.pc = "idle", UNCHANGED files, events' \in Nat,
         IsMap(idx', IndexName, IndexFile), IsMap(objs', HashName, Bytes),
         IsMap(tmps', HashName, Bytes), wfd' \in [Host -> {None} \cup WriteFd],
         active' \in BOOLEAN, unsafe' \in BOOLEAN,
         raced' \in BOOLEAN, unmarked' \in BOOLEAN,
         stale' \in SUBSET HashName, killed' \in SUBSET HashName,
         wfd'[p] # None <=> r.pc = "copy", ProgramShape(p)', NoFileLost(p)'
  PROVE  TypeInv'
<1>1. py' \in [Host -> Program] /\ py'[p] = r
  BY Parts DEF Turn
<1>2. \A q \in Host : (wfd[q] # None <=> py[q].pc = "copy")'
  <2> SUFFICES ASSUME NEW q \in Host, q # p
               PROVE  (wfd[q] # None <=> py[q].pc = "copy")'
    BY <1>1
  <2>1. py'[q] = py[q]
    BY OthersShape
  <2>2. wfd'[q] # None <=> wfd[q] # None
    BY DEF Turn
  <2>. QED BY <2>1, <2>2, Parts
<1>3. MediumTypeOK'
  BY Parts DEF MediumTypeOK, files
<1>4. rm.pc = "idle" /\ rm' = rm
  BY NoPipelineThen DEF Turn
<1>5. TypeOK'
  BY <1>1, <1>2, <1>3, <1>4, Parts DEF TypeOK
<1>6. Listing'
  BY <1>4 DEF Listing
<1>7. \A q \in Host : (ProgramShape(q) /\ NoFileLost(q))'
  BY OthersShape
<1>. QED BY <1>5, <1>6, <1>7 DEF TypeInv

\* A step that leaves the medium alone.
LEMMA QuietType ==
  ASSUME TypeInv, NEW p \in Host, NEW r \in Program, py' = [py EXCEPT ![p] = r],
         BackingUp(p) \/ rm.pc = "idle", UNCHANGED <<mvars, rm, stale, killed>>,
         active' \in BOOLEAN, unsafe' \in BOOLEAN,
         raced' \in BOOLEAN, unmarked' \in BOOLEAN,
         py[p].pc # "copy", r.pc # "copy", ProgramShape(p)', NoFileLost(p)'
  PROVE  TypeInv' /\ Turn(p, r)
<1>1. Turn(p, r)
  BY DEF Turn, OtherIndexes, mvars
<1>2. wfd'[p] = None
  BY Parts DEF mvars
<1>3. /\ UNCHANGED files /\ events' \in Nat
      /\ IsMap(idx', IndexName, IndexFile) /\ IsMap(objs', HashName, Bytes)
      /\ IsMap(tmps', HashName, Bytes) /\ wfd' \in [Host -> {None} \cup WriteFd]
      /\ stale' \in SUBSET HashName /\ killed' \in SUBSET HashName
  BY Parts DEF mvars, files, MediumTypeOK, TypeOK
<1>. QED BY <1>1, <1>2, <1>3, TurnType

\* From one step of the scan of a file to the next no file gets lost.
LEMMA ScanKeepsFiles ==
  ASSUME NEW r, NEW s, NEW x, FilesKept(s, x), r.todo = s.todo,
         s.pc \in Scan, r.pc \in Scan
  PROVE  FilesKept(r, x)
<1>1. s.pc \in Drafting /\ r.pc \in Drafting
  BY DEF Drafting
<1>. QED BY <1>1, ZenonT(60) DEF FilesKept

\* What hbackup is after it ended.
LEMMA NoProgramType ==
  ASSUME TypeInv, NEW p \in Host
  PROVE  /\ NoProgram(p) \in Program /\ NoProgram(p).pc = "idle"
         /\ NoProgram(p).date = py[p].date
<1>1. py[p] \in Program /\ <<>> \in Seq(Seq(File))
  BY Parts
<1>2. NoProgram(p) \in Program
  BY <1>1 DEF NoProgram, Program
<1>. QED BY <1>1, <1>2 DEF NoProgram, Program

\* The program of p ends and leaves the medium as it is.
LEMMA StopsType ==
  ASSUME TypeInv, NEW p \in Host, BackingUp(p), py' = [py EXCEPT ![p] = NoProgram(p)],
         py[p].pc # "copy", UNCHANGED <<mvars, rm, history>>,
         active' \in BOOLEAN, unsafe' \in BOOLEAN
  PROVE  TypeInv' /\ Turn(p, NoProgram(p))
<1>1. py'[p] = NoProgram(p) /\ wfd'[p] = None
  BY Parts DEF mvars
<1>2. ProgramShape(p)' /\ NoFileLost(p)'
  BY <1>1, NoProgramType DEF ProgramShape, NoFileLost, FilesKept, AtFile, Drafting, Scan, Step
<1>3. raced' \in BOOLEAN /\ unmarked' \in BOOLEAN
  BY Parts DEF TypeOK, history
<1>. QED BY <1>2, <1>3, NoProgramType, QuietType DEF history

\* Up to the index nothing was done for any file.
LEMMA BeginType ==
  ASSUME TypeInv, NEW p \in Host, NEW r \in Program, py' = [py EXCEPT ![p] = r],
         BackingUp(p) \/ rm.pc = "idle", UNCHANGED <<mvars, rm, stale, killed>>,
         active' \in BOOLEAN, unsafe' \in BOOLEAN,
         raced' \in BOOLEAN, unmarked' \in BOOLEAN,
         py[p].pc # "copy", r.pc \in {"unsafe?", "active?", "mark", "open"},
         r.todo = Tree
  PROVE  TypeInv' /\ Turn(p, r)
<1>1. py'[p] = r /\ wfd'[p] = None
  BY Parts DEF mvars
<1>2. ProgramShape(p)' /\ NoFileLost(p)'
  BY <1>1 DEF ProgramShape, NoFileLost, FilesKept, AtFile, Drafting, Scan, Step
<1>. QED BY <1>2, QuietType

\* do_backup up to the making of the marker active.
LEMMA MarkersType ==
  ASSUME TypeInv, NEW p \in Host,
         (\E d \in Date : StartBackup(p, d)) \/ TestMarker(p) \/ MakeActive(p)
  PROVE  TypeInv'
<1>1. py[p] \in Program /\ TypeOK
  BY Parts
<1>2. /\ active \in BOOLEAN /\ unsafe \in BOOLEAN
      /\ raced \in BOOLEAN /\ unmarked \in BOOLEAN
  BY <1>1 DEF TypeOK
<1>3. ASSUME NEW d \in Date, StartBackup(p, d) PROVE TypeInv'
  <2> DEFINE r == [py[p] EXCEPT !.pc = "unsafe?", !.date = d, !.todo = Tree]
  <2>1. r \in Program /\ r.pc = "unsafe?" /\ r.todo = Tree
    BY <1>1, NamesAssumption DEF Program, Step
  <2>2. /\ py' = [py EXCEPT ![p] = r] /\ rm.pc = "idle" /\ py[p].pc = "idle"
        /\ UNCHANGED <<mvars, markers, rm, history>>
    BY <1>3 DEF StartBackup, BackingUp
  <2> HIDE DEF r
  <2>. QED BY <1>2, <2>1, <2>2, BeginType DEF markers, history
<1>4. ASSUME py[p].pc \in {"unsafe?", "active?", "mark"},
             NEW pc \in {"active?", "mark", "open"}, Go(p, pc),
             UNCHANGED <<mvars, rm, stale, killed>>, active' \in BOOLEAN, unsafe' \in BOOLEAN,
             raced' \in BOOLEAN, unmarked' \in BOOLEAN
      PROVE  TypeInv'
  <2> DEFINE r == [py[p] EXCEPT !.pc = pc]
  <2>1. r \in Program /\ r.pc = pc /\ r.todo = py[p].todo
    BY <1>1 DEF Program, Step
  <2>2. r.todo = Tree
    BY <1>4, <2>1, Parts DEF NoFileLost, FilesKept, Drafting, Scan, AtFile, Step
  <2>3. py' = [py EXCEPT ![p] = r]
    BY <1>4 DEF Go
  <2> HIDE DEF r
  <2>. QED BY <1>4, <2>1, <2>2, <2>3, BeginType DEF BackingUp
<1>5. CASE TestMarker(p)
  <2>1. /\ py[p].pc \in {"unsafe?", "active?"}
        /\ UNCHANGED <<mvars, markers, rm, history>>
        /\ \/ Go(p, "active?") \/ Go(p, "mark")
           \/ py' = [py EXCEPT ![p] = NoProgram(p)]
    BY <1>5 DEF TestMarker
  <2>. QED BY <1>2, <1>4, <2>1, StopsType DEF markers, history, BackingUp
<1>6. CASE MakeActive(p)
  <2>1. /\ py[p].pc = "mark" /\ Go(p, "open") /\ active' = TRUE /\ raced' \in BOOLEAN
        /\ UNCHANGED <<mvars, unsafe, rm, stale, killed, unmarked>>
    BY <1>2, <1>6 DEF MakeActive
  <2>. QED BY <1>2, <1>4, <2>1
<1>. QED BY <1>3, <1>5, <1>6

\* A program keeps to the index of its date.
LEMMA IndStays ==
  ASSUME NEW p \in Host, py'[p].date = py[p].date PROVE Ind(p)' = Ind(p)
BY DEF Ind, Final, Tmp

\* A step with the index in hand that leaves the medium alone.
LEMMA InHandType ==
  ASSUME TypeInv, NEW p \in Host, NEW r \in Program, py' = [py EXCEPT ![p] = r],
         BackingUp(p), UNCHANGED <<mvars, rm, history>>,
         active' \in BOOLEAN, unsafe' \in BOOLEAN,
         r.date = py[p].date, r.pc # "copy", r.pc \notin {"rename", "publish"},
         py[p].pc # "copy",
         r.pc \in {"mark unsafe", "unmark unsafe"} => p \in NoRename,
         r.pc \in Drafting => py[p].pc \in Drafting,
         r.pc \in AtFile => r.todo # <<>> /\ Head(r.todo) # <<>> /\ r.hash # None,
         FilesKept(r, idx[Ind(p)])
  PROVE  TypeInv' /\ Turn(p, r)
<1>1. py'[p] = r /\ wfd'[p] = None
  BY Parts DEF mvars
<1>7. py'[p].date = py[p].date
  BY <1>1
<1>2. Ind(p)' = Ind(p)
  BY <1>7, IndStays
<1>6. idx' = idx /\ wfd' = wfd
  BY DEF mvars
<1>3. ProgramShape(p)'
  BY <1>1, <1>2, <1>6, Parts DEF ProgramShape
<1>4. NoFileLost(p)'
  BY <1>1, <1>2, <1>6 DEF NoFileLost
<1>5. raced' \in BOOLEAN /\ unmarked' \in BOOLEAN
  BY Parts DEF TypeOK, history
<1>. QED BY <1>3, <1>4, <1>5, QuietType DEF history

\* scan_files, without copying and the lines; and the removal of the markers.
LEMMA ScanType ==
  ASSUME TypeInv, NEW p \in Host,
         \/ MakeUnsafe(p) \/ HashFile(p) \/ ScanReturns(p) \/ IsFile(p)
         \/ RemoveMarker(p)
  PROVE  TypeInv'
<1>1. /\ py[p] \in Program /\ TypeOK /\ py[p].todo \in Seq(Seq(File))
      /\ ProgramShape(p) /\ FilesKept(py[p], idx[Ind(p)])
  BY Parts DEF NoFileLost
<1>2. active \in BOOLEAN /\ unsafe \in BOOLEAN
  BY <1>1 DEF TypeOK
<1>3. CASE MakeUnsafe(p)
  <2> DEFINE r == [py[p] EXCEPT !.pc = "hash"]
  <2>1. r \in Program /\ r.pc = "hash" /\ r.todo = py[p].todo /\ r.date = py[p].date
    BY <1>1 DEF Program, Step
  <2>2. /\ py[p].pc = "mark unsafe" /\ py' = [py EXCEPT ![p] = r] /\ unsafe' = TRUE
        /\ UNCHANGED <<mvars, active, rm, history>>
    BY <1>3 DEF MakeUnsafe, Go
  <2>3. FilesKept(r, idx[Ind(p)])
    <3> HIDE DEF r
    <3>. QED BY <1>1, <2>1, <2>2, ScanKeepsFiles DEF Scan
  <2> HIDE DEF r
  <2>. QED BY <1>2, <2>1, <2>2, <2>3, InHandType DEF BackingUp, Drafting, Scan, AtFile
<1>4. CASE HashFile(p)
  <2> DEFINE h == Hash(src[p][Current(p)].data)
             r == [py[p] EXCEPT !.pc = "isfile", !.hash = h]
  <2>1. /\ py[p].pc = "hash" /\ py[p].todo # <<>> /\ Head(py[p].todo) # <<>>
        /\ UNCHANGED <<mvars, markers, rm, history>> /\ py' = [py EXCEPT ![p] = r]
    BY <1>4 DEF HashFile
  <2>2. Current(p) \in File
    BY <1>1, <2>1 DEF Current
  <2>3. h \in HashName /\ h # None
    BY <2>2, Parts, HashType, NoneAssumption
  <2>4. /\ r \in Program /\ r.pc = "isfile" /\ r.todo = py[p].todo /\ r.date = py[p].date
        /\ r.hash = h
    BY <1>1, <2>3 DEF Program, Step
  <2>5. FilesKept(r, idx[Ind(p)])
    <3> HIDE DEF r, h
    <3>. QED BY <1>1, <2>1, <2>4, ScanKeepsFiles DEF Scan, AtFile
  <2> HIDE DEF r, h
  <2>. QED BY <1>2, <2>1, <2>3, <2>4, <2>5, InHandType
           DEF BackingUp, Drafting, Scan, AtFile, markers
<1>5. CASE ScanReturns(p) /\ py[p].todo = <<>>
  <2> DEFINE r == [py[p] EXCEPT !.pc = "end"]
  <2>1. r \in Program /\ r.pc = "end" /\ r.date = py[p].date
    BY <1>1 DEF Program, Step
  <2>2. /\ py[p].pc = "hash" /\ py' = [py EXCEPT ![p] = r]
        /\ UNCHANGED <<mvars, markers, rm, history>>
    BY <1>5 DEF ScanReturns, Go
  <2>3. FilesKept(r, idx[Ind(p)])
    BY <1>1, <1>5, <2>1, <2>2 DEF FilesKept, Drafting, Scan, AtFile
  <2> HIDE DEF r
  <2>. QED BY <1>2, <2>1, <2>2, <2>3, InHandType
           DEF BackingUp, Drafting, Scan, AtFile, markers
<1>6. CASE ScanReturns(p) /\ py[p].todo # <<>>
  <2> DEFINE t == py[p].todo
             r == [py[p] EXCEPT !.todo = Tail(t)]
  <2>1. /\ py[p].pc = "hash" /\ py' = [py EXCEPT ![p] = r] /\ t # <<>> /\ Head(t) = <<>>
        /\ UNCHANGED <<mvars, markers, rm, history>>
    BY <1>6 DEF ScanReturns
  <2>2. /\ Tail(t) \in Seq(Seq(File)) /\ Len(t) \in Nat \ {0}
        /\ Len(Tail(t)) = Len(t) - 1 /\ t[1] = <<>>
        /\ \A i \in 1 .. Len(Tail(t)) : Tail(t)[i] = t[i + 1]
        /\ DOMAIN t = 1 .. Len(t) /\ DOMAIN Tail(t) = 1 .. Len(Tail(t))
    BY <1>1, <2>1, HeadTailProperties, LenProperties, EmptySeq
  <2>3. r \in Program /\ r.pc = "hash" /\ r.date = py[p].date /\ r.todo = Tail(t)
    BY <1>1, <2>1, <2>2 DEF Program, Step
  <2>4. \A f : (\E d \in DOMAIN t : \E i \in DOMAIN t[d] : t[d][i] = f)
            => \E d \in DOMAIN Tail(t) : \E i \in DOMAIN Tail(t)[d] : Tail(t)[d][i] = f
    <3> HIDE DEF t
    <3> SUFFICES ASSUME NEW d \in DOMAIN t, NEW i \in DOMAIN t[d]
                 PROVE  \E e \in DOMAIN Tail(t) : \E j \in DOMAIN Tail(t)[e] :
                           Tail(t)[e][j] = t[d][i]
      OBVIOUS
    <3>1. d # 1
      BY <2>2
    <3>2. d - 1 \in DOMAIN Tail(t) /\ Tail(t)[d - 1] = t[d]
      BY <2>2, <3>1, SMTT(60)
    <3>3. i \in DOMAIN Tail(t)[d - 1] /\ Tail(t)[d - 1][i] = t[d][i]
      BY <3>2
    <3>. QED BY <3>2, <3>3
  <2>5. FilesKept(r, idx[Ind(p)])
    <3> HIDE DEF t, r
    <3>1. py[p].todo = t
      BY DEF t
    <3>2. r.pc \in Drafting /\ r.pc \in Scan /\ py[p].pc \in Drafting
      BY <2>1, <2>3 DEF Drafting, Scan
    <3>3. ASSUME NEW f \in File, idx[Ind(p)].sha1[f] = None
          PROVE  \E d \in DOMAIN r.todo : \E i \in DOMAIN r.todo[d] : r.todo[d][i] = f
      <4>1. \E d \in DOMAIN t : \E i \in DOMAIN t[d] : t[d][i] = f
        BY <1>1, <3>1, <3>2, <3>3 DEF FilesKept
      <4>2. \E d \in DOMAIN Tail(t) : \E i \in DOMAIN Tail(t)[d] : Tail(t)[d][i] = f
        BY <2>4, <4>1
      <4>3. r.todo = Tail(t)
        BY <2>3
      <4>. QED BY <4>2, <4>3, Zenon
    <3>4. r.pc \notin Step \ (Drafting \cup {"unmark unsafe", "unmark"})
      BY <3>2
    <3>. QED BY <3>2, <3>3, <3>4 DEF FilesKept
  <2> HIDE DEF r
  <2>. QED BY <1>2, <2>1, <2>3, <2>5, InHandType
           DEF BackingUp, Drafting, Scan, AtFile, markers
<1>7. CASE IsFile(p)
  <2>1. PICK pc \in {"line", "create"} : Go(p, pc)
    BY <1>7 DEF IsFile
  <2> DEFINE r == [py[p] EXCEPT !.pc = pc]
  <2>2. /\ py[p].pc = "isfile" /\ py' = [py EXCEPT ![p] = r]
        /\ UNCHANGED <<mvars, markers, rm, history>>
    BY <1>7, <2>1 DEF IsFile, Go
  <2>3. /\ r \in Program /\ r.pc = pc /\ r.date = py[p].date
        /\ r.todo = py[p].todo /\ r.hash = py[p].hash
    BY <1>1 DEF Program, Step
  <2>4. FilesKept(r, idx[Ind(p)])
    <3> HIDE DEF r
    <3>. QED BY <1>1, <2>2, <2>3, ScanKeepsFiles DEF Scan, AtFile
  <2>5. py[p].todo # <<>> /\ Head(py[p].todo) # <<>> /\ py[p].hash # None
    BY <1>1, <2>2 DEF ProgramShape, AtFile
  <2> HIDE DEF r
  <2>. QED BY <1>2, <2>2, <2>3, <2>4, <2>5, InHandType
           DEF BackingUp, Drafting, Scan, AtFile, markers
<1>8. CASE RemoveMarker(p)
  <2>1. /\ active' \in BOOLEAN /\ unsafe' \in BOOLEAN /\ UNCHANGED <<mvars, rm, history>>
        /\ py[p].pc \in {"unmark unsafe", "unmark"}
        /\ Go(p, "unmark") \/ py' = [py EXCEPT ![p] = NoProgram(p)]
    BY <1>2, <1>8 DEF RemoveMarker
  <2>2. CASE Go(p, "unmark")
    <3> DEFINE r == [py[p] EXCEPT !.pc = "unmark"]
    <3>1. r \in Program /\ r.pc = "unmark" /\ r.date = py[p].date
      BY <1>1 DEF Program, Step
    <3>2. py' = [py EXCEPT ![p] = r]
      BY <2>2 DEF Go
    <3>3. FilesKept(r, idx[Ind(p)])
      BY <3>1 DEF FilesKept, Drafting, Scan, AtFile
    <3> HIDE DEF r
    <3>. QED BY <2>1, <3>1, <3>2, <3>3, InHandType DEF BackingUp, Drafting, Scan, AtFile
  <2>. QED BY <2>1, <2>2, StopsType DEF BackingUp
<1>. QED BY <1>3, <1>4, <1>5, <1>6, <1>7, <1>8

\* A step that changes nothing but the index of p.
LEMMA IndexTurnType ==
  ASSUME TypeInv, NEW p \in Host, NEW r \in Program, py' = [py EXCEPT ![p] = r],
         BackingUp(p), py[p].pc # "copy", r.date = py[p].date,
         UNCHANGED <<files, objs, tmps, wfd, events, markers, rm, history>>,
         IsMap(idx', IndexName, IndexFile),
         OtherIndexes(p),
         r.pc # "copy", r.pc \notin AtFile,
         r.pc = "publish" => p \notin NoRename,
         r.pc \in {"mark unsafe", "unmark unsafe"} => p \in NoRename,
         r.pc \in Drafting => Ind(p) \in DOMAIN idx' /\ (p \in NoRename => ~ idx'[Ind(p)].end),
         FilesKept(r, idx'[Ind(p)])
  PROVE  TypeInv' /\ Turn(p, r)
<1>1. py'[p] = r /\ wfd'[p] = None /\ py'[p].date = py[p].date
  BY Parts
<1>2. Ind(p)' = Ind(p)
  BY <1>1, IndStays
<1>3. Turn(p, r)
  BY DEF Turn
<1>4. ProgramShape(p)'
  BY <1>1, <1>2 DEF ProgramShape, AtFile
<1>5. NoFileLost(p)'
  BY <1>1, <1>2 DEF NoFileLost
<1>6. /\ UNCHANGED files /\ events' \in Nat
      /\ IsMap(objs', HashName, Bytes) /\ IsMap(tmps', HashName, Bytes)
      /\ wfd' \in [Host -> {None} \cup WriteFd]
      /\ active' \in BOOLEAN /\ unsafe' \in BOOLEAN
      /\ raced' \in BOOLEAN /\ unmarked' \in BOOLEAN
      /\ stale' \in SUBSET HashName /\ killed' \in SUBSET HashName
  BY Parts DEF MediumTypeOK, TypeOK, markers, history
<1>. QED BY <1>1, <1>3, <1>4, <1>5, <1>6, TurnType

\* The index is created, or truncated.
LEMMA OpenIndexType ==
  ASSUME TypeInv, NEW p \in Host, OpenIndex(p) PROVE TypeInv'
<1> DEFINE r == [py[p] EXCEPT !.pc = AfterOpen(p)]
<1>1. /\ py[p].pc = "open" /\ py' = [py EXCEPT ![p] = r]
      /\ idx' = Put(idx, Ind(p), EmptyIndex)
      /\ UNCHANGED <<files, objs, tmps, wfd, events, markers, rm, history>>
  BY DEF OpenIndex, Go
<1>2. py[p] \in Program /\ py[p].todo = Tree
  BY <1>1, Parts DEF NoFileLost, FilesKept, Step, Drafting, Scan, AtFile
<1>3. /\ r \in Program /\ r.date = py[p].date /\ r.todo = Tree
      /\ r.pc = AfterOpen(p) /\ r.pc \in {"mark unsafe", "hash"}
  BY <1>2 DEF AfterOpen, Program, Step
<1>4. /\ IsMap(idx', IndexName, IndexFile) /\ Ind(p) \in DOMAIN idx'
      /\ idx'[Ind(p)] = EmptyIndex /\ ~ idx'[Ind(p)].end
  <2>1. Ind(p) \in IndexName /\ IsMap(idx, IndexName, IndexFile) /\ EmptyIndex \in IndexFile
    BY Parts, EmptyIndexType
  <2>2. IsMap(idx', IndexName, IndexFile)
    BY <1>1, <2>1, PutType
  <2>3. Ind(p) \in DOMAIN idx' /\ idx'[Ind(p)] = EmptyIndex
    BY <1>1 DEF Put
  <2>4. ~ EmptyIndex.end
    BY DEF EmptyIndex
  <2>. QED BY <2>2, <2>3, <2>4
<1>5. OtherIndexes(p)
  <2>1. \A n \in IndexName : n[1] # p => n # Ind(p)
    BY DEF Ind, Final, Tmp
  <2>. QED BY <1>1, <2>1 DEF OtherIndexes, Put
<1> HIDE DEF r
<1>6. FilesKept(r, EmptyIndex)
  <2>1. r.pc \in Scan /\ r.pc \in Drafting
    BY <1>3 DEF Drafting, Scan
  <2>2. \A f \in File : \E d \in DOMAIN r.todo : \E i \in DOMAIN r.todo[d] : r.todo[d][i] = f
    <3>1. r.todo = Tree
      BY <1>3
    <3>2. \A f \in File : \E d \in DOMAIN Tree : \E i \in DOMAIN Tree[d] : Tree[d][i] = f
      BY NamesAssumption
    <3>. QED BY <3>1, <3>2, Zenon
  <2>. QED BY <2>1, <2>2 DEF FilesKept
<1>7. r.pc = "mark unsafe" => p \in NoRename
  BY <1>3 DEF AfterOpen
<1>. QED BY <1>1, <1>3, <1>4, <1>5, <1>6, <1>7, IndexTurnType
         DEF BackingUp, Drafting, Scan, AtFile

\* What is left of the scan once the line of a file is written.
LEMMA FileDone ==
  ASSUME NEW t \in Seq(Seq(File)), t # <<>>, Head(t) # <<>>
  PROVE  LET u == [t EXCEPT ![1] = Tail(t[1])] IN
         /\ u \in Seq(Seq(File)) /\ Head(Head(t)) \in File
         /\ \A f : (\E d \in DOMAIN t : \E i \in DOMAIN t[d] : t[d][i] = f)
               => \/ f = Head(Head(t))
                  \/ \E d \in DOMAIN u : \E i \in DOMAIN u[d] : u[d][i] = f
<1> DEFINE u == [t EXCEPT ![1] = Tail(t[1])]
<1>1. /\ Len(t) \in Nat \ {0} /\ Head(t) = t[1] /\ t[1] \in Seq(File) /\ t[1] # <<>>
      /\ DOMAIN t = 1 .. Len(t) /\ t \in [1 .. Len(t) -> Seq(File)]
  BY HeadTailProperties, LenProperties, EmptySeq, ElementOfSeq
<1> DEFINE s == t[1]
<1>2. /\ Len(s) \in Nat \ {0} /\ Head(s) = s[1] /\ Head(s) \in File
      /\ Tail(s) \in Seq(File) /\ Len(Tail(s)) = Len(s) - 1
      /\ \A i \in 1 .. Len(Tail(s)) : Tail(s)[i] = s[i + 1]
      /\ DOMAIN s = 1 .. Len(s) /\ DOMAIN Tail(s) = 1 .. Len(Tail(s))
  BY <1>1, HeadTailProperties, LenProperties, EmptySeq
<1>3. u \in [1 .. Len(t) -> Seq(File)]
  BY <1>1, <1>2
<1>4. u \in Seq(Seq(File))
  <2>. QED BY <1>1, <1>2, ExceptSeq
<1>5. DOMAIN u = DOMAIN t /\ u[1] = Tail(s) /\ \A d \in DOMAIN t : d # 1 => u[d] = t[d]
  BY <1>1
<1>6. ASSUME NEW d \in DOMAIN t, NEW i \in DOMAIN t[d], t[d][i] # Head(s)
      PROVE  \E e \in DOMAIN u : \E j \in DOMAIN u[e] : u[e][j] = t[d][i]
  <2>1. CASE d # 1
    <3>1. d \in DOMAIN u /\ u[d] = t[d]
      BY <1>5, <2>1
    <3>. QED BY <3>1
  <2>2. CASE d = 1
    <3>1. i \in DOMAIN s /\ i # 1
      BY <1>2, <1>6, <2>2
    <3>2. i - 1 \in DOMAIN Tail(s) /\ Tail(s)[i - 1] = s[i]
      <4> HIDE DEF s
      <4>. QED BY <1>2, <3>1
    <3>3. 1 \in DOMAIN u /\ i - 1 \in DOMAIN u[1] /\ u[1][i - 1] = t[d][i]
      BY <1>1, <1>5, <2>2, <3>2
    <3>. QED BY <3>3
  <2>. QED BY <2>1, <2>2
<1> HIDE DEF u
<1>7. Head(Head(t)) = Head(s) /\ Head(s) \in File
  BY <1>1, <1>2
<1>8. \A f : (\E d \in DOMAIN t : \E i \in DOMAIN t[d] : t[d][i] = f)
               => \/ f = Head(s)
                  \/ \E d \in DOMAIN u : \E i \in DOMAIN u[d] : u[d][i] = f
  BY <1>6
<1> HIDE DEF s
<1>. QED BY <1>4, <1>7, <1>8 DEF u

\* Changing the entry of an index that is there leaves the other indexes alone.
LEMMA ChangedIndex ==
  ASSUME TypeInv, NEW p \in Host, NEW x \in IndexFile, Ind(p) \in DOMAIN idx,
         idx' = [idx EXCEPT ![Ind(p)] = x]
  PROVE  /\ IsMap(idx', IndexName, IndexFile) /\ OtherIndexes(p)
         /\ DOMAIN idx' = DOMAIN idx /\ idx'[Ind(p)] = x
<1>1. Ind(p)[1] = p
  BY DEF Ind, Final, Tmp
<1>2. IsMap(idx', IndexName, IndexFile)
  BY Parts, ExceptType
<1>. QED BY <1>1, <1>2 DEF OtherIndexes

\* The line of a file is written.
LEMMA WriteLineType ==
  ASSUME TypeInv, NEW p \in Host, WriteLine(p) PROVE TypeInv'
<1> DEFINE t == py[p].todo
           u == [t EXCEPT ![1] = Tail(t[1])]
           r == [py[p] EXCEPT !.pc = "hash", !.todo = u, !.hash = None, !.off = 0]
           h == py[p].hash
           x == [idx[Ind(p)] EXCEPT !.sha1 = [@ EXCEPT ![Current(p)] = h]]
<1>1. /\ py[p].pc = "line" /\ py' = [py EXCEPT ![p] = r]
      /\ UNCHANGED <<files, objs, tmps, wfd, events, markers, rm, history>>
  BY DEF WriteLine
<1>2. /\ py[p] \in Program /\ t \in Seq(Seq(File)) /\ FilesKept(py[p], idx[Ind(p)])
      /\ h \in {None} \cup HashName /\ Ind(p) \in IndexName
      /\ IsMap(idx, IndexName, IndexFile)
  BY Parts DEF NoFileLost
<1>3. t # <<>> /\ Head(t) # <<>> /\ h # None /\ Ind(p) \in DOMAIN idx
      /\ (p \in NoRename => ~ idx[Ind(p)].end)
  BY <1>1, Parts DEF ProgramShape, AtFile, Scan, Drafting
<1>4. /\ u \in Seq(Seq(File)) /\ Current(p) \in File
      /\ \A f : (\E d \in DOMAIN t : \E i \in DOMAIN t[d] : t[d][i] = f)
               => \/ f = Current(p)
                  \/ \E d \in DOMAIN u : \E i \in DOMAIN u[d] : u[d][i] = f
  BY <1>2, <1>3, FileDone DEF Current
<1>5. idx[Ind(p)] \in IndexFile
  BY <1>2, <1>3 DEF IsMap
<1>6. /\ x \in IndexFile /\ x.end = idx[Ind(p)].end
      /\ x.sha1[Current(p)] = h
      /\ \A f \in File : f # Current(p) => x.sha1[f] = idx[Ind(p)].sha1[f]
  BY <1>2, <1>4, <1>5 DEF IndexFile
<1>7. idx' = [idx EXCEPT ![Ind(p)] = x]
  BY DEF WriteLine
<1>8. r \in Program /\ r.pc = "hash" /\ r.date = py[p].date /\ r.todo = u
  BY <1>2, <1>4 DEF Program, Step
<1> HIDE DEF r, x, u
<1>9. FilesKept(r, x)
  <2>1. r.pc \in Scan /\ r.pc \in Drafting /\ py[p].pc \in Drafting
    BY <1>1, <1>8 DEF Drafting, Scan, AtFile
  <2>2. ASSUME NEW f \in File, x.sha1[f] = None
        PROVE  \E d \in DOMAIN r.todo : \E i \in DOMAIN r.todo[d] : r.todo[d][i] = f
    <3>1. f # Current(p) /\ idx[Ind(p)].sha1[f] = None
      BY <1>3, <1>6, <2>2
    <3>2. \E d \in DOMAIN t : \E i \in DOMAIN t[d] : t[d][i] = f
      BY <1>2, <2>1, <3>1 DEF FilesKept
    <3>3. \E d \in DOMAIN u : \E i \in DOMAIN u[d] : u[d][i] = f
      BY <1>4, <3>1, <3>2
    <3>. QED BY <1>8, <3>3, Zenon
  <2>. QED BY <2>1, <2>2 DEF FilesKept
<1>10. /\ IsMap(idx', IndexName, IndexFile) /\ OtherIndexes(p)
       /\ DOMAIN idx' = DOMAIN idx /\ idx'[Ind(p)] = x
  BY <1>3, <1>6, <1>7, ChangedIndex
<1>. QED BY <1>1, <1>3, <1>6, <1>8, <1>9, <1>10, IndexTurnType
         DEF BackingUp, Drafting, Scan, AtFile

\* "[end]" is written.
LEMMA EndIndexType ==
  ASSUME TypeInv, NEW p \in Host, EndIndex(p) PROVE TypeInv'
<1> DEFINE r == [py[p] EXCEPT !.pc = IF p \in NoRename THEN "unmark unsafe" ELSE "publish"]
           x == [idx[Ind(p)] EXCEPT !.end = TRUE]
<1>1. /\ py[p].pc = "end" /\ py' = [py EXCEPT ![p] = r]
      /\ idx' = [idx EXCEPT ![Ind(p)] = x]
      /\ UNCHANGED <<files, objs, tmps, wfd, events, markers, rm, history>>
  BY DEF EndIndex, Go
<1>2. /\ py[p] \in Program /\ FilesKept(py[p], idx[Ind(p)])
      /\ Ind(p) \in IndexName /\ IsMap(idx, IndexName, IndexFile) /\ Ind(p) \in DOMAIN idx
  BY <1>1, Parts DEF NoFileLost, ProgramShape, Drafting
<1>3. x \in IndexFile /\ x.sha1 = idx[Ind(p)].sha1
  BY <1>2 DEF IsMap, IndexFile
<1>4. /\ r \in Program /\ r.date = py[p].date
      /\ r.pc = IF p \in NoRename THEN "unmark unsafe" ELSE "publish"
  BY <1>2 DEF Program, Step
<1> HIDE DEF r, x
<1>5. FilesKept(r, x)
  BY <1>1, <1>2, <1>3, <1>4 DEF FilesKept, Drafting, Scan, AtFile
<1>6. /\ IsMap(idx', IndexName, IndexFile) /\ OtherIndexes(p)
      /\ DOMAIN idx' = DOMAIN idx /\ idx'[Ind(p)] = x
  BY <1>1, <1>2, <1>3, ChangedIndex
<1>. QED BY <1>1, <1>2, <1>4, <1>5, <1>6, IndexTurnType
         DEF BackingUp, Drafting, Scan, AtFile

\* The index gets its name.
LEMMA RenameIndexType ==
  ASSUME TypeInv, NEW p \in Host, RenameIndex(p) PROVE TypeInv'
<1> DEFINE r == [py[p] EXCEPT !.pc = "unmark"]
           n == Final(p, py[p].date)
<1>1. /\ py[p].pc = "publish" /\ py' = [py EXCEPT ![p] = r]
      /\ idx' = Put(Drop(idx, Ind(p)), n, idx[Ind(p)])
      /\ UNCHANGED <<files, objs, tmps, wfd, events, markers, rm, history>>
  BY DEF RenameIndex, Go
<1>2. /\ py[p] \in Program /\ Ind(p) \in DOMAIN idx
      /\ IsMap(idx, IndexName, IndexFile) /\ n \in IndexName
  BY <1>1, Parts DEF ProgramShape, Drafting, Final, IndexName
<1>3. IsMap(idx', IndexName, IndexFile)
  <2>1. idx[Ind(p)] \in IndexFile
    BY <1>2 DEF IsMap
  <2>2. IsMap(Drop(idx, Ind(p)), IndexName, IndexFile)
    BY <1>2, DropType
  <2>. QED BY <1>1, <1>2, <2>1, <2>2, PutType
<1>4. OtherIndexes(p)
  <2>1. \A m \in IndexName : m[1] # p => m # Ind(p) /\ m # n
    BY DEF Ind, Final, Tmp
  <2>. QED BY <1>1, <2>1 DEF OtherIndexes, Put, Drop
<1>5. r \in Program /\ r.date = py[p].date /\ r.pc = "unmark"
  BY <1>2 DEF Program, Step
<1> HIDE DEF r
<1>6. FilesKept(r, idx'[Ind(p)])
  BY <1>5 DEF FilesKept, Drafting, Scan, AtFile
<1>. QED BY <1>1, <1>3, <1>4, <1>5, <1>6, IndexTurnType
         DEF BackingUp, Drafting, Scan, AtFile

\* A step of the copying of a file, or the end of the program.
LEMMA CopyTurnType ==
  ASSUME TypeInv, NEW p \in Host, NEW r \in Program, py' = [py EXCEPT ![p] = r],
         BackingUp(p), UNCHANGED <<files, idx, markers, rm, raced, unmarked>>,
         events' \in Nat,
         IsMap(objs', HashName, Bytes), IsMap(tmps', HashName, Bytes),
         wfd' \in [Host -> {None} \cup WriteFd],
         stale' \in SUBSET HashName, killed' \in SUBSET HashName,
         \A q \in Host \ {p} : /\ wfd'[q] # None <=> wfd[q] # None
                               /\ wfd[q] # None => wfd'[q].hash = wfd[q].hash,
         wfd'[p] # None <=> r.pc = "copy",
         wfd'[p] # None => wfd'[p].hash = r.hash,
         \/ r = NoProgram(p)
         \/ /\ r.pc \in {"copy", "rename", "line"} /\ py[p].pc \in AtFile
            /\ r.pc = "rename" => p \notin NoRename
            /\ r.todo = py[p].todo /\ r.hash = py[p].hash /\ r.date = py[p].date
  PROVE  TypeInv' /\ Turn(p, r)
<1>1. r.date = py[p].date /\ py'[p] = r
  BY Parts, NoProgramType
<1>2. Ind(p)' = Ind(p) /\ idx' = idx
  BY <1>1, IndStays
<1>3. Turn(p, r)
  BY <1>2 DEF Turn, OtherIndexes
<1>4. ProgramShape(p)' /\ NoFileLost(p)'
  <2>1. CASE r = NoProgram(p)
    <3>1. r.pc = "idle"
      BY <2>1, NoProgramType
    <3>. QED BY <1>1, <3>1
             DEF ProgramShape, NoFileLost, FilesKept, AtFile, Drafting, Scan, Step
  <2>2. CASE r # NoProgram(p)
    <3>1. /\ r.pc \in {"copy", "rename", "line"} /\ py[p].pc \in AtFile
          /\ r.pc = "rename" => p \notin NoRename
          /\ r.todo = py[p].todo /\ r.hash = py[p].hash
      BY <2>2
    <3>2. ProgramShape(p) /\ FilesKept(py[p], idx[Ind(p)])
      BY Parts DEF NoFileLost
    <3>3. py[p].pc \in Scan /\ r.pc \in Scan
      BY <3>1 DEF Scan, AtFile
    <3>4. FilesKept(r, idx[Ind(p)])
      BY <3>1, <3>2, <3>3, ScanKeepsFiles
    <3>5. NoFileLost(p)'
      BY <1>1, <1>2, <3>4 DEF NoFileLost
    <3>6. ProgramShape(p)'
      BY <1>1, <1>2, <3>1, <3>2, <3>3 DEF ProgramShape, Drafting
    <3>. QED BY <3>5, <3>6
  <2>. QED BY <2>1, <2>2
<1>5. /\ UNCHANGED files
      /\ IsMap(idx', IndexName, IndexFile)
      /\ active' \in BOOLEAN /\ unsafe' \in BOOLEAN
      /\ raced' \in BOOLEAN /\ unmarked' \in BOOLEAN
  BY Parts DEF TypeOK, markers
<1>. QED BY <1>1, <1>3, <1>4, <1>5, TurnType

\* Descriptors whose file loses or changes its name stay on it.
LEMMA MovedFds ==
  ASSUME wfd \in [Host -> {None} \cup WriteFd], NEW h, NEW q \in Host,
         NEW to \in [{"tmp", "obj", "gone"} -> {"tmp", "obj", "gone"}]
  PROVE  /\ Moved(h, to)[q] # None <=> wfd[q] # None
         /\ wfd[q] # None => Moved(h, to)[q].hash = wfd[q].hash
<1>1. CASE wfd[q] # None /\ wfd[q].hash = h
  <2>1. wfd[q] \in WriteFd /\ Moved(h, to)[q] = [wfd[q] EXCEPT !.at = to[@]]
    BY <1>1 DEF Moved
  <2>2. Moved(h, to)[q] \in WriteFd /\ Moved(h, to)[q].hash = wfd[q].hash
    BY <2>1 DEF WriteFd
  <2>. QED BY <1>1, <2>2, NoneAssumption
<1>2. CASE ~ (wfd[q] # None /\ wfd[q].hash = h)
  BY <1>2 DEF Moved
<1>. QED BY <1>1, <1>2

\* The destination of the copy is opened.
LEMMA CreateDestType ==
  ASSUME TypeInv, NEW p \in Host, CreateDest(p) PROVE TypeInv'
<1> DEFINE r == [py[p] EXCEPT !.pc = "copy", !.off = 0]
           h == py[p].hash
           fd == [hash |-> h, at |-> IF p \in NoRename THEN "obj" ELSE "tmp"]
<1>1. /\ py[p].pc = "create" /\ py' = [py EXCEPT ![p] = r]
      /\ UNCHANGED <<files, idx, events, markers, rm, history>>
  BY DEF CreateDest
<1>2. py[p] \in Program /\ h \in HashName /\ TypeOK /\ MediumTypeOK
  BY <1>1, Parts DEF ProgramShape, AtFile
<1>3. <<>> \in Bytes /\ fd \in WriteFd /\ fd # None
  BY <1>2, NoneAssumption DEF Bytes, WriteFd
<1>4. wfd' = [wfd EXCEPT ![p] = fd]
  BY DEF CreateDest, OpenTrunc
<1>5. /\ r \in Program /\ r.pc = "copy" /\ r.todo = py[p].todo /\ r.hash = h
      /\ r.date = py[p].date
  BY <1>2 DEF Program, Step
<1>6. IsMap(objs', HashName, Bytes) /\ IsMap(tmps', HashName, Bytes)
  <2>1. IsMap(objs, HashName, Bytes) /\ IsMap(tmps, HashName, Bytes)
    BY <1>2 DEF MediumTypeOK
  <2>2. CASE p \in NoRename
    BY <1>2, <1>3, <2>1, <2>2, PutType DEF CreateDest
  <2>3. CASE p \notin NoRename
    BY <1>2, <1>3, <2>1, <2>3, PutType DEF CreateDest, OpenTrunc
  <2>. QED BY <2>2, <2>3
<1>7. wfd' \in [Host -> {None} \cup WriteFd] /\ wfd'[p] = fd
  BY <1>2, <1>3, <1>4 DEF MediumTypeOK
<1>8. \A q \in Host \ {p} : wfd'[q] = wfd[q]
  BY <1>2, <1>4 DEF MediumTypeOK
<1>9. fd.hash = h
  OBVIOUS
<1>10. events' \in Nat /\ stale' \in SUBSET HashName /\ killed' \in SUBSET HashName
  BY <1>1, <1>2 DEF TypeOK, MediumTypeOK, history
<1> HIDE DEF r, fd
<1>. QED BY <1>1, <1>3, <1>5, <1>6, <1>7, <1>8, <1>9, <1>10, CopyTurnType
         DEF BackingUp, AtFile, history

\* A block of the file is copied, or the copy is closed.
LEMMA CopyBlockType ==
  ASSUME TypeInv, NEW p \in Host, CopyBlock(p) PROVE TypeInv'
<1> DEFINE d == src[p][Current(p)].data
           h == py[p].hash
<1>1. /\ py[p].pc = "copy" /\ UNCHANGED <<files, idx, events, markers, rm, raced, unmarked>>
      /\ stale' \in {stale, stale \cup {h}} /\ killed' = killed
  BY DEF CopyBlock
<1>2. /\ py[p] \in Program /\ h \in HashName /\ TypeOK /\ MediumTypeOK
      /\ py[p].todo # <<>> /\ Head(py[p].todo) # <<>>
      /\ wfd[p] # None /\ wfd[p].hash = h /\ py[p].off \in Nat
  BY <1>1, Parts DEF ProgramShape, AtFile
<1>3. d \in Bytes
  <2>1. Current(p) \in File
    BY <1>2, Parts DEF Current
  <2>. QED BY <2>1, Parts
<1>4. /\ wfd \in [Host -> {None} \cup WriteFd]
      /\ IsMap(objs, HashName, Bytes) /\ IsMap(tmps, HashName, Bytes)
      /\ events' \in Nat /\ stale' \in SUBSET HashName /\ killed' \in SUBSET HashName
  BY <1>1, <1>2 DEF MediumTypeOK, TypeOK
<1>5. CASE py[p].off < Len(d)
  <2> DEFINE r == [py[p] EXCEPT !.off = @ + 1]
  <2>1. /\ WriteBlock(p, py[p].off, d[py[p].off + 1]) /\ py' = [py EXCEPT ![p] = r]
        /\ wfd' = wfd
    BY <1>5 DEF CopyBlock
  <2>2. d[py[p].off + 1] \in Byte
    BY <1>2, <1>3, <1>5 DEF Bytes
  <2>3. IsMap(tmps', HashName, Bytes) /\ IsMap(objs', HashName, Bytes)
    <3>1. ASSUME NEW m, IsMap(m, HashName, Bytes)
          PROVE  IsMap([m EXCEPT ![h] = WriteAt(@, py[p].off, d[py[p].off + 1])],
                       HashName, Bytes)
      <4>1. h \in DOMAIN m =>
               WriteAt(m[h], py[p].off, d[py[p].off + 1]) \in Bytes
        BY <1>2, <2>2, <3>1, WriteAtType DEF IsMap
      <4>. QED BY <3>1, <4>1, ExceptType
    <3>2. /\ tmps' = tmps
             \/ tmps' = [tmps EXCEPT ![h] = WriteAt(@, py[p].off, d[py[p].off + 1])]
          /\ objs' = objs
             \/ objs' = [objs EXCEPT ![h] = WriteAt(@, py[p].off, d[py[p].off + 1])]
      BY <1>2, <2>1 DEF WriteBlock
    <3>. QED BY <1>4, <3>1, <3>2
  <2>4. /\ r \in Program /\ r.pc = "copy" /\ r.todo = py[p].todo /\ r.hash = h
        /\ r.date = py[p].date
    <3>1. py[p] \in Program /\ py[p].pc = "copy" /\ py[p].off + 1 \in Nat
      BY <1>1, <1>2
    <3>. QED BY <3>1 DEF Program
  <2> HIDE DEF r
  <2>. QED BY <1>1, <1>2, <1>4, <2>1, <2>3, <2>4, CopyTurnType DEF BackingUp, AtFile
<1>6. CASE ~ (py[p].off < Len(d))
  <2> DEFINE r == [py[p] EXCEPT !.pc = IF p \in NoRename THEN "line" ELSE "rename"]
  <2>1. wfd' = [wfd EXCEPT ![p] = None] /\ py' = [py EXCEPT ![p] = r]
        /\ UNCHANGED <<objs, tmps>>
    BY <1>6 DEF CopyBlock, Go
  <2>2. /\ r \in Program /\ r.pc = (IF p \in NoRename THEN "line" ELSE "rename")
        /\ r.todo = py[p].todo /\ r.hash = h /\ r.date = py[p].date
    BY <1>2 DEF Program, Step
  <2>3. wfd' \in [Host -> {None} \cup WriteFd] /\ wfd'[p] = None
        /\ \A q \in Host \ {p} : wfd'[q] = wfd[q]
    BY <1>4, <2>1
  <2> HIDE DEF r
  <2>. QED BY <1>1, <1>4, <2>1, <2>2, <2>3, CopyTurnType DEF BackingUp, AtFile
<1>. QED BY <1>5, <1>6

\* The copy gets its name, or the program ends.
LEMMA RenameDestType ==
  ASSUME TypeInv, NEW p \in Host, RenameDest(p) PROVE TypeInv'
<1> DEFINE h == py[p].hash
<1>1. py[p].pc = "rename" /\ UNCHANGED <<files, idx, events, markers, rm, history>>
  BY DEF RenameDest
<1>2. /\ py[p] \in Program /\ h \in HashName /\ TypeOK /\ MediumTypeOK
      /\ wfd[p] = None /\ wfd \in [Host -> {None} \cup WriteFd]
      /\ events' \in Nat /\ stale' \in SUBSET HashName /\ killed' \in SUBSET HashName
  BY <1>1, Parts DEF ProgramShape, AtFile, MediumTypeOK, TypeOK, history
<1>3. CASE h \in DOMAIN tmps
  <2> DEFINE r == [py[p] EXCEPT !.pc = "line"]
             to == [tmp |-> "obj", obj |-> "gone", gone |-> "gone"]
  <2>1. RenameTmp(h) /\ py' = [py EXCEPT ![p] = r] /\ wfd' = Moved(h, to)
    BY <1>3 DEF RenameDest, Go, RenameTmp
  <2>2. /\ IsMap(objs', HashName, Bytes) /\ IsMap(tmps', HashName, Bytes)
        /\ wfd' \in [Host -> {None} \cup WriteFd]
    BY <1>2, <2>1, RenameTmpType
  <2>3. to \in [{"tmp", "obj", "gone"} -> {"tmp", "obj", "gone"}]
    OBVIOUS
  <2>4. /\ r \in Program /\ r.pc = "line"
        /\ r.todo = py[p].todo /\ r.hash = h /\ r.date = py[p].date
    BY <1>2 DEF Program, Step
  <2> HIDE DEF r, to
  <2>5. \A q \in Host : /\ wfd'[q] # None <=> wfd[q] # None
                        /\ wfd[q] # None => wfd'[q].hash = wfd[q].hash
    BY <1>2, <2>1, <2>3, MovedFds
  <2>. QED BY <1>1, <1>2, <2>1, <2>2, <2>4, <2>5, CopyTurnType
           DEF BackingUp, AtFile, history
<1>4. CASE h \notin DOMAIN tmps
  <2>1. py' = [py EXCEPT ![p] = NoProgram(p)] /\ UNCHANGED <<objs, tmps, wfd>>
    BY <1>4 DEF RenameDest
  <2>. QED BY <1>1, <1>2, <2>1, StopsType DEF BackingUp, mvars, markers, files, TypeOK
<1>. QED BY <1>3, <1>4

\* A copy that fails, and a backup that is killed.
LEMMA CopyEndsType ==
  ASSUME TypeInv, NEW p \in Host, CopyFails(p) \/ KillBackup(p) PROVE TypeInv'
<1> DEFINE h == py[p].hash
<1>1. /\ BackingUp(p) /\ py' = [py EXCEPT ![p] = NoProgram(p)]
      /\ UNCHANGED <<files, idx, tmps, markers, rm, raced, unmarked>>
      /\ events' = events + 1 /\ stale' = stale
  BY DEF CopyFails, KillBackup, BackingUp, Event, history
<1>2. /\ TypeOK /\ MediumTypeOK /\ wfd \in [Host -> {None} \cup WriteFd]
      /\ events' \in Nat /\ stale' \in SUBSET HashName
      /\ IsMap(objs, HashName, Bytes) /\ IsMap(tmps', HashName, Bytes)
  BY <1>1, Parts DEF TypeOK, MediumTypeOK
<1>3. NoProgram(p) \in Program /\ NoProgram(p).pc = "idle"
  BY NoProgramType
<1>4. ASSUME IsMap(objs', HashName, Bytes), killed' \in SUBSET HashName,
             wfd' \in [Host -> {None} \cup WriteFd], wfd'[p] = None,
             \A q \in Host \ {p} : /\ wfd'[q] # None <=> wfd[q] # None
                                   /\ wfd[q] # None => wfd'[q].hash = wfd[q].hash
      PROVE  TypeInv'
  BY <1>1, <1>2, <1>3, <1>4, CopyTurnType
<1>5. CASE KillBackup(p)
  <2>1. objs' = objs /\ wfd' = [wfd EXCEPT ![p] = None]
        /\ killed' \in {killed, killed \cup {wfd[p].hash}}
        /\ (killed' # killed => wfd[p] # None)
    BY <1>5 DEF KillBackup
  <2>2. killed' \in SUBSET HashName
    BY <1>2, <2>1 DEF TypeOK, WriteFd
  <2>. QED BY <1>2, <1>4, <2>1, <2>2
<1>6. CASE CopyFails(p) /\ p \notin NoRename
  BY <1>2, <1>4, <1>6 DEF CopyFails, RemoveDest, history, TypeOK
<1>7. CASE CopyFails(p) /\ p \in NoRename
  <2> DEFINE to == [tmp |-> "tmp", obj |-> "gone", gone |-> "gone"]
  <2>1. objs' = Drop(objs, h) /\ wfd' = [Moved(h, to) EXCEPT ![p] = None] /\ killed' = killed
    BY <1>7 DEF CopyFails, RemoveDest, history
  <2>2. to \in [{"tmp", "obj", "gone"} -> {"tmp", "obj", "gone"}]
    OBVIOUS
  <2> HIDE DEF to
  <2>3. Moved(h, to) \in [Host -> {None} \cup WriteFd]
    BY <1>2, <2>2, MovedType
  <2>4. \A q \in Host : /\ Moved(h, to)[q] # None <=> wfd[q] # None
                        /\ wfd[q] # None => Moved(h, to)[q].hash = wfd[q].hash
    BY <1>2, <2>2, MovedFds
  <2>5. IsMap(objs', HashName, Bytes) /\ killed' \in SUBSET HashName
    BY <1>2, <2>1, DropType DEF TypeOK
  <2>. QED BY <1>4, <2>1, <2>3, <2>4, <2>5
<1>. QED BY <1>5, <1>6, <1>7

\* A step of something else than a backup, which leaves the drafts alone.
LEMMA OtherType ==
  ASSUME TypeInv, py' = py, MediumTypeOK',
         active' \in BOOLEAN, unsafe' \in BOOLEAN,
         raced' \in BOOLEAN, unmarked' \in BOOLEAN,
         stale' \in SUBSET HashName, killed' \in SUBSET HashName,
         \A q \in Host : /\ wfd'[q] # None <=> wfd[q] # None
                         /\ wfd[q] # None => wfd'[q].hash = wfd[q].hash,
         \A q \in Host : py[q].pc \in Drafting =>
            Ind(q) \in DOMAIN idx' /\ idx'[Ind(q)] = idx[Ind(q)],
         rm' \in Pipeline, Listing'
  PROVE  TypeInv'
<1>1. TypeOK'
  BY Parts DEF TypeOK, TypeInv
<1>2. ASSUME NEW q \in Host PROVE (ProgramShape(q) /\ NoFileLost(q))'
  <2>1. Ind(q)' = Ind(q) /\ py'[q] = py[q]
    BY IndStays
  <2>2. ProgramShape(q) /\ FilesKept(py[q], idx[Ind(q)])
    BY Parts DEF NoFileLost
  <2>3. ProgramShape(q)'
    BY <2>1, <2>2 DEF ProgramShape
  <2>4. FilesKept(py[q], idx'[Ind(q)])
    BY <2>2 DEF FilesKept
  <2>. QED BY <2>1, <2>3, <2>4 DEF NoFileLost
<1>. QED BY <1>1, <1>2 DEF TypeInv

\* The type of the cleanup.
LEMMA CleanupParts ==
  ASSUME TypeInv
  PROVE  /\ MediumTypeOK /\ Listing /\ py \in [Host -> Program]
         /\ IsMap(idx, IndexName, IndexFile) /\ IsMap(objs, HashName, Bytes)
         /\ IsMap(tmps, HashName, Bytes) /\ wfd \in [Host -> {None} \cup WriteFd]
         /\ rm \in Pipeline /\ rm.argv \in SUBSET IndexName
         /\ rm.files \in SUBSET RepoFile /\ rm.kept \in SUBSET HashName
         /\ active \in BOOLEAN /\ unsafe \in BOOLEAN
         /\ raced \in BOOLEAN /\ unmarked \in BOOLEAN
         /\ stale \in SUBSET HashName /\ killed \in SUBSET HashName
         /\ events \in Nat
BY DEF TypeInv, TypeOK, MediumTypeOK, Pipeline

\* No cleanup at all.
LEMMA NoPipelineType == NoPipeline \in Pipeline /\ NoPipeline.pc = "idle"
BY DEF NoPipeline, Pipeline

\* What find lists are files of the repository: all objects and .tmp files.
LEMMA ScannedFiles ==
  ASSUME TypeInv
  PROVE  /\ Scanned \subseteq RepoFile
         /\ \A h \in DOMAIN objs : Obj(h) \in Scanned
         /\ \A h \in DOMAIN tmps : TmpOf(h) \in Scanned
<1>1. DOMAIN objs \subseteq HashName /\ DOMAIN tmps \subseteq HashName
  BY CleanupParts DEF IsMap
<1>. QED BY <1>1 DEF Scanned, RepoFile, Obj, TmpOf

\* The steps of a cleanup that do not remove anything.
LEMMA CleanupReadsType ==
  ASSUME TypeInv,
         \/ StartCleanup \/ ScanRepo \/ (\E n \in IndexName : ParseIndex(n))
         \/ PrintFiles \/ RmDone \/ KillCleanup
  PROVE  TypeInv'
<1>1. ASSUME UNCHANGED <<files, medium, py>>, events' \in Nat, rm' \in Pipeline,
             UNCHANGED <<markers, stale, killed, raced>>, unmarked' \in BOOLEAN, Listing'
      PROVE  TypeInv'
  <2>1. MediumTypeOK'
    BY <1>1, CleanupParts DEF MediumTypeOK, files, medium
  <2>2. /\ active' \in BOOLEAN /\ unsafe' \in BOOLEAN /\ raced' \in BOOLEAN
        /\ stale' \in SUBSET HashName /\ killed' \in SUBSET HashName
    BY <1>1, CleanupParts DEF markers
  <2>3. \A q \in Host : py[q].pc \in Drafting =>
            Ind(q) \in DOMAIN idx' /\ idx'[Ind(q)] = idx[Ind(q)]
    BY <1>1, Parts DEF medium, ProgramShape
  <2>. QED BY <1>1, <2>1, <2>2, <2>3, OtherType DEF medium
<1>2. ASSUME UNCHANGED <<mvars, markers, py, history>>, rm' \in Pipeline, Listing'
      PROVE  TypeInv'
  BY <1>1, <1>2, CleanupParts DEF mvars, files, medium, history
<1>3. CASE StartCleanup
  <2>1. PICK argv \in {Published, DOMAIN idx} \ {{}} :
                rm' = [NoPipeline EXCEPT !.pc = "scan", !.argv = argv]
    BY <1>3 DEF StartCleanup
  <2>2. argv \in SUBSET IndexName
    BY CleanupParts DEF Published, IsMap
  <2>3. rm' \in Pipeline /\ rm'.pc = "scan" /\ rm'.kept = {}
    BY <2>1, <2>2 DEF NoPipeline, Pipeline
  <2>4. (\A p \in Host : ~ BackingUp(p)) /\ UNCHANGED <<mvars, markers, py, history>>
    BY <1>3 DEF StartCleanup
  <2>5. Listing'
    BY <2>3, <2>4 DEF Listing, BackingUp
  <2>. QED BY <1>2, <2>3, <2>4, <2>5
<1>4. CASE ScanRepo
  <2>1. rm.pc = "scan" /\ rm' = [rm EXCEPT !.pc = "parse", !.files = Scanned]
        /\ UNCHANGED <<mvars, markers, py, history>>
    BY <1>4 DEF ScanRepo
  <2>2. rm' \in Pipeline /\ rm'.pc = "parse" /\ rm'.files = Scanned /\ rm'.kept = {}
    BY <2>1, CleanupParts, ScannedFiles DEF Pipeline, Listing
  <2>3. Listing'
    BY <2>1, <2>2, CleanupParts, ScannedFiles DEF Listing, BackingUp, mvars, Obj, TmpOf
  <2>. QED BY <1>2, <2>1, <2>2, <2>3
<1>5. ASSUME NEW n \in IndexName, ParseIndex(n) PROVE TypeInv'
  <2>1. rm.pc = "parse" /\ UNCHANGED <<mvars, markers, py, history>>
    BY <1>5 DEF ParseIndex
  <2>2. CASE n \in DOMAIN idx /\ idx[n].end
    <3> DEFINE hs == HashesOf(idx[n])
    <3>1. rm' = [rm EXCEPT !.argv = @ \ {n},
                           !.files = @ \ [name : {"obj"}, hash : hs], !.kept = @ \cup hs]
      BY <1>5, <2>2 DEF ParseIndex
    <3>2. hs \in SUBSET HashName
      BY <2>2, CleanupParts, HashesOfType DEF IsMap
    <3> HIDE DEF hs
    <3>3. /\ rm' \in Pipeline /\ rm'.pc = "parse" /\ rm'.kept = rm.kept \cup hs
          /\ rm'.files = rm.files \ [name : {"obj"}, hash : hs]
      BY <2>1, <3>1, <3>2, CleanupParts DEF Pipeline
    <3>4. \A h \in DOMAIN objs : h \in rm'.kept \/ Obj(h) \in rm'.files
      BY <2>1, <3>3, CleanupParts DEF Listing, Obj
    <3>5. \A h \in DOMAIN tmps : TmpOf(h) \in rm'.files
      BY <2>1, <3>3, CleanupParts DEF Listing, TmpOf
    <3>6. \A h \in rm'.kept : Obj(h) \notin rm'.files
      BY <2>1, <3>3, CleanupParts DEF Listing, Obj
    <3>7. Listing'
      BY <2>1, <3>3, <3>4, <3>5, <3>6, CleanupParts DEF Listing, BackingUp, mvars, Obj, TmpOf
    <3>. QED BY <1>2, <2>1, <3>3, <3>7
  <2>3. CASE ~ (n \in DOMAIN idx /\ idx[n].end)
    <3>1. rm' = NoPipeline
      BY <1>5, <2>3 DEF ParseIndex
    <3>. QED BY <1>2, <2>1, <3>1, NoPipelineType DEF Listing
  <2>. QED BY <2>2, <2>3
<1>6. CASE PrintFiles
  <2>1. rm.pc = "parse" /\ rm.argv = {} /\ rm' = [rm EXCEPT !.pc = "rm"]
        /\ UNCHANGED <<mvars, markers, py, history>>
    BY <1>6 DEF PrintFiles
  <2>2. /\ rm' \in Pipeline /\ rm'.pc = "rm" /\ rm'.argv = {} /\ rm'.files = rm.files
        /\ rm'.kept = rm.kept
    BY <2>1, CleanupParts DEF Pipeline
  <2>3. Listing'
    BY <2>1, <2>2, CleanupParts DEF Listing, BackingUp, mvars, Obj, TmpOf
  <2>. QED BY <1>2, <2>1, <2>2, <2>3
<1>7. CASE RmDone
  BY <1>2, <1>7, NoPipelineType DEF RmDone, Listing
<1>8. CASE KillCleanup
  <2>1. UNCHANGED <<files, medium, markers, py, stale, killed, raced>>
        /\ events' = events + 1 /\ rm' = NoPipeline /\ unmarked' \in BOOLEAN
    BY <1>8, CleanupParts DEF KillCleanup, Event
  <2>. QED BY <1>1, <2>1, CleanupParts, NoPipelineType DEF Listing
<1>. QED BY <1>3, <1>4, <1>5, <1>6, <1>7, <1>8

\* xargs rm removes a file.
LEMMA RmType ==
  ASSUME TypeInv, NEW x \in rm.files, Rm(x) PROVE TypeInv'
<1>1. /\ rm.pc = "rm" /\ rm' = [rm EXCEPT !.files = @ \ {x}]
      /\ active' = (active /\ x.name # "active") /\ unsafe' = (unsafe /\ x.name # "unsafe")
      /\ UNCHANGED <<files, idx, events, py, history>>
  BY DEF Rm
<1>2. x \in RepoFile
  BY CleanupParts
<1>3. /\ rm' \in Pipeline /\ rm'.pc = "rm" /\ rm'.argv = rm.argv
      /\ rm'.files = rm.files \ {x} /\ rm'.kept = rm.kept
  BY <1>1, CleanupParts DEF Pipeline
<1> DEFINE objTo == [tmp |-> "tmp", obj |-> "gone", gone |-> "gone"]
           tmpTo == [tmp |-> "gone", obj |-> "obj", gone |-> "gone"]
<1>4. CASE x.name = "obj"
  <2>1. RemoveObj(x.hash) /\ tmps' = tmps /\ x = Obj(x.hash)
    BY <1>2, <1>4 DEF Rm, RepoFile, Obj
  <2>2. /\ IsMap(objs', HashName, Bytes) /\ wfd' \in [Host -> {None} \cup WriteFd]
    BY <2>1, CleanupParts, RemoveObjType
  <2>3. wfd' = Moved(x.hash, objTo) /\ DOMAIN objs' = DOMAIN objs \ {x.hash}
    BY <2>1 DEF RemoveObj, Drop
  <2>4. objTo \in [{"tmp", "obj", "gone"} -> {"tmp", "obj", "gone"}]
    OBVIOUS
  <2> HIDE DEF objTo, tmpTo
  <2>5. \A q \in Host : /\ wfd'[q] # None <=> wfd[q] # None
                        /\ wfd[q] # None => wfd'[q].hash = wfd[q].hash
    BY <2>3, <2>4, CleanupParts, MovedFds
  <2>6. MediumTypeOK'
    BY <1>1, <2>1, <2>2, CleanupParts DEF MediumTypeOK, files
  <2>7. /\ \A h \in DOMAIN objs' : h \in rm'.kept \/ Obj(h) \in rm'.files
        /\ \A h \in DOMAIN tmps' : TmpOf(h) \in rm'.files
        /\ \A h \in rm'.kept : Obj(h) \notin rm'.files
    BY <1>1, <1>3, <2>1, <2>3, CleanupParts DEF Listing, Obj, TmpOf
  <2>8. Listing'
    BY <1>1, <1>3, <2>7, CleanupParts DEF Listing, BackingUp, Obj, TmpOf
  <2>9. \A q \in Host : py[q].pc \in Drafting =>
            Ind(q) \in DOMAIN idx' /\ idx'[Ind(q)] = idx[Ind(q)]
    BY <1>1, Parts DEF ProgramShape
  <2>. QED BY <1>1, <1>3, <2>5, <2>6, <2>8, <2>9, OtherType, CleanupParts DEF history
<1>5. CASE x.name = "tmp"
  <2>1. RemoveTmp(x.hash) /\ objs' = objs /\ x = TmpOf(x.hash)
    BY <1>2, <1>5 DEF Rm, RepoFile, TmpOf
  <2>2. /\ IsMap(tmps', HashName, Bytes) /\ wfd' \in [Host -> {None} \cup WriteFd]
    BY <2>1, CleanupParts, RemoveTmpType
  <2>3. wfd' = Moved(x.hash, tmpTo) /\ DOMAIN tmps' = DOMAIN tmps \ {x.hash}
    BY <2>1 DEF RemoveTmp, Drop
  <2>4. tmpTo \in [{"tmp", "obj", "gone"} -> {"tmp", "obj", "gone"}]
    OBVIOUS
  <2> HIDE DEF objTo, tmpTo
  <2>5. \A q \in Host : /\ wfd'[q] # None <=> wfd[q] # None
                        /\ wfd[q] # None => wfd'[q].hash = wfd[q].hash
    BY <2>3, <2>4, CleanupParts, MovedFds
  <2>6. MediumTypeOK'
    BY <1>1, <2>1, <2>2, CleanupParts DEF MediumTypeOK, files
  <2>7. /\ \A h \in DOMAIN objs' : h \in rm'.kept \/ Obj(h) \in rm'.files
        /\ \A h \in DOMAIN tmps' : TmpOf(h) \in rm'.files
        /\ \A h \in rm'.kept : Obj(h) \notin rm'.files
    BY <1>1, <1>3, <2>1, <2>3, CleanupParts DEF Listing, Obj, TmpOf
  <2>8. Listing'
    BY <1>1, <1>3, <2>7, CleanupParts DEF Listing, BackingUp, Obj, TmpOf
  <2>9. \A q \in Host : py[q].pc \in Drafting =>
            Ind(q) \in DOMAIN idx' /\ idx'[Ind(q)] = idx[Ind(q)]
    BY <1>1, Parts DEF ProgramShape
  <2>. QED BY <1>1, <1>3, <2>5, <2>6, <2>8, <2>9, OtherType, CleanupParts DEF history
<1>6. CASE x.name \notin {"obj", "tmp"}
  <2>1. UNCHANGED <<objs, tmps, wfd>>
    BY <1>6 DEF Rm
  <2>2. MediumTypeOK'
    BY <1>1, <2>1, CleanupParts DEF MediumTypeOK, files
  <2>3. Listing'
    BY <1>1, <1>3, <1>6, <2>1, CleanupParts DEF Listing, BackingUp, Obj, TmpOf
  <2>4. \A q \in Host : py[q].pc \in Drafting =>
            Ind(q) \in DOMAIN idx' /\ idx'[Ind(q)] = idx[Ind(q)]
    BY <1>1, Parts DEF ProgramShape
  <2>. QED BY <1>1, <1>3, <2>1, <2>2, <2>3, <2>4, OtherType, CleanupParts DEF history
<1>. QED BY <1>4, <1>5, <1>6

\* What a user does.
LEMMA UserType ==
  ASSUME TypeInv, User PROVE TypeInv'
<1>1. ASSUME py' = py, rm' = rm, UNCHANGED <<objs, tmps, wfd>>, MediumTypeOK',
             active' \in BOOLEAN, unsafe' \in BOOLEAN, unmarked' \in BOOLEAN,
             UNCHANGED <<stale, killed, raced>>,
             \A q \in Host : py[q].pc \in Drafting =>
                Ind(q) \in DOMAIN idx' /\ idx'[Ind(q)] = idx[Ind(q)]
      PROVE  TypeInv'
  <2>1. Listing'
    BY <1>1, CleanupParts DEF Listing, BackingUp
  <2>. QED BY <1>1, <2>1, OtherType, CleanupParts
<1>2. ASSUME NEW p \in Host, NEW f \in File, Edit(p, f),
             UNCHANGED <<markers, py, rm, history>>
      PROVE  TypeInv'
  <2>1. PICK d \in Content : src' = [src EXCEPT ![p][f] =
                [data |-> d, stamp |-> clock, again |-> src[p][f].stamp = clock]]
    BY <1>2 DEF Edit
  <2>2. [data |-> d, stamp |-> clock, again |-> src[p][f].stamp = clock] \in SourceFile
    BY NamesAssumption, CleanupParts DEF SourceFile, Bytes, MediumTypeOK
  <2>3. src' \in [Host -> [File -> SourceFile]]
    BY <2>1, <2>2, CleanupParts DEF MediumTypeOK
  <2>4. MediumTypeOK'
    BY <1>2, <2>3, CleanupParts DEF MediumTypeOK, Edit, Event
  <2>5. \A q \in Host : py[q].pc \in Drafting =>
            Ind(q) \in DOMAIN idx' /\ idx'[Ind(q)] = idx[Ind(q)]
    BY <1>2, Parts DEF ProgramShape, Edit
  <2>. QED BY <1>1, <1>2, <2>4, <2>5, CleanupParts DEF Edit, markers, history
<1>3. ASSUME NEW n \in Published, DeleteIndex(n), UNCHANGED <<markers, py, rm, history>>
      PROVE  TypeInv'
  <2>1. MediumTypeOK'
    BY <1>3, CleanupParts, DropType DEF MediumTypeOK, DeleteIndex, Event
  <2>2. ASSUME NEW q \in Host, py[q].pc \in Drafting
        PROVE  Ind(q) \in DOMAIN idx' /\ idx'[Ind(q)] = idx[Ind(q)]
    <3>1. Ind(q) # n
      <4>1. n[3] = "final" /\ idx[n].end
        BY DEF Published
      <4>2. CASE q \in NoRename
        BY <2>2, <4>1, <4>2, Parts DEF ProgramShape
      <4>3. CASE q \notin NoRename
        <5>1. Ind(q)[3] = "tmp"
          BY <4>3 DEF Ind, Tmp
        <5>. QED BY <4>1, <5>1
      <4>. QED BY <4>2, <4>3
    <3>2. Ind(q) \in DOMAIN idx
      BY <2>2, Parts DEF ProgramShape
    <3>. QED BY <1>3, <3>1, <3>2 DEF DeleteIndex, Drop
  <2>. QED BY <1>1, <1>3, <2>1, <2>2, CleanupParts DEF DeleteIndex, markers, history
<1>4. CASE TidyUp
  <2>1. /\ \A p \in Host : ~ BackingUp(p)
        /\ idx' = [n \in {m \in DOMAIN idx : idx[m].end} |-> idx[n]]
        /\ unmarked' \in BOOLEAN /\ active' = FALSE /\ unsafe' = FALSE /\ events' = events + 1
        /\ UNCHANGED <<files, objs, tmps, wfd, py, rm, stale, killed, raced>>
    BY <1>4, CleanupParts DEF TidyUp, Event
  <2>2. IsMap(idx', IndexName, IndexFile)
    BY <2>1, CleanupParts DEF IsMap
  <2>3. MediumTypeOK'
    BY <2>1, <2>2, CleanupParts DEF MediumTypeOK, files
  <2>4. \A q \in Host : py[q].pc \notin Drafting
    BY <2>1 DEF BackingUp, Drafting, Scan, AtFile
  <2>. QED BY <1>1, <2>1, <2>3, <2>4
<1>. QED BY <1>2, <1>3, <1>4 DEF User

\* At the start nobody does anything.
LEMMA InitType ==
  ASSUME Init PROVE TypeInv
<1>1. MediumTypeOK
  BY MediumInitType DEF Init
<1>2. py \in [Host -> Program] /\ \A p \in Host : py[p].pc = "idle"
  <2> DEFINE fresh == [pc : {"idle"}, date : Date, todo : {<<>>}, hash : {None}, off : {0}]
  <2>1. ASSUME NEW x \in fresh PROVE x \in Program /\ x.pc = "idle"
    <3>1. /\ x.pc = "idle" /\ x.date \in Date /\ x.todo = <<>> /\ x.hash = None /\ x.off = 0
          /\ x = [pc |-> x.pc, date |-> x.date, todo |-> x.todo, hash |-> x.hash, off |-> x.off]
      BY <2>1
    <3>2. x.todo \in Seq(Seq(File)) /\ x.off \in Nat
      BY <3>1
    <3>. QED BY <3>1, <3>2 DEF Program
  <2>. QED BY <2>1 DEF Init
<1>3. \A p \in Host : wfd[p] = None
  BY DEF Init, MediumInit
<1>4. rm = NoPipeline /\ rm \in Pipeline /\ rm.pc = "idle"
  BY NoPipelineType DEF Init
<1>5. TypeOK
  BY <1>1, <1>2, <1>3, <1>4 DEF TypeOK, Init
<1>6. \A p \in Host : ProgramShape(p) /\ NoFileLost(p)
  BY <1>2, <1>3 DEF ProgramShape, NoFileLost, FilesKept, AtFile, Drafting, Scan, Step
<1>. QED BY <1>4, <1>5, <1>6 DEF TypeInv, Listing

\* Every step keeps to the types, and loses no file.
LEMMA NextType ==
  ASSUME TypeInv, [Next]_vars PROVE TypeInv'
<1>1. CASE UNCHANGED vars
  <2>1. \A p \in Host : Ind(p)' = Ind(p)
    BY <1>1, IndStays DEF vars
  <2>2. TypeOK'
    BY <1>1 DEF TypeInv, TypeOK, MediumTypeOK, vars, mvars, markers, history
  <2>3. ASSUME NEW p \in Host PROVE (ProgramShape(p) /\ NoFileLost(p))'
    BY <1>1, <2>1, Parts DEF ProgramShape, NoFileLost, vars, mvars
  <2>4. Listing'
    BY <1>1 DEF TypeInv, Listing, BackingUp, vars, mvars
  <2>. QED BY <2>2, <2>3, <2>4 DEF TypeInv
<1>2. ASSUME NEW p \in Host,
             (\E d \in Date : StartBackup(p, d)) \/ BackupStep(p)
                \/ CopyFails(p) \/ KillBackup(p)
      PROVE  TypeInv'
  BY <1>2, MarkersType, ScanType, OpenIndexType, WriteLineType, EndIndexType,
     RenameIndexType, CreateDestType, CopyBlockType, RenameDestType, CopyEndsType
     DEF BackupStep
<1>3. CASE StartCleanup \/ CleanupStep \/ KillCleanup
  BY <1>3, CleanupReadsType, RmType DEF CleanupStep
<1>. QED BY <1>1, <1>2, <1>3, UserType DEF Next

LEMMA AlwaysTyped == Spec => []TypeInv
BY InitType, NextType, PTL DEF Spec

\* The variables keep their types, and a descriptor is open just while a file
\* is being copied (hbackup:536-571).
THEOREM PyTypes == Spec => []TypeOK
<1>1. TypeInv => TypeOK
  BY DEF TypeInv
<1>. QED BY <1>1, AlwaysTyped, PTL

\* Whatever overlaps, a cleanup that has come to its end has left what the
\* indexes it was given need and nothing else (hbackup:799-820).
THEOREM SweepListsAll == Spec => []PySweepComplete
<1>1. TypeInv => PySweepComplete
  BY DEF TypeInv, Listing, PySweepComplete
<1>. QED BY <1>1, AlwaysTyped, PTL

----------------------------------------------------------------------------
(***************************************************************************)
(* Backups that did not race.                                              *)
(***************************************************************************)
\* A step of a backup that is past the markers.
LEMMA InsideAlone ==
  ASSUME TypeInv, Alone, NEW p \in Host, NEW r \in Program, Inside(p),
         py' = [py EXCEPT ![p] = r],
         r.pc \notin {"idle", "unsafe?", "active?", "mark"} => active' = active,
         p \in NoRename =>
            \/ r.pc \in {"idle", "unsafe?", "active?", "mark", "open", "mark unsafe", "unmark"}
            \/ unsafe'
  PROVE  Alone'
<1>1. py'[p] = r /\ \A q \in Host \ {p} : py'[q] = py[q]
  BY Parts
<1>2. \A q \in Host \ {p} : ~ Inside(q)'
  BY <1>1 DEF Alone, Inside, Step
<1>3. /\ \A q \in Host \ {p} : py'[q].pc \in {"idle", "unsafe?", "active?"}
      /\ p \in NoRename /\ py[p].pc \notin {"open", "mark unsafe", "unmark"} => unsafe
  BY <1>1 DEF Alone
<1>4. ASSUME Inside(p)'
      PROVE  /\ active'
             /\ p \in NoRename /\ py'[p].pc \notin {"open", "mark unsafe", "unmark"} => unsafe'
  <2>1. r.pc \notin {"idle", "unsafe?", "active?", "mark"} /\ py'[p].pc = r.pc
    BY <1>1, <1>4 DEF Inside, Step
  <2>2. active /\ active' = active
    BY <2>1 DEF Alone
  <2>3. p \in NoRename /\ r.pc \notin {"open", "mark unsafe", "unmark"} => unsafe'
    BY <2>1
  <2>. QED BY <2>1, <2>2, <2>3
<1>. QED BY <1>2, <1>3, <1>4 DEF Alone

\* A step of one that is not, and does not get there.
LEMMA OutsideAlone ==
  ASSUME TypeInv, Alone, NEW p \in Host, NEW r \in Program, ~ Inside(p),
         py' = [py EXCEPT ![p] = r], UNCHANGED markers,
         r.pc \in {"idle", "unsafe?", "active?"} \/ (r.pc = "mark" /\ ~ active)
  PROVE  Alone'
<1>1. py'[p] = r /\ (\A q \in Host \ {p} : py'[q] = py[q]) /\ active' = active /\ unsafe' = unsafe
  BY Parts DEF markers
<1>2. ~ Inside(p)'
  BY <1>1 DEF Inside, Step
<1>3. \A q \in Host \ {p} : Inside(q)' => Inside(q)
  BY <1>1 DEF Inside
<1>. QED BY <1>1, <1>2, <1>3 DEF Alone

\* The marker is made: without a race nobody else is past it.
LEMMA MarkAlone ==
  ASSUME TypeInv, Alone, NEW p \in Host, MakeActive(p), ~ raced'
  PROVE  Alone'
<1> DEFINE r == [py[p] EXCEPT !.pc = "open"]
<1>1. /\ py' = [py EXCEPT ![p] = r] /\ active' = TRUE
      /\ \A q \in Host \ {p} : py[q].pc \notin Step \ {"unsafe?", "active?"}
  BY DEF MakeActive, Go
<1>2. \A q \in Host : py[q].pc \in {"idle"} \cup Step
  BY Parts DEF Program
<1>3. py'[p] = r /\ (\A q \in Host \ {p} : py'[q] = py[q]) /\ r.pc = "open"
  BY <1>1, Parts DEF Program
<1> HIDE DEF r
<1>4. \A q \in Host \ {p} : py'[q].pc \in {"idle", "unsafe?", "active?"}
  BY <1>1, <1>2, <1>3
<1>. QED BY <1>1, <1>3, <1>4 DEF Alone, Inside, Step

\* A step of a backup that leaves the repository alone.
LEMMA UntouchedCopy ==
  ASSUME TypeInv, CopyInv, NEW p \in Host, NEW r, py' = [py EXCEPT ![p] = r],
         UNCHANGED <<objs, tmps, wfd, stale, killed>>, Alone',
         \/ r.pc \notin {"create", "copy", "rename"}
         \/ r.pc = "create" /\ r.hash \notin DOMAIN objs
  PROVE  CopyInv'
<1>1. py'[p] = r /\ \A q \in Host \ {p} : py'[q] = py[q]
  BY Parts
<1>2. (Cut \subseteq killed)'
  BY DEF CopyInv, Cut, Intact
<1>3. \A q \in Host \ {p} : CopyOf(q)'
  BY <1>1 DEF CopyInv, CopyOf, Dest
<1>4. CopyOf(p)'
  BY <1>1 DEF CopyOf
<1>. QED BY <1>2, <1>3, <1>4 DEF CopyInv

\* The steps to and through the markers.
LEMMA MarkersCopy ==
  ASSUME TypeInv, CopyInv, ~ raced', NEW p \in Host,
         \/ (\E d \in Date : StartBackup(p, d)) \/ TestMarker(p) \/ MakeActive(p)
         \/ RemoveMarker(p)
  PROVE  CopyInv'
<1>1. py[p] \in Program /\ Alone /\ NoProgram(p) \in Program /\ NoProgram(p).pc = "idle"
  BY Parts, NoProgramType DEF CopyInv
<1>2. ASSUME NEW r \in Program, py' = [py EXCEPT ![p] = r], ~ Inside(p),
             UNCHANGED <<mvars, markers, rm, history>>,
             r.pc \in {"idle", "unsafe?", "active?"} \/ (r.pc = "mark" /\ ~ active)
      PROVE  CopyInv'
  <2>1. Alone'
    BY <1>1, <1>2, OutsideAlone
  <2>. QED BY <1>2, <2>1, UntouchedCopy DEF mvars, history
<1>3. ASSUME NEW d \in Date, StartBackup(p, d) PROVE CopyInv'
  <2> DEFINE r == [py[p] EXCEPT !.pc = "unsafe?", !.date = d, !.todo = Tree]
  <2>1. r \in Program /\ r.pc = "unsafe?"
    BY <1>1, NamesAssumption DEF Program, Step
  <2>2. ~ Inside(p) /\ py' = [py EXCEPT ![p] = r] /\ UNCHANGED <<mvars, markers, rm, history>>
    BY <1>3 DEF StartBackup, BackingUp, Inside, Step
  <2> HIDE DEF r
  <2>. QED BY <1>2, <2>1, <2>2
<1>4. CASE TestMarker(p)
  <2>1. ~ Inside(p) /\ UNCHANGED <<mvars, markers, rm, history>>
    BY <1>4 DEF TestMarker, Inside
  <2>2. \/ py' = [py EXCEPT ![p] = NoProgram(p)]
        \/ py' = [py EXCEPT ![p] = [py[p] EXCEPT !.pc = "active?"]]
        \/ py' = [py EXCEPT ![p] = [py[p] EXCEPT !.pc = "mark"]] /\ ~ active
    BY <1>4 DEF TestMarker, Go
  <2>3. [py[p] EXCEPT !.pc = "active?"] \in Program /\ [py[p] EXCEPT !.pc = "mark"] \in Program
    BY <1>1 DEF Program, Step
  <2>4. [py[p] EXCEPT !.pc = "active?"].pc = "active?" /\ [py[p] EXCEPT !.pc = "mark"].pc = "mark"
    BY <1>1 DEF Program
  <2>. QED BY <1>1, <1>2, <2>1, <2>2, <2>3, <2>4
<1>5. CASE MakeActive(p)
  <2> DEFINE r == [py[p] EXCEPT !.pc = "open"]
  <2>1. py' = [py EXCEPT ![p] = r] /\ r.pc = "open"
        /\ UNCHANGED <<objs, tmps, wfd, stale, killed>>
    BY <1>1, <1>5 DEF MakeActive, Go, mvars, Program
  <2>2. Alone'
    BY <1>1, <1>5, MarkAlone
  <2> HIDE DEF r
  <2>. QED BY <2>1, <2>2, UntouchedCopy
<1>6. CASE RemoveMarker(p)
  <2> DEFINE s == [py[p] EXCEPT !.pc = "unmark"]
  <2>1. s \in Program /\ s.pc = "unmark"
    BY <1>1 DEF Program, Step
  <2>2. /\ Inside(p) /\ UNCHANGED <<objs, tmps, wfd, stale, killed>>
        /\ \/ py' = [py EXCEPT ![p] = s] /\ active' = active
           \/ py' = [py EXCEPT ![p] = NoProgram(p)]
    BY <1>6 DEF RemoveMarker, Go, mvars, history, Inside, Step
  <2> HIDE DEF s
  <2>3. Alone'
    BY <1>1, <2>1, <2>2, InsideAlone
  <2>. QED BY <1>1, <2>1, <2>2, <2>3, UntouchedCopy
<1>. QED BY <1>3, <1>4, <1>5, <1>6

\* The steps with the index in hand.
LEMMA ScanCopy ==
  ASSUME TypeInv, CopyInv, NEW p \in Host,
         \/ OpenIndex(p) \/ MakeUnsafe(p) \/ HashFile(p) \/ ScanReturns(p) \/ IsFile(p)
         \/ WriteLine(p) \/ EndIndex(p) \/ RenameIndex(p)
  PROVE  CopyInv'
<1>1. /\ py[p] \in Program /\ Alone /\ ProgramShape(p) /\ TypeInv'
      /\ py \in [Host -> Program]
  BY Parts, ScanType, OpenIndexType, WriteLineType, EndIndexType, RenameIndexType DEF CopyInv
<1>2. py'[p] \in Program
  BY <1>1, Parts DEF TypeInv, TypeOK
<1>3. /\ Inside(p) /\ active' = active
      /\ UNCHANGED <<objs, tmps, wfd, stale, killed>>
      /\ py' = [py EXCEPT ![p] = py'[p]]
  BY <1>1 DEF OpenIndex, MakeUnsafe, HashFile, ScanReturns, IsFile, WriteLine, EndIndex,
         RenameIndex, Go, Inside, Step, mvars, markers, history
<1>4. /\ p \in NoRename =>
            \/ py'[p].pc \in {"mark unsafe", "unmark"}
            \/ unsafe'
      /\ \/ py'[p].pc \notin {"create", "copy", "rename"}
         \/ py'[p].pc = "create" /\ py'[p].hash \notin DOMAIN objs
  <2>1. CASE OpenIndex(p)
    BY <1>1, <2>1 DEF OpenIndex, Go, AfterOpen, Program
  <2>2. CASE MakeUnsafe(p)
    BY <1>1, <2>2 DEF MakeUnsafe, Go, Program
  <2>3. p \in NoRename /\ py[p].pc \in {"hash", "isfile", "line", "end", "publish"} => unsafe
    BY <1>1 DEF Alone, Inside, Step
  <2>4. CASE HashFile(p)
    BY <1>1, <2>3, <2>4 DEF HashFile, Program, markers
  <2>5. CASE ScanReturns(p)
    BY <1>1, <2>3, <2>5 DEF ScanReturns, Go, Program, markers
  <2>6. CASE IsFile(p)
    BY <1>1, <2>3, <2>6 DEF IsFile, Go, Program, markers, Have
  <2>7. CASE WriteLine(p)
    BY <1>1, <2>3, <2>7 DEF WriteLine, Program, markers
  <2>8. CASE EndIndex(p)
    BY <1>1, <2>3, <2>8 DEF EndIndex, Go, Program, markers
  <2>9. CASE RenameIndex(p)
    BY <1>1, <2>9 DEF RenameIndex, Go, Program
  <2>. QED BY <2>1, <2>2, <2>4, <2>5, <2>6, <2>7, <2>8, <2>9
<1> DEFINE r == py'[p]
<1>5. /\ r \in Program /\ py' = [py EXCEPT ![p] = r]
      /\ p \in NoRename => r.pc \in {"mark unsafe", "unmark"} \/ unsafe'
      /\ r.pc \notin {"create", "copy", "rename"}
         \/ (r.pc = "create" /\ r.hash \notin DOMAIN objs)
  BY <1>2, <1>3, <1>4
<1> HIDE DEF r
<1>6. Alone'
  BY <1>1, <1>3, <1>5, InsideAlone
<1>. QED BY <1>3, <1>5, <1>6, UntouchedCopy

\* While a backup is past the markers only it has a file of the repository open.
LEMMA OnlyFd ==
  ASSUME TypeInv, Alone, NEW p \in Host, Inside(p), NEW q \in Host \ {p}
  PROVE  wfd[q] = None /\ py[q].pc \in {"idle", "unsafe?", "active?"}
<1>1. py[q].pc \in {"idle", "unsafe?", "active?"}
  BY DEF Alone
<1>. QED BY <1>1, Parts

\* The descriptor of p is on the object h.
On(p, h) == [hash |-> h, at |-> "obj"]

\* A step of the copying that leaves wrong objects in left behind.
LEMMA CopyLeaves ==
  ASSUME TypeInv, CopyInv, NEW p \in Host, NEW r \in Program, Inside(p),
         py' = [py EXCEPT ![p] = r], UNCHANGED markers,
         r.pc = "idle" \/ (py[p].pc \in AtFile /\ Inside(p)'),
         CopyOf(p)', stale \subseteq stale', killed \subseteq killed',
         NEW left \in SUBSET killed',
         IsMap(objs', HashName, Bytes),
         \A h \in DOMAIN objs' :
            \/ h \in DOMAIN objs /\ objs'[h] = objs[h] /\ wfd[p] # On(p, h)
            \/ h \in stale' \/ Hash(objs'[h]) = h \/ wfd'[p] = On(p, h)
            \/ h \in left
  PROVE  CopyInv' /\ Cut' \subseteq Cut \cup left
<1>1. py'[p] = r /\ (\A q \in Host \ {p} : py'[q] = py[q]) /\ Alone
  BY Parts DEF CopyInv
<1>2. Alone'
  <2>1. p \in NoRename /\ r.pc # "idle" => unsafe'
    BY <1>1 DEF Alone, AtFile, markers
  <2>. QED BY <1>1, <2>1, InsideAlone DEF markers
<1>3. \A q \in Host \ {p} : CopyOf(q)'
  BY <1>1, OnlyFd DEF CopyOf
<1>4. ASSUME NEW h \in Cut' PROVE h \in Cut \cup left
  <2>1. /\ h \in DOMAIN objs' /\ h \notin stale' /\ Hash(objs'[h]) # h
        /\ \A q \in Host : wfd'[q] # On(q, h)
    BY <1>4 DEF Cut, Intact, On
  <2>2. CASE h \in DOMAIN objs /\ objs'[h] = objs[h] /\ wfd[p] # On(p, h)
    <3>1. \A q \in Host \ {p} : wfd[q] # On(q, h)
      <4>1. h \in HashName
        BY <2>1 DEF IsMap
      <4>2. On(p, h) \in WriteFd /\ \A q \in Host : On(q, h) = On(p, h)
        BY <4>1 DEF On, WriteFd
      <4>. QED BY <1>1, <4>2, OnlyFd, NoneAssumption
    <3>2. h \in Cut
      BY <2>1, <2>2, <3>1 DEF Cut, Intact, On
    <3>. QED BY <3>2
  <2>. QED BY <2>1, <2>2
<1>. QED BY <1>2, <1>3, <1>4 DEF CopyInv

\* A step of the copying that leaves none.
LEMMA CopyTurn ==
  ASSUME TypeInv, CopyInv, NEW p \in Host, NEW r \in Program, Inside(p),
         py' = [py EXCEPT ![p] = r], UNCHANGED markers,
         r.pc = "idle" \/ (py[p].pc \in AtFile /\ Inside(p)'),
         CopyOf(p)', stale \subseteq stale', killed \subseteq killed',
         IsMap(objs', HashName, Bytes),
         \A h \in DOMAIN objs' :
            \/ h \in DOMAIN objs /\ objs'[h] = objs[h] /\ wfd[p] # On(p, h)
            \/ h \in stale' \/ Hash(objs'[h]) = h \/ wfd'[p] = On(p, h)
  PROVE  CopyInv' /\ Cut' \subseteq Cut
<1> DEFINE left == {}
<1>1. left \in SUBSET killed'
  OBVIOUS
<1>2. CopyInv' /\ Cut' \subseteq Cut \cup left
  <2> HIDE DEF left
  <2>. QED BY <1>1, CopyLeaves
<1>. QED BY <1>2

\* What a write leaves of the blocks before it.
LEMMA WriteAtPrefix ==
  ASSUME NEW d \in Bytes, NEW off \in Nat, NEW b \in Byte, NEW h \in HashName,
         Prefix(d, off, h), off + 1 \in DOMAIN h.sha1, h.sha1[off + 1] = b
  PROVE  Prefix(WriteAt(d, off, b), off + 1, h)
<1>1. h.sha1 \in Bytes /\ Len(h.sha1) \in Nat /\ DOMAIN h.sha1 = 1 .. Len(h.sha1)
  BY LenProperties DEF HashName, Bytes
<1>2. Len(d) = off /\ off + 1 <= Len(h.sha1) /\ \A i \in 1 .. off : d[i] = h.sha1[i]
  BY <1>1 DEF Prefix
<1>3. WriteAt(d, off, b) \in Bytes
  BY WriteAtType
<1>4. DOMAIN WriteAt(d, off, b) = 1 .. off + 1
      /\ \A i \in 1 .. off + 1 : WriteAt(d, off, b)[i] = h.sha1[i]
  BY <1>2 DEF WriteAt
<1>5. Len(WriteAt(d, off, b)) = off + 1
  <2>1. DOMAIN WriteAt(d, off, b) = 1 .. Len(WriteAt(d, off, b))
        /\ Len(WriteAt(d, off, b)) \in Nat
    BY <1>3, LenProperties DEF Bytes
  <2>. QED BY <1>4, <2>1
<1>. QED BY <1>2, <1>4, <1>5 DEF Prefix

\* All of it is the object.
LEMMA WholePrefix ==
  ASSUME NEW d \in Bytes, NEW off \in Nat, NEW h \in HashName,
         Prefix(d, off, h), off + 1 \notin DOMAIN h.sha1
  PROVE  Hash(d) = h
<1>1. h.sha1 \in Seq(Byte) /\ d \in Seq(Byte) /\ h = [sha1 |-> h.sha1]
  BY DEF HashName, Bytes
<1>2. Len(h.sha1) \in Nat /\ DOMAIN h.sha1 = 1 .. Len(h.sha1)
  BY <1>1, LenProperties
<1>3. off = Len(h.sha1) /\ Len(d) = off /\ \A i \in 1 .. off : d[i] = h.sha1[i]
  BY <1>2 DEF Prefix
<1>4. d = h.sha1
  BY <1>1, <1>3, SeqEqual
<1>. QED BY <1>1, <1>4 DEF Hash

\* The destination is opened, empty.
LEMMA CreateDestCopy ==
  ASSUME TypeInv, CopyInv, NEW p \in Host, CreateDest(p)
  PROVE  CopyInv' /\ Cut' \subseteq Cut
<1> DEFINE r == [py[p] EXCEPT !.pc = "copy", !.off = 0]
           h == py[p].hash
           fd == [hash |-> h, at |-> IF p \in NoRename THEN "obj" ELSE "tmp"]
<1>1. /\ py[p].pc = "create" /\ py' = [py EXCEPT ![p] = r] /\ wfd' = [wfd EXCEPT ![p] = fd]
      /\ UNCHANGED <<markers, history>>
      /\ IF p \in NoRename THEN objs' = Put(objs, h, <<>>)
                           ELSE tmps' = Put(tmps, h, <<>>) /\ objs' = objs
  BY DEF CreateDest, OpenTrunc
<1>2. /\ py[p] \in Program /\ h \in HashName /\ wfd[p] = None /\ TypeInv'
      /\ wfd \in [Host -> {None} \cup WriteFd]
  BY <1>1, Parts, CreateDestType DEF ProgramShape, AtFile
<1>3. h \notin DOMAIN objs /\ Inside(p)
  BY <1>1 DEF CopyInv, CopyOf, Inside, Step
<1>4. /\ r \in Program /\ r.pc = "copy" /\ r.hash = h /\ r.off = 0
      /\ wfd'[p] = fd /\ fd.at = (IF p \in NoRename THEN "obj" ELSE "tmp")
      /\ fd.hash = h
  BY <1>1, <1>2 DEF Program, Step
<1>5. py'[p] = r
  BY <1>1, Parts
<1> HIDE DEF r
<1>6. IsMap(objs', HashName, Bytes)
  BY <1>2, CleanupParts DEF TypeInv, TypeOK, MediumTypeOK
<1>7. Prefix(<<>>, 0, h)
  <2>1. Len(h.sha1) \in Nat
    BY <1>2, LenProperties DEF HashName, Bytes
  <2>. QED BY <2>1 DEF Prefix
<1>8. CopyOf(p)'
  <2>1. CASE p \in NoRename
    <3>1. h \in DOMAIN objs' /\ objs'[h] = <<>>
      BY <1>1, <2>1 DEF Put
    <3>. QED BY <1>4, <1>5, <1>7, <2>1, <3>1 DEF CopyOf, Dest
  <2>2. CASE p \notin NoRename
    <3>1. h \in DOMAIN tmps' /\ tmps'[h] = <<>> /\ h \notin DOMAIN objs'
      BY <1>1, <1>3, <2>2 DEF Put
    <3>. QED BY <1>4, <1>5, <1>7, <2>2, <3>1 DEF CopyOf, Dest
  <2>. QED BY <2>1, <2>2
<1>9. ASSUME NEW k \in DOMAIN objs'
      PROVE  \/ k \in DOMAIN objs /\ objs'[k] = objs[k] /\ wfd[p] # On(p, k)
             \/ wfd'[p] = On(p, k)
  <2>1. wfd[p] # On(p, k)
    <3>1. k \in HashName
      BY <1>6 DEF IsMap
    <3>2. On(p, k) \in WriteFd
      BY <3>1 DEF On, WriteFd
    <3>. QED BY <1>2, <3>2, NoneAssumption
  <2>2. CASE p \in NoRename /\ k = h
    BY <1>4, <2>2 DEF On
  <2>3. CASE ~ (p \in NoRename /\ k = h)
    BY <1>1, <2>1, <2>3 DEF Put
  <2>. QED BY <2>2, <2>3
<1>10. Inside(p)'
  BY <1>4, <1>5 DEF Inside, Step
<1>. QED BY <1>1, <1>3, <1>4, <1>6, <1>8, <1>9, <1>10, CopyTurn DEF AtFile, history

\* A block that changed since it was hashed makes the object stale.
LEMMA CopyBlockCopy ==
  ASSUME TypeInv, CopyInv, NEW p \in Host, CopyBlock(p)
  PROVE  CopyInv' /\ Cut' \subseteq Cut
<1> DEFINE d == src[p][Current(p)].data
           h == py[p].hash
           off == py[p].off
<1>1. /\ py[p].pc = "copy" /\ UNCHANGED <<files, idx, events, markers, rm, killed>>
      /\ stale' = IF Changed(p) THEN stale \cup {h} ELSE stale
  BY DEF CopyBlock
<1>2. /\ py[p] \in Program /\ h \in HashName /\ off \in Nat
      /\ wfd[p] # None /\ wfd[p].hash = h /\ wfd[p] \in WriteFd
      /\ py \in [Host -> Program] /\ wfd \in [Host -> {None} \cup WriteFd]
      /\ IsMap(objs, HashName, Bytes) /\ IsMap(tmps, HashName, Bytes)
      /\ py[p].todo \in Seq(Seq(File)) /\ py[p].todo # <<>> /\ Head(py[p].todo) # <<>>
  BY <1>1, Parts DEF ProgramShape, AtFile
<1>3. /\ wfd[p].at = (IF p \in NoRename THEN "obj" ELSE "tmp")
      /\ h \in DOMAIN Dest(p)
      /\ h \in stale \/ Prefix(Dest(p)[h], off, h)
      /\ p \notin NoRename => h \notin DOMAIN objs
      /\ Inside(p)
  BY <1>1 DEF CopyInv, CopyOf, Inside, Step
<1>4. d \in Bytes /\ DOMAIN d = 1 .. Len(d) /\ Len(d) \in Nat
  <2>1. Current(p) \in File
    BY <1>2 DEF Current
  <2>. QED BY <2>1, Parts, LenProperties DEF Bytes
<1>5. h \notin stale' =>
         /\ h \notin stale
         /\ off + 1 \in DOMAIN h.sha1 <=> off + 1 \in DOMAIN d
         /\ off + 1 \in DOMAIN h.sha1 => h.sha1[off + 1] = d[off + 1]
  BY <1>1 DEF Changed
<1>6. stale \subseteq stale' /\ killed' = killed
  BY <1>1
<1>7. TypeInv' /\ IsMap(objs', HashName, Bytes)
  BY CopyBlockType, CleanupParts DEF TypeInv, TypeOK, MediumTypeOK
<1>8. CASE off < Len(d)
  <2> DEFINE r == [py[p] EXCEPT !.off = off + 1]
             w == WriteAt(Dest(p)[h], off, d[off + 1])
  <2>1. /\ WriteBlock(p, off, d[off + 1]) /\ py' = [py EXCEPT ![p] = r] /\ wfd' = wfd
    BY <1>8 DEF CopyBlock
  <2>2. /\ r \in Program /\ r.pc = "copy" /\ r.hash = h /\ r.off = off + 1 /\ py'[p] = r
    <3>1. py[p] \in Program /\ py[p].pc = "copy" /\ off + 1 \in Nat
      BY <1>1, <1>2
    <3>2. py'[p] = r
      BY <1>2, <2>1
    <3>. QED BY <3>1, <3>2 DEF Program
  <2> HIDE DEF r
  <2>3. /\ p \in NoRename => objs' = [objs EXCEPT ![h] = w] /\ tmps' = tmps
        /\ p \notin NoRename => tmps' = [tmps EXCEPT ![h] = w] /\ objs' = objs
    BY <1>2, <1>3, <2>1 DEF WriteBlock, Dest
  <2>4. h \notin stale' => Prefix(w, off + 1, h)
    <3> SUFFICES ASSUME h \notin stale' PROVE Prefix(w, off + 1, h)
      OBVIOUS
    <3>1. Dest(p)[h] \in Bytes
      BY <1>2, <1>3 DEF Dest, IsMap
    <3>2. off + 1 \in DOMAIN d
      BY <1>2, <1>4, <1>8
    <3>3. off + 1 \in DOMAIN h.sha1 /\ h.sha1[off + 1] = d[off + 1] /\ Prefix(Dest(p)[h], off, h)
      BY <1>3, <1>5, <3>2
    <3>4. d[off + 1] \in Byte
      BY <1>4, <3>2 DEF Bytes
    <3>. QED BY <1>2, <3>1, <3>3, <3>4, WriteAtPrefix
  <2> HIDE DEF w
  <2>5. CopyOf(p)'
    <3>1. h \in DOMAIN Dest(p)' /\ Dest(p)'[h] = w
      BY <1>3, <2>3 DEF Dest
    <3>2. h \in stale' \/ Prefix(Dest(p)'[h], off + 1, h)
      BY <2>4, <3>1
    <3>3. p \notin NoRename => h \notin DOMAIN objs'
      BY <1>3, <2>3
    <3>. QED BY <1>3, <2>1, <2>2, <3>1, <3>2, <3>3 DEF CopyOf, Dest
  <2>6. ASSUME NEW k \in DOMAIN objs'
        PROVE  \/ k \in DOMAIN objs /\ objs'[k] = objs[k] /\ wfd[p] # On(p, k)
               \/ wfd'[p] = On(p, k)
    <3>1. CASE wfd[p] = On(p, k)
      BY <2>1, <3>1
    <3>2. CASE wfd[p] # On(p, k)
      <4>1. p \in NoRename => k # h
        BY <1>2, <1>3, <3>2 DEF On, WriteFd
      <4>. QED BY <2>3, <3>2, <4>1
    <3>. QED BY <3>1, <3>2
  <2>7. Inside(p)' /\ markers' = markers
    BY <1>1, <2>2 DEF Inside, Step
  <2>. QED BY <1>1, <1>3, <1>6, <1>7, <2>1, <2>2, <2>5, <2>6, <2>7, CopyTurn DEF AtFile
<1>9. CASE ~ (off < Len(d))
  <2> DEFINE r == [py[p] EXCEPT !.pc = IF p \in NoRename THEN "line" ELSE "rename"]
  <2>1. wfd' = [wfd EXCEPT ![p] = None] /\ py' = [py EXCEPT ![p] = r]
        /\ UNCHANGED <<objs, tmps>>
    BY <1>9 DEF CopyBlock, Go
  <2>2. /\ r \in Program /\ r.pc = (IF p \in NoRename THEN "line" ELSE "rename")
        /\ r.hash = h
    BY <1>2 DEF Program, Step
  <2>3. py'[p] = r
    BY <1>2, <2>1
  <2> HIDE DEF r
  <2>4. h \in stale' \/ Hash(Dest(p)[h]) = h
    <3>1. off + 1 \notin DOMAIN d
      BY <1>2, <1>4, <1>9
    <3>2. Dest(p)[h] \in Bytes
      BY <1>2, <1>3 DEF Dest, IsMap
    <3>. QED BY <1>2, <1>3, <1>5, <3>1, <3>2, WholePrefix
  <2>5. CopyOf(p)'
    BY <1>3, <2>1, <2>2, <2>3, <2>4 DEF CopyOf, Dest
  <2>6. ASSUME NEW k \in DOMAIN objs'
        PROVE  \/ k \in DOMAIN objs /\ objs'[k] = objs[k] /\ wfd[p] # On(p, k)
               \/ k \in stale' \/ Hash(objs'[k]) = k
    <3>1. CASE wfd[p] = On(p, k)
      <4>1. k = h /\ wfd[p].at = "obj"
        BY <1>2, <3>1 DEF On
      <4>2. p \in NoRename
        BY <1>3, <4>1
      <4>. QED BY <2>1, <2>4, <4>1, <4>2 DEF Dest
    <3>. QED BY <2>1, <3>1
  <2>7. Inside(p)' /\ markers' = markers
    BY <1>1, <2>2, <2>3 DEF Inside, Step
  <2>. QED BY <1>1, <1>3, <1>6, <1>7, <2>1, <2>2, <2>5, <2>6, <2>7, CopyTurn DEF AtFile
<1>. QED BY <1>8, <1>9

\* The copy is renamed into place, and is whole then.
LEMMA RenameDestCopy ==
  ASSUME TypeInv, CopyInv, NEW p \in Host, RenameDest(p)
  PROVE  CopyInv' /\ Cut' \subseteq Cut
<1> DEFINE h == py[p].hash
           to == [tmp |-> "obj", obj |-> "gone", gone |-> "gone"]
           r == [py[p] EXCEPT !.pc = "line"]
<1>1. /\ py[p].pc = "rename" /\ UNCHANGED <<markers, history>> /\ py[p] \in Program
      /\ wfd[p] = None /\ h \in HashName /\ p \notin NoRename
      /\ wfd \in [Host -> {None} \cup WriteFd] /\ py \in [Host -> Program]
  BY Parts DEF RenameDest, ProgramShape, AtFile
<1>2. /\ h \in DOMAIN tmps /\ (Hash(tmps[h]) = h \/ h \in stale) /\ Inside(p)
  BY <1>1 DEF CopyInv, CopyOf, Inside, Step
<1>3. /\ objs' = Put(objs, h, tmps[h]) /\ py' = [py EXCEPT ![p] = r]
  BY <1>2 DEF RenameDest, RenameTmp, Go
<1>4. r \in Program /\ r.pc = "line" /\ py'[p] = r
  BY <1>1, <1>3 DEF Program, Step
<1> HIDE DEF r
<1>5. CopyOf(p)'
  BY <1>4 DEF CopyOf
<1>6. TypeInv' /\ IsMap(objs', HashName, Bytes)
  BY RenameDestType, CleanupParts DEF TypeInv, TypeOK, MediumTypeOK
<1>7. ASSUME NEW k \in DOMAIN objs'
      PROVE  \/ k \in DOMAIN objs /\ objs'[k] = objs[k] /\ wfd[p] # On(p, k)
             \/ k \in stale' \/ Hash(objs'[k]) = k
  <2>1. CASE k = h
    BY <1>1, <1>2, <1>3, <2>1 DEF Put, history
  <2>2. CASE k # h
    <3>1. On(p, k) \in WriteFd
      BY <1>6 DEF On, WriteFd, IsMap
    <3>. QED BY <1>1, <1>3, <2>2, <3>1, NoneAssumption DEF Put
  <2>. QED BY <2>1, <2>2
<1>8. Inside(p)'
  BY <1>4 DEF Inside, Step
<1>. QED BY <1>1, <1>2, <1>3, <1>4, <1>5, <1>6, <1>7, <1>8, CopyTurn DEF AtFile, history

\* A copy that fails is removed; only a kill leaves it behind.
LEMMA CopyEndsCopy ==
  ASSUME TypeInv, CopyInv, NEW p \in Host, CopyFails(p) \/ KillBackup(p)
  PROVE  CopyInv' /\ (CopyFails(p) => Cut' \subseteq Cut)
<1> DEFINE h == py[p].hash
           r == NoProgram(p)
<1>1. /\ py' = [py EXCEPT ![p] = r] /\ r \in Program /\ r.pc = "idle"
      /\ UNCHANGED <<markers, stale>> /\ TypeInv' /\ killed \subseteq killed' /\ Alone
  BY NoProgramType, CopyEndsType DEF CopyFails, KillBackup, history, CopyInv
<1>2. /\ IsMap(objs', HashName, Bytes) /\ py'[p] = r
      /\ wfd \in [Host -> {None} \cup WriteFd]
  BY <1>1, Parts, CleanupParts DEF TypeInv, TypeOK, MediumTypeOK
<1>3. CopyOf(p)'
  BY <1>1, <1>2 DEF CopyOf
<1> HIDE DEF r
<1>4. ASSUME CopyFails(p) PROVE CopyInv' /\ Cut' \subseteq Cut
  <2>1. py[p].pc = "copy" /\ wfd[p] # None /\ wfd[p].hash = h
    BY <1>4, Parts DEF CopyFails, ProgramShape
  <2>2. wfd[p].at = (IF p \in NoRename THEN "obj" ELSE "tmp") /\ Inside(p)
    BY <2>1 DEF CopyInv, CopyOf, Inside, Step
  <2>3. p \in NoRename => objs' = Drop(objs, h)
    BY <1>4 DEF CopyFails, RemoveDest
  <2>4. p \notin NoRename => objs' = objs
    BY <1>4 DEF CopyFails, RemoveDest
  <2>5. \A k \in DOMAIN objs' : k \in DOMAIN objs /\ objs'[k] = objs[k] /\ wfd[p] # On(p, k)
    BY <2>1, <2>2, <2>3, <2>4 DEF On, Drop
  <2>. QED BY <1>1, <1>2, <1>3, <2>2, <2>5, CopyTurn
<1>5. ASSUME KillBackup(p), Inside(p) PROVE CopyInv'
  <2>1. ASSUME NEW k \in DOMAIN objs'
        PROVE  \/ k \in DOMAIN objs /\ objs'[k] = objs[k] /\ wfd[p] # On(p, k)
               \/ k \in killed'
    <3>1. objs' = objs /\ (wfd[p] # None /\ wfd[p].at = "obj" => wfd[p].hash \in killed')
      BY <1>5 DEF KillBackup
    <3>2. On(p, k) \in WriteFd /\ On(p, k).at = "obj" /\ On(p, k).hash = k
      BY <1>2 DEF On, WriteFd, IsMap
    <3>. QED BY <3>1, <3>2, NoneAssumption
  <2> DEFINE left == killed'
  <2>2. left \in SUBSET killed' /\ \A k \in killed' : k \in left
    OBVIOUS
  <2> HIDE DEF left
  <2>. QED BY <1>1, <1>2, <1>3, <1>5, <2>1, <2>2, CopyLeaves
<1>6. ASSUME KillBackup(p), ~ Inside(p) PROVE CopyInv'
  <2>1. py[p].pc # "copy" /\ wfd[p] = None
    BY <1>6, Parts DEF Inside, Step
  <2>2. UNCHANGED <<objs, tmps, wfd, stale, killed>>
    BY <2>1, <1>2, <1>6 DEF KillBackup
  <2>3. Alone'
    BY <1>1, <1>6, OutsideAlone
  <2>. QED BY <1>1, <2>2, <2>3, UntouchedCopy
<1>. QED BY <1>4, <1>5, <1>6

\* Without a backup there is nothing to say but what objects are wrong.
LEMMA IdleCopy ==
  ASSUME TypeInv, CopyInv, TypeInv', py' = py, \A p \in Host : ~ BackingUp(p),
         stale' = stale, killed' = killed, DOMAIN objs' \subseteq DOMAIN objs,
         \A h \in DOMAIN objs' : objs'[h] = objs[h]
  PROVE  CopyInv' /\ Cut' \subseteq Cut
<1>1. \A p \in Host : py[p].pc = "idle" /\ wfd[p] = None
  BY Parts DEF BackingUp
<1>2. Cut' \subseteq Cut
  <2>1. ASSUME NEW h \in HashName, NEW p \in Host PROVE wfd[p] # On(p, h)
    <3>1. On(p, h) \in WriteFd
      BY <2>1 DEF On, WriteFd
    <3>. QED BY <1>1, <3>1, NoneAssumption
  <2>2. DOMAIN objs \subseteq HashName
    BY CleanupParts DEF IsMap
  <2>. QED BY <2>1, <2>2 DEF Cut, Intact, On
<1>3. \A p \in Host : CopyOf(p)'
  BY <1>1 DEF CopyOf
<1>4. Alone'
  BY <1>1 DEF Alone, Inside, Step
<1>. QED BY <1>2, <1>3, <1>4 DEF CopyInv

\* A cleanup removes files while no backup goes on.
LEMMA CleanupCopy ==
  ASSUME TypeInv, CopyInv, TypeInv', StartCleanup \/ CleanupStep \/ KillCleanup
  PROVE  CopyInv' /\ Cut' \subseteq Cut
<1>1. \A p \in Host : ~ BackingUp(p)
  BY CleanupParts
     DEF StartCleanup, CleanupStep, ScanRepo, ParseIndex, PrintFiles, Rm, RmDone,
         KillCleanup, Listing
<1>2. py' = py /\ stale' = stale /\ killed' = killed
  BY DEF StartCleanup, CleanupStep, ScanRepo, ParseIndex, PrintFiles, Rm, RmDone,
         KillCleanup, history
<1>3. CASE \E x \in rm.files : Rm(x)
  BY <1>1, <1>2, <1>3, IdleCopy DEF Rm, RemoveObj, RemoveTmp, Drop
<1>4. CASE ~ \E x \in rm.files : Rm(x)
  <2>1. objs' = objs
    BY <1>4 DEF StartCleanup, CleanupStep, ScanRepo, ParseIndex, PrintFiles, RmDone,
         KillCleanup, mvars, medium
  <2>. QED BY <1>1, <1>2, <2>1, IdleCopy
<1>. QED BY <1>3, <1>4

\* Nothing else touches the repository.
LEMMA UserCopy ==
  ASSUME TypeInv, CopyInv, TypeInv', User PROVE CopyInv' /\ Cut' \subseteq Cut
<1>1. CASE TidyUp
  <2>1. /\ \A p \in Host : ~ BackingUp(p)
        /\ UNCHANGED <<objs, py, stale, killed>>
    BY <1>1 DEF TidyUp
  <2>. QED BY <2>1, IdleCopy
<1>2. CASE ~ TidyUp
  <2>1. UNCHANGED <<objs, tmps, wfd, py, markers, stale, killed>>
    BY <1>2 DEF User, Edit, DeleteIndex, history
  <2>. QED BY <2>1 DEF CopyInv, Alone, Inside, CopyOf, Dest, Cut, Intact, markers
<1>. QED BY <1>1, <1>2

\* Every step of backups that do not race.
LEMMA NextCopy ==
  ASSUME TypeInv, CopyInv, TypeInv', [Next]_vars, ~ raced' PROVE CopyInv'
<1>1. CASE UNCHANGED vars
  BY <1>1 DEF vars, mvars, markers, history, CopyInv, Alone, Inside, CopyOf, Dest, Cut, Intact
<1>2. ASSUME NEW p \in Host,
             (\E d \in Date : StartBackup(p, d)) \/ BackupStep(p)
                \/ CopyFails(p) \/ KillBackup(p)
      PROVE  CopyInv'
  BY <1>2, MarkersCopy, ScanCopy, CreateDestCopy, CopyBlockCopy, RenameDestCopy, CopyEndsCopy
     DEF BackupStep
<1>. QED BY <1>1, <1>2, CleanupCopy, UserCopy DEF Next

\* A race is not forgotten, and a warning that was taken away neither.
LEMMA Remembered ==
  ASSUME TypeInv, [Next]_vars
  PROVE  (raced => raced') /\ (unmarked => unmarked')
<1>1. CASE UNCHANGED vars
  BY <1>1 DEF vars, history
<1>2. ASSUME NEW p \in Host, MakeActive(p) PROVE (raced => raced') /\ unmarked' = unmarked
  BY <1>2 DEF MakeActive
<1>3. CASE KillCleanup \/ TidyUp
  <2>1. raced' = raced
    BY <1>3 DEF KillCleanup, TidyUp
  <2>2. (unmarked' = (unmarked \/ (~ unsafe /\ Cut # {}))) \/ unmarked' = (unmarked \/ Cut # {})
    BY <1>3 DEF KillCleanup, TidyUp
  <2>3. unmarked => unmarked'
    BY <2>2
  <2>. QED BY <2>1, <2>3
<1>4. ASSUME NEW p \in Host,
             \/ (\E d \in Date : StartBackup(p, d)) \/ TestMarker(p) \/ OpenIndex(p)
             \/ MakeUnsafe(p) \/ HashFile(p) \/ ScanReturns(p) \/ IsFile(p) \/ CreateDest(p)
             \/ CopyBlock(p) \/ RenameDest(p) \/ WriteLine(p) \/ EndIndex(p)
             \/ RenameIndex(p) \/ RemoveMarker(p) \/ CopyFails(p) \/ KillBackup(p)
      PROVE  raced' = raced /\ unmarked' = unmarked
  BY <1>4 DEF StartBackup, TestMarker, OpenIndex, MakeUnsafe, HashFile, ScanReturns, IsFile,
     CreateDest, CopyBlock, RenameDest, WriteLine, EndIndex, RenameIndex, RemoveMarker,
     CopyFails, KillBackup, history
<1>5. CASE StartCleanup \/ CleanupStep \/ (User /\ ~ TidyUp)
  <2>1. raced' = raced /\ unmarked' = unmarked
    BY <1>5 DEF StartCleanup, CleanupStep, ScanRepo, ParseIndex, PrintFiles, Rm, RmDone,
       User, history
  <2>. QED BY <2>1
<1>6. ASSUME NEW p \in Host,
             (\E d \in Date : StartBackup(p, d)) \/ BackupStep(p)
                \/ CopyFails(p) \/ KillBackup(p)
      PROVE  (raced => raced') /\ unmarked' = unmarked
  BY <1>2, <1>4, <1>6 DEF BackupStep
<1>. QED BY <1>1, <1>3, <1>5, <1>6 DEF Next, User

\* At the start no file is open and no object is there.
LEMMA InitCopy ==
  ASSUME Init PROVE CopyInv
<1>1. \A p \in Host : py[p].pc = "idle"
  BY InitType, Parts DEF Init
<1>2. DOMAIN objs = {}
  BY DEF Init, MediumInit, EmptyMap
<1>. QED BY <1>1, <1>2 DEF CopyInv, Alone, Inside, Step, CopyOf, Cut

----------------------------------------------------------------------------
(***************************************************************************)
(* Backups whose users heed the marker unsafe.                             *)
(***************************************************************************)
\* A backup that is past the markers, or about to be, finds every object that
\* is there right, but for the one it is writing.
LEMMA InsideClean ==
  ASSUME TypeInv, TrustInv, NEW p \in Host, Inside(p) \/ py[p].pc = "mark"
  PROVE  Cut = {} /\ rm.pc = "idle"
<1>1. py[p].pc \notin {"idle", "unsafe?", "active?"}
  BY DEF Inside, Step
<1>2. rm.pc = "idle"
  BY <1>1, NoPipelineThen DEF BackingUp
<1>. QED BY <1>1, <1>2 DEF TrustInv, Warned

\* What a step of a backup has to keep.
LEMMA TrustTurn ==
  ASSUME TypeInv, TrustInv, TypeInv', NEW p \in Host, NEW r,
         py' = [py EXCEPT ![p] = r], rm' = rm, rm.pc = "idle",
         \A k : Safe(k) => Safe(k)',
         Warned', LinesOf(p)', OtherIndexes(p),
         \A n \in Published' : \/ n \in Published /\ idx'[n] = idx[n]
                               \/ \A f \in File : \A k : k = idx'[n].sha1[f] => Safe(k)'
  PROVE  TrustInv'
<1>1. \A q \in Host \ {p} : py'[q] = py[q]
  BY Parts
<1>2. ASSUME NEW q \in Host \ {p} PROVE LinesOf(q)'
  <2>1. Ind(q)' = Ind(q) /\ py'[q] = py[q] /\ LinesOf(q)
    BY <1>1, IndStays DEF TrustInv
  <2>3. CASE py[q].pc \notin Drafting
    <3>1. py[q].pc \notin {"line", "publish"}
      BY <2>3 DEF Drafting, Scan, AtFile
    <3>. QED BY <2>1, <2>3, <3>1 DEF LinesOf
  <2>4. CASE py[q].pc \in Drafting
    <3>1. Ind(q) \in DOMAIN idx /\ Ind(q) \in IndexName /\ Ind(q)[1] = q
      BY <2>4, Parts DEF ProgramShape, Ind, Final, Tmp
    <3>2. idx'[Ind(q)] = idx[Ind(q)]
      BY <3>1 DEF OtherIndexes
    <3>3. \A f \in File : LET h == idx'[Ind(q)].sha1[f] IN h # None => Safe(h)
      BY <2>1, <2>4, <3>2 DEF LinesOf
    <3>4. \A f \in File : \A k : k = idx'[Ind(q)].sha1[f] /\ k # None => Safe(k)'
      BY <3>3
    <3>5. \A f \in File : (LET h == idx[Ind(q)].sha1[f] IN h # None => Safe(h))'
      BY <2>1, <3>4
    <3>6. \A k : k = py[q].hash /\ py[q].pc = "line" => Safe(k)'
      BY <2>1 DEF LinesOf
    <3>7. py'[q].pc = "line" => Safe(py[q].hash)'
      BY <2>1, <3>6
    <3>8. py'[q].pc = "publish" => idx'[Ind(q)'].end
      BY <2>1, <3>2 DEF LinesOf
    <3>. QED BY <2>1, <3>5, <3>7, <3>8 DEF LinesOf
  <2>. QED BY <2>3, <2>4
<1>3. Needed'
  <2> SUFFICES ASSUME NEW n \in Published', NEW f \in File PROVE Safe(idx[n].sha1[f])'
    BY DEF Needed
  <2>1. \A k : k = idx'[n].sha1[f] => Safe(k)'
    BY DEF TrustInv, Needed
  <2>. QED BY <2>1
<1>4. Keeping'
  BY DEF Keeping
<1>. QED BY <1>2, <1>3, <1>4 DEF TrustInv

\* Objects stay safe where the repository is left alone and p copies nothing.
LEMMA SafeStays ==
  ASSUME TypeInv, NEW p \in Host, NEW r, py' = [py EXCEPT ![p] = r],
         UNCHANGED <<objs, stale>>, r.pc # "copy", NEW k, Safe(k)
  PROVE  Safe(k)'
<1>1. py'[p] = r /\ \A q \in Host \ {p} : py'[q] = py[q]
  BY Parts
<1>2. \A q \in Host : ~ InPlace(q, k)'
  BY <1>1 DEF Safe, InPlace
<1>. QED BY <1>2 DEF Safe, Intact

\* A step up to the opening of the index, and the end of one that got no
\* further.
LEMMA MarkersTrust ==
  ASSUME TypeInv, CopyInv, TrustInv, TypeInv', NEW p \in Host,
         (\E d \in Date : StartBackup(p, d)) \/ TestMarker(p) \/ MakeActive(p)
  PROVE  TrustInv'
<1>1. py[p] \in Program /\ NoProgram(p).pc = "idle" /\ py \in [Host -> Program]
  BY Parts, NoProgramType
<1>2. ASSUME NEW r, py' = [py EXCEPT ![p] = r], UNCHANGED <<mvars, rm, stale>>,
             rm.pc = "idle", r.pc \in {"idle", "unsafe?", "active?", "mark", "open"},
             \/ Cut = {}
             \/ UNCHANGED markers /\ (r.pc \in {"idle", "unsafe?"})
      PROVE  TrustInv'
  <2>1. py'[p] = r /\ \A q \in Host \ {p} : py'[q] = py[q]
    BY <1>1, <1>2
  <2>2. \A k : Safe(k) => Safe(k)'
    BY <1>2, SafeStays DEF mvars
  <2>3. LinesOf(p)'
    BY <1>2, <2>1 DEF LinesOf, Drafting, Scan, AtFile
  <2>4. Cut' = Cut
    BY <1>2 DEF Cut, Intact, mvars
  <2>5. Warned'
    <3>1. CASE Cut = {}
      BY <2>4, <3>1 DEF Warned
    <3>2. CASE UNCHANGED markers /\ r.pc \in {"idle", "unsafe?"}
      BY <1>2, <2>1, <2>4, <3>2 DEF TrustInv, Warned, mvars, markers
    <3>. QED BY <1>2, <3>1, <3>2
  <2>6. OtherIndexes(p) /\ \A n \in Published' : n \in Published /\ idx'[n] = idx[n]
    BY <1>2 DEF OtherIndexes, Published, mvars
  <2>. QED BY <1>2, <2>2, <2>3, <2>5, <2>6, TrustTurn
<1>3. ASSUME NEW d \in Date, StartBackup(p, d) PROVE TrustInv'
  <2> DEFINE r == [py[p] EXCEPT !.pc = "unsafe?", !.date = d, !.todo = Tree]
  <2>1. r.pc = "unsafe?" /\ py' = [py EXCEPT ![p] = r] /\ rm.pc = "idle"
        /\ UNCHANGED <<mvars, markers, rm, history>>
    BY <1>1, <1>3 DEF StartBackup, Program
  <2> HIDE DEF r
  <2>. QED BY <1>2, <2>1 DEF history
<1>4. CASE TestMarker(p) /\ py' = [py EXCEPT ![p] = NoProgram(p)]
  BY <1>1, <1>2, <1>4, NoPipelineThen DEF TestMarker, BackingUp, history
<1>5. ASSUME NEW pc \in {"active?", "mark"}, TestMarker(p), Go(p, pc),
             pc = "active?" => ~ unsafe, pc = "mark" => py[p].pc = "active?" /\ ~ active
      PROVE  TrustInv'
  <2> DEFINE r == [py[p] EXCEPT !.pc = pc]
  <2>1. r.pc = pc /\ py' = [py EXCEPT ![p] = r] /\ rm.pc = "idle"
        /\ UNCHANGED <<mvars, markers, rm, history>>
    BY <1>1, <1>5, NoPipelineThen DEF TestMarker, BackingUp, Program, Go
  <2>2. Cut = {}
    BY <1>5, <2>1 DEF TrustInv, Warned
  <2> HIDE DEF r
  <2>. QED BY <1>2, <2>1, <2>2 DEF history
<1>6. CASE TestMarker(p)
  <2>1. \/ py' = [py EXCEPT ![p] = NoProgram(p)]
        \/ Go(p, "active?") /\ ~ unsafe
        \/ Go(p, "mark") /\ py[p].pc = "active?" /\ ~ active
    BY <1>6 DEF TestMarker
  <2>. QED BY <1>4, <1>5, <1>6, <2>1
<1>7. CASE MakeActive(p)
  <2> DEFINE r == [py[p] EXCEPT !.pc = "open"]
  <2>1. r.pc = "open" /\ py' = [py EXCEPT ![p] = r] /\ py[p].pc = "mark"
        /\ UNCHANGED <<mvars, rm, stale>>
    BY <1>1, <1>7 DEF MakeActive, Go, Program
  <2>2. Cut = {} /\ rm.pc = "idle"
    BY <2>1, InsideClean
  <2> HIDE DEF r
  <2>. QED BY <1>2, <2>1, <2>2
<1>. QED BY <1>3, <1>6, <1>7

\* A step of a backup that is past the markers and does not die.
LEMMA InsideTrust ==
  ASSUME TypeInv, CopyInv, TrustInv, TypeInv', NEW p \in Host, Inside(p), NEW r,
         py' = [py EXCEPT ![p] = r], rm' = rm, Cut' \subseteq Cut,
         \A k : Safe(k) => Safe(k)',
         LinesOf(p)', OtherIndexes(p),
         \A n \in Published' : \/ n \in Published /\ idx'[n] = idx[n]
                               \/ \A f \in File : \A k : k = idx'[n].sha1[f] => Safe(k)'
  PROVE  TrustInv'
<1>1. Cut' = {} /\ rm.pc = "idle"
  BY InsideClean
<1>2. Warned'
  BY <1>1 DEF Warned
<1>. QED BY <1>1, <1>2, TrustTurn

\* The steps that leave index and repository alone.
LEMMA ScanTrust ==
  ASSUME TypeInv, CopyInv, TrustInv, TypeInv', NEW p \in Host,
         MakeUnsafe(p) \/ HashFile(p) \/ ScanReturns(p) \/ IsFile(p) \/ RemoveMarker(p)
  PROVE  TrustInv'
<1>1. py[p] \in Program /\ py \in [Host -> Program] /\ NoProgram(p).pc = "idle"
      /\ NoProgram(p).date = py[p].date /\ (py[p].pc # "copy" => wfd[p] = None)
      /\ IsMap(objs, HashName, Bytes)
  BY Parts, NoProgramType
<1>2. Inside(p) /\ UNCHANGED <<mvars, rm, history>> /\ py[p].pc # "copy"
  BY DEF MakeUnsafe, HashFile, ScanReturns, IsFile, RemoveMarker, Inside, Step
<1>3. Cut = {}
  BY <1>2, InsideClean
<1>4. ASSUME NEW r, py' = [py EXCEPT ![p] = r], r.date = py[p].date,
             r.pc \notin {"copy", "publish"},
             r.pc \in Drafting => py[p].pc \in Drafting,
             r.pc = "line" => r.hash \in DOMAIN objs
      PROVE  TrustInv'
  <2>1. py'[p] = r /\ py'[p].date = py[p].date /\ \A q \in Host \ {p} : py'[q] = py[q]
    BY <1>1, <1>4
  <2>2. \A k : Safe(k) => Safe(k)'
    BY <1>2, <1>4, SafeStays DEF mvars, history
  <2>3. Cut' = Cut
    BY <1>2 DEF Cut, Intact, mvars, history
  <2>4. Ind(p)' = Ind(p) /\ idx' = idx
    BY <1>2, <2>1, IndStays DEF mvars
  <2>5. \A k \in DOMAIN objs : Safe(k)
    <3> SUFFICES ASSUME NEW k \in DOMAIN objs PROVE Safe(k)
      OBVIOUS
    <3>1. \A q \in Host : wfd[q] # On(q, k)
      <4>1. \A q \in Host : wfd[q] = None
        BY <1>1, <1>2, OnlyFd DEF CopyInv
      <4>2. \A q \in Host : On(q, k) \in WriteFd
        BY <1>1 DEF On, WriteFd, IsMap
      <4>. QED BY <4>1, <4>2, NoneAssumption
    <3>2. Intact(k) \/ k \in stale
      BY <1>3, <3>1 DEF Cut, On
    <3>3. \A q \in Host : py[q].pc # "copy"
      BY <1>2, OnlyFd DEF CopyInv
    <3>. QED BY <3>2, <3>3 DEF Safe, InPlace
  <2>6. LinesOf(p)'
    <3>1. r.pc \in Drafting => \A f \in File : \A k :
             k = idx[Ind(p)].sha1[f] /\ k # None => Safe(k)'
      BY <1>4, <2>2 DEF TrustInv, LinesOf
    <3>2. \A k : r.pc = "line" /\ k = r.hash => Safe(k)'
      BY <1>4, <2>2, <2>5
    <3>3. py'[p].pc = "line" => Safe(py[p].hash)'
      BY <2>1, <3>2
    <3>4. py'[p].pc \in Drafting => \A f \in File :
             (LET h == idx[Ind(p)].sha1[f] IN h # None => Safe(h))'
      BY <2>1, <2>4, <3>1
    <3>. QED BY <1>4, <2>1, <3>3, <3>4 DEF LinesOf
  <2>7. OtherIndexes(p) /\ \A n \in Published' : n \in Published /\ idx'[n] = idx[n]
    BY <2>4 DEF OtherIndexes, Published
  <2>. QED BY <1>2, <1>4, <2>2, <2>3, <2>6, <2>7, InsideTrust
<1>5. PICK r : /\ py' = [py EXCEPT ![p] = r] /\ r.date = py[p].date
               /\ r.pc \notin {"copy", "publish"}
               /\ r.pc \in Drafting => py[p].pc \in Drafting
               /\ r.pc = "line" => r.hash \in DOMAIN objs
  <2>1. CASE MakeUnsafe(p)
    <3> DEFINE r == [py[p] EXCEPT !.pc = "hash"]
    <3>1. /\ py' = [py EXCEPT ![p] = r] /\ r.date = py[p].date /\ r.pc = "hash"
          /\ py[p].pc \in Drafting
      BY <1>1, <2>1 DEF MakeUnsafe, Go, Program, Drafting, Scan
    <3>. QED BY <3>1
  <2>2. CASE HashFile(p)
    <3> DEFINE r == [py[p] EXCEPT !.pc = "isfile",
                                  !.hash = Hash(src[p][Current(p)].data)]
    <3>1. /\ py' = [py EXCEPT ![p] = r] /\ r.date = py[p].date /\ r.pc = "isfile"
          /\ py[p].pc \in Drafting
      BY <1>1, <2>2 DEF HashFile, Program, Drafting, Scan
    <3>. QED BY <3>1
  <2>3. CASE ScanReturns(p) /\ py[p].todo = <<>>
    <3> DEFINE r == [py[p] EXCEPT !.pc = "end"]
    <3>1. /\ py' = [py EXCEPT ![p] = r] /\ r.date = py[p].date /\ r.pc = "end"
          /\ py[p].pc \in Drafting
      BY <1>1, <2>3 DEF ScanReturns, Go, Program, Drafting, Scan
    <3>. QED BY <3>1
  <2>4. CASE ScanReturns(p) /\ py[p].todo # <<>>
    <3> DEFINE r == [py[p] EXCEPT !.todo = Tail(py[p].todo)]
    <3>1. /\ py' = [py EXCEPT ![p] = r] /\ r.date = py[p].date /\ r.pc = "hash"
          /\ py[p].pc \in Drafting
      BY <1>1, <2>4 DEF ScanReturns, Program, Drafting, Scan
    <3>. QED BY <3>1
  <2>5. CASE IsFile(p)
    <3> DEFINE r == [py[p] EXCEPT !.pc = IF Have(py[p].hash) THEN "line" ELSE "create"]
    <3>1. /\ py' = [py EXCEPT ![p] = r] /\ r.date = py[p].date
          /\ r.pc = (IF Have(py[p].hash) THEN "line" ELSE "create")
          /\ py[p].pc \in Drafting /\ r.hash = py[p].hash
      BY <1>1, <2>5 DEF IsFile, Go, Program, Drafting, Scan, AtFile
    <3> HIDE DEF r
    <3>2. r.pc \notin {"copy", "publish"} /\ (r.pc = "line" => r.hash \in DOMAIN objs)
      BY <3>1 DEF Have
    <3>. QED BY <3>1, <3>2
  <2>6. CASE RemoveMarker(p)
    <3> DEFINE r == [py[p] EXCEPT !.pc = "unmark"]
    <3>1. r.date = py[p].date /\ r.pc = "unmark"
      BY <1>1 DEF Program
    <3>2. py' = [py EXCEPT ![p] = r] \/ py' = [py EXCEPT ![p] = NoProgram(p)]
      BY <2>6 DEF RemoveMarker, Go
    <3>. QED BY <1>1, <3>1, <3>2 DEF Drafting, Scan, AtFile
  <2>. QED BY <2>1, <2>2, <2>3, <2>4, <2>5, <2>6
<1>. QED BY <1>4, <1>5

\* A step that changes only the index of p.
LEMMA IndexTrust ==
  ASSUME TypeInv, CopyInv, TrustInv, TypeInv', NEW p \in Host, NEW r,
         py' = [py EXCEPT ![p] = r], r.date = py[p].date, Inside(p), py[p].pc # "copy",
         UNCHANGED <<objs, tmps, wfd, rm, stale>>, OtherIndexes(p),
         r.pc \notin {"copy", "line"},
         r.pc \in Drafting => \A f \in File : \A k :
            k = idx'[Ind(p)].sha1[f] /\ k # None => Safe(k),
         r.pc = "publish" => idx'[Ind(p)].end,
         \A n \in Published' : \/ n \in Published /\ idx'[n] = idx[n]
                               \/ \A f \in File : \A k : k = idx'[n].sha1[f] => Safe(k)
  PROVE  TrustInv'
<1>1. py'[p] = r /\ Ind(p)' = Ind(p)
  <2>1. py'[p] = r
    BY Parts
  <2>2. py'[p].date = py[p].date
    BY <2>1
  <2>. QED BY <2>1, <2>2, IndStays
<1>2. \A k : Safe(k) => Safe(k)'
  BY SafeStays
<1>3. Cut' = Cut
  BY DEF Cut, Intact
<1>4. LinesOf(p)'
  <2>1. py'[p].pc \in Drafting => \A f \in File :
             (LET h == idx[Ind(p)].sha1[f] IN h # None => Safe(h))'
    BY <1>1, <1>2
  <2>. QED BY <1>1, <2>1 DEF LinesOf
<1>5. \A n \in Published' : \/ n \in Published /\ idx'[n] = idx[n]
                            \/ \A f \in File : \A k : k = idx'[n].sha1[f] => Safe(k)'
  BY <1>2
<1>. QED BY <1>2, <1>3, <1>4, <1>5, InsideTrust

\* Other entries of the map stay what they were, so other finished indexes do.
LEMMA OtherPublished ==
  ASSUME TypeInv, NEW m, idx' \in [DOMAIN idx' -> IndexFile], DOMAIN idx' \subseteq DOMAIN idx \cup {m},
         \A n \in DOMAIN idx' : n # m => idx'[n] = idx[n], NEW n \in Published', n # m
  PROVE  n \in Published /\ idx'[n] = idx[n]
BY DEF Published

\* The index is created: it has no lines yet.
LEMMA OpenIndexTrust ==
  ASSUME TypeInv, CopyInv, TrustInv, TypeInv', NEW p \in Host, OpenIndex(p)
  PROVE  TrustInv'
<1> DEFINE r == [py[p] EXCEPT !.pc = AfterOpen(p)]
<1>1. /\ py[p] \in Program /\ Ind(p)[1] = p
      /\ IsMap(idx', IndexName, IndexFile)
  BY Parts, CleanupParts DEF Ind, Final, Tmp, TypeInv, TypeOK, MediumTypeOK
<1>2. /\ py' = [py EXCEPT ![p] = r] /\ r.date = py[p].date /\ Inside(p)
      /\ py[p].pc = "open" /\ r.pc \in {"mark unsafe", "hash"}
      /\ UNCHANGED <<objs, tmps, wfd, rm, stale>>
      /\ idx' = Put(idx, Ind(p), EmptyIndex)
  BY <1>1 DEF OpenIndex, Go, AfterOpen, Inside, Step, Program, history
<1> HIDE DEF r
<1>3. /\ OtherIndexes(p) /\ idx'[Ind(p)] = EmptyIndex
      /\ DOMAIN idx' \subseteq DOMAIN idx \cup {Ind(p)}
      /\ \A n \in DOMAIN idx' : n # Ind(p) => idx'[n] = idx[n]
  BY <1>1, <1>2 DEF OtherIndexes, Put
<1>4. \A f \in File : EmptyIndex.sha1[f] = None
  BY DEF EmptyIndex
<1>5. Ind(p) \notin Published'
  BY <1>3 DEF Published, EmptyIndex
<1>6. \A n \in Published' : n \in Published /\ idx'[n] = idx[n]
  BY <1>1, <1>3, <1>5, OtherPublished DEF IsMap
<1>. QED BY <1>2, <1>3, <1>4, <1>6, IndexTrust

\* The line of an object that is safe is written.
LEMMA WriteLineTrust ==
  ASSUME TypeInv, CopyInv, TrustInv, TypeInv', NEW p \in Host, WriteLine(p)
  PROVE  TrustInv'
<1> DEFINE t == py[p].todo
           r == [py[p] EXCEPT !.pc = "hash", !.todo = [t EXCEPT ![1] = Tail(t[1])],
                              !.hash = None, !.off = 0]
           h == py[p].hash
           x == [idx[Ind(p)] EXCEPT !.sha1 = [@ EXCEPT ![Current(p)] = h]]
<1>1. /\ py[p] \in Program /\ Ind(p) \in DOMAIN idx /\ idx[Ind(p)] \in IndexFile
      /\ Ind(p)[1] = p /\ IsMap(idx', IndexName, IndexFile)
      /\ Ind(p) \notin Published
  <2>1. py[p].pc = "line" /\ py[p].pc \in Drafting
    BY DEF WriteLine, Drafting, Scan, AtFile
  <2>2. py[p] \in Program /\ Ind(p) \in DOMAIN idx /\ idx[Ind(p)] \in IndexFile
    BY <2>1, Parts DEF ProgramShape, IsMap
  <2>3. Ind(p) \notin Published
    <3>1. CASE p \in NoRename
      BY <2>1, <3>1, Parts DEF ProgramShape, Published
    <3>2. CASE p \notin NoRename
      <4>1. Ind(p)[3] = "tmp"
        BY <3>2 DEF Ind, Tmp
      <4>. QED BY <4>1 DEF Published
    <3>. QED BY <3>1, <3>2
  <2>4. Ind(p)[1] = p /\ IsMap(idx', IndexName, IndexFile)
    BY CleanupParts DEF Ind, Final, Tmp, TypeInv, TypeOK, MediumTypeOK
  <2>. QED BY <2>2, <2>3, <2>4
<1>2. /\ py' = [py EXCEPT ![p] = r] /\ r.date = py[p].date /\ Inside(p)
      /\ py[p].pc = "line" /\ r.pc = "hash"
      /\ UNCHANGED <<objs, tmps, wfd, rm, stale>>
      /\ idx' = [idx EXCEPT ![Ind(p)] = x]
  BY <1>1 DEF WriteLine, Inside, Step, Program, history
<1>3. /\ x.end = idx[Ind(p)].end
      /\ \A f \in File : x.sha1[f] = h \/ x.sha1[f] = idx[Ind(p)].sha1[f]
  BY <1>1 DEF IndexFile
<1> HIDE DEF r, x
<1>4. /\ OtherIndexes(p) /\ idx'[Ind(p)] = x /\ DOMAIN idx' = DOMAIN idx
      /\ \A n \in DOMAIN idx' : n # Ind(p) => idx'[n] = idx[n]
  BY <1>1, <1>2 DEF OtherIndexes
<1>5. \A f \in File : x.sha1[f] # None => Safe(x.sha1[f])
  <2>1. py[p].pc \in Drafting
    BY <1>2 DEF Drafting, Scan, AtFile
  <2>. QED BY <1>2, <1>3, <2>1 DEF TrustInv, LinesOf
<1>6. Ind(p) \notin Published'
  BY <1>1, <1>3, <1>4 DEF Published
<1>7. \A n \in Published' : n \in Published /\ idx'[n] = idx[n]
  BY <1>1, <1>4, <1>6, OtherPublished DEF IsMap
<1>. QED BY <1>2, <1>4, <1>5, <1>7, IndexTrust, ZenonT(60)

\* The index of a program at the end of its scan has a line for each file.
LEMMA AllLines ==
  ASSUME TypeInv, TrustInv, NEW p \in Host, py[p].pc \in {"end", "publish"}
  PROVE  \A f \in File : idx[Ind(p)].sha1[f] # None /\ Safe(idx[Ind(p)].sha1[f])
<1>1. py[p].pc \in Drafting /\ py[p].pc \notin Scan
  BY DEF Drafting, Scan, AtFile
<1>2. \A f \in File : idx[Ind(p)].sha1[f] # None
  BY <1>1, Parts DEF NoFileLost, FilesKept
<1>. QED BY <1>1, <1>2 DEF TrustInv, LinesOf

\* The index is finished in place, or gets its name later.
LEMMA EndIndexTrust ==
  ASSUME TypeInv, CopyInv, TrustInv, TypeInv', NEW p \in Host, EndIndex(p)
  PROVE  TrustInv'
<1> DEFINE r == [py[p] EXCEPT !.pc = IF p \in NoRename THEN "unmark unsafe" ELSE "publish"]
           x == [idx[Ind(p)] EXCEPT !.end = TRUE]
<1>1. /\ py[p] \in Program /\ Ind(p)[1] = p /\ py[p].pc = "end"
      /\ IsMap(idx', IndexName, IndexFile)
      /\ Ind(p) \in DOMAIN idx /\ idx[Ind(p)] \in IndexFile
  BY Parts, CleanupParts
     DEF EndIndex, Ind, Final, Tmp, TypeInv, TypeOK, MediumTypeOK, ProgramShape, Drafting, IsMap
<1>2. /\ py' = [py EXCEPT ![p] = r] /\ r.date = py[p].date /\ Inside(p)
      /\ r.pc \in {"unmark unsafe", "publish"}
      /\ UNCHANGED <<objs, tmps, wfd, rm, stale>>
      /\ idx' = [idx EXCEPT ![Ind(p)] = x]
  BY <1>1 DEF EndIndex, Go, Inside, Step, Program, history
<1>3. x.end /\ x.sha1 = idx[Ind(p)].sha1
  BY <1>1 DEF IndexFile
<1> HIDE DEF r, x
<1>4. /\ OtherIndexes(p) /\ idx'[Ind(p)] = x /\ DOMAIN idx' = DOMAIN idx
      /\ \A n \in DOMAIN idx' : n # Ind(p) => idx'[n] = idx[n]
  BY <1>1, <1>2 DEF OtherIndexes
<1>5. \A f \in File : Safe(x.sha1[f])
  BY <1>1, <1>3, AllLines
<1>6. ASSUME NEW n \in Published'
      PROVE  \/ n \in Published /\ idx'[n] = idx[n]
             \/ \A f \in File : \A k : k = idx'[n].sha1[f] => Safe(k)
  <2>1. CASE n = Ind(p)
    BY <1>4, <1>5, <2>1
  <2>2. CASE n # Ind(p)
    BY <1>1, <1>4, <2>2, OtherPublished DEF IsMap
  <2>. QED BY <2>1, <2>2
<1>. QED BY <1>1, <1>2, <1>3, <1>4, <1>5, <1>6, IndexTrust, ZenonT(60)

\* The finished index gets its name.
LEMMA RenameIndexTrust ==
  ASSUME TypeInv, CopyInv, TrustInv, TypeInv', NEW p \in Host, RenameIndex(p)
  PROVE  TrustInv'
<1> DEFINE r == [py[p] EXCEPT !.pc = "unmark"]
           m == Final(p, py[p].date)
           x == idx[Ind(p)]
<1>1. /\ py[p] \in Program /\ Ind(p)[1] = p /\ m[1] = p /\ py[p].pc = "publish"
      /\ IsMap(idx', IndexName, IndexFile) /\ Ind(p) \in DOMAIN idx
  BY Parts, CleanupParts
     DEF RenameIndex, Ind, Final, Tmp, TypeInv, TypeOK, MediumTypeOK, ProgramShape, Drafting
<1>2. /\ py' = [py EXCEPT ![p] = r] /\ r.date = py[p].date /\ Inside(p)
      /\ r.pc = "unmark"
      /\ UNCHANGED <<objs, tmps, wfd, rm, stale>>
      /\ idx' = Put(Drop(idx, Ind(p)), m, x)
  BY <1>1 DEF RenameIndex, Go, Inside, Step, Program, history
<1> HIDE DEF r, x, m
<1>3. /\ OtherIndexes(p) /\ idx'[m] = x /\ DOMAIN idx' \subseteq DOMAIN idx \cup {m}
      /\ \A n \in DOMAIN idx' : n # m => idx'[n] = idx[n]
  BY <1>1, <1>2 DEF OtherIndexes, Put, Drop
<1>4. \A f \in File : Safe(x.sha1[f])
  BY <1>1, AllLines DEF x
<1>5. ASSUME NEW n \in Published'
      PROVE  \/ n \in Published /\ idx'[n] = idx[n]
             \/ \A f \in File : \A k : k = idx'[n].sha1[f] => Safe(k)
  <2>1. CASE n = m
    BY <1>3, <1>4, <2>1
  <2>2. CASE n # m
    BY <1>1, <1>3, <2>2, OtherPublished DEF IsMap
  <2>. QED BY <2>1, <2>2
<1>6. r.pc \notin Drafting /\ r.pc # "publish"
  BY <1>2 DEF Drafting, Scan, AtFile
<1>. QED BY <1>1, <1>2, <1>3, <1>5, <1>6, IndexTrust

\* A step of the copying leaves the objects alone that are safe.
LEMMA SafeCopy ==
  ASSUME TypeInv, CopyInv, NEW p \in Host, Inside(p), NEW r, py' = [py EXCEPT ![p] = r],
         NEW k, Safe(k), k \in DOMAIN objs', objs'[k] = objs[k], stale \subseteq stale',
         ~ (p \in NoRename /\ r.pc = "copy" /\ k = r.hash)
  PROVE  Safe(k)'
<1>1. py'[p] = r /\ \A q \in Host \ {p} : py'[q] = py[q]
  BY Parts
<1>2. \A q \in Host : ~ InPlace(q, k)'
  BY <1>1 DEF Safe, InPlace
<1>. QED BY <1>2 DEF Safe, Intact

\* What a backup copies is not there, or not safe, before.
LEMMA ObjectStays ==
  ASSUME TypeInv, CopyInv, NEW p \in Host, NEW k, Safe(k),
         CreateDest(p) \/ CopyBlock(p) \/ RenameDest(p) \/ CopyFails(p)
  PROVE  k \in DOMAIN objs' /\ objs'[k] = objs[k]
<1> DEFINE h == py[p].hash
<1>1. k \in DOMAIN objs /\ ~ InPlace(p, k)
  BY DEF Safe
<1>2. CASE CreateDest(p)
  <2>1. py[p].pc = "create" /\ (objs' = Put(objs, h, <<>>) \/ objs' = objs)
    BY <1>2 DEF CreateDest
  <2>2. k # h
    BY <1>1, <2>1 DEF CopyInv, CopyOf
  <2>. QED BY <1>1, <2>1, <2>2 DEF Put
<1>3. CASE CopyBlock(p)
  <2> DEFINE d == src[p][Current(p)].data
  <2>1. /\ py[p].pc = "copy" /\ wfd[p].hash = h
        /\ wfd[p].at = (IF p \in NoRename THEN "obj" ELSE "tmp")
    BY <1>3, Parts DEF CopyBlock, ProgramShape, CopyInv, CopyOf
  <2>2. p \in NoRename => k # wfd[p].hash
    BY <1>1, <2>1 DEF InPlace
  <2>3. CASE WriteBlock(p, py[p].off, d[py[p].off + 1])
    BY <1>1, <2>1, <2>2, <2>3 DEF WriteBlock
  <2>. QED BY <1>1, <1>3, <2>3 DEF CopyBlock
<1>4. CASE RenameDest(p)
  <2>1. p \notin NoRename /\ py[p].pc = "rename"
    BY <1>4, Parts DEF RenameDest, ProgramShape
  <2>2. k # h
    BY <1>1, <2>1 DEF CopyInv, CopyOf
  <2>. QED BY <1>1, <1>4, <2>2 DEF RenameDest, RenameTmp, Put
<1>5. CASE CopyFails(p)
  <2>1. /\ py[p].pc = "copy"
        /\ IF p \in NoRename THEN objs' = Drop(objs, h) ELSE objs' = objs
    BY <1>5 DEF CopyFails, RemoveDest
  <2>. QED BY <1>1, <2>1 DEF InPlace, Drop
<1>. QED BY <1>2, <1>3, <1>4, <1>5

\* A step of the copying of a file.
LEMMA CopyTrust ==
  ASSUME TypeInv, CopyInv, TrustInv, TypeInv', NEW p \in Host, NEW r,
         py' = [py EXCEPT ![p] = r], r.date = py[p].date, UNCHANGED <<idx, rm>>,
         py[p].pc \in Drafting, r.pc # "publish", Cut' \subseteq Cut,
         \A k : Safe(k) => Safe(k)',
         \A k : r.pc = "line" /\ k = r.hash => Safe(k)'
  PROVE  TrustInv'
<1>1. py'[p] = r /\ Ind(p)' = Ind(p)
  <2>1. py'[p] = r
    BY Parts
  <2>2. py'[p].date = py[p].date
    BY <2>1
  <2>. QED BY <2>1, <2>2, IndStays
<1>2. Inside(p)
  BY DEF Inside, Step, Drafting, Scan, AtFile
<1>3. LinesOf(p)'
  <2>1. \A f \in File : \A k : k = idx[Ind(p)].sha1[f] /\ k # None => Safe(k)'
    BY DEF TrustInv, LinesOf
  <2>2. \A f \in File : (LET h == idx[Ind(p)].sha1[f] IN h # None => Safe(h))'
    BY <1>1, <2>1
  <2>3. py'[p].pc = "line" => Safe(py[p].hash)'
    BY <1>1
  <2>. QED BY <1>1, <2>2, <2>3 DEF LinesOf
<1>4. OtherIndexes(p) /\ \A n \in Published' : n \in Published /\ idx'[n] = idx[n]
  BY DEF OtherIndexes, Published
<1>. QED BY <1>2, <1>3, <1>4, InsideTrust

\* The destination was not there before.
LEMMA CreateDestTrust ==
  ASSUME TypeInv, CopyInv, TrustInv, TypeInv', NEW p \in Host, CreateDest(p)
  PROVE  TrustInv'
<1> DEFINE r == [py[p] EXCEPT !.pc = "copy", !.off = 0]
           h == py[p].hash
<1>1. /\ py[p].pc = "create" /\ py' = [py EXCEPT ![p] = r]
      /\ UNCHANGED <<idx, rm, stale>> /\ py[p] \in Program
      /\ objs' = Put(objs, h, <<>>) \/ objs' = objs
  BY Parts DEF CreateDest, history
<1>2. r.pc = "copy" /\ r.hash = h /\ r.date = py[p].date
  BY <1>1 DEF Program
<1> HIDE DEF r
<1>3. h \notin DOMAIN objs /\ Inside(p) /\ py[p].pc \in Drafting
  BY <1>1 DEF CopyInv, CopyOf, Inside, Step, Drafting, Scan, AtFile
<1>4. ASSUME NEW k, Safe(k) PROVE Safe(k)'
  <2>1. k \in DOMAIN objs /\ k # h
    BY <1>3, <1>4 DEF Safe
  <2>2. k \in DOMAIN objs' /\ objs'[k] = objs[k]
    BY <1>4, ObjectStays
  <2>. QED BY <1>1, <1>2, <1>3, <1>4, <2>1, <2>2, SafeCopy
<1>5. Cut' \subseteq Cut
  BY CreateDestCopy
<1>. QED BY <1>1, <1>2, <1>3, <1>4, <1>5, CopyTrust

\* A copy that is complete is what was hashed, or its file changed since.
LEMMA CopyBlockTrust ==
  ASSUME TypeInv, CopyInv, TrustInv, TypeInv', CopyInv', NEW p \in Host, CopyBlock(p)
  PROVE  TrustInv'
<1> DEFINE h == py[p].hash
           d == src[p][Current(p)].data
<1>1. /\ py[p].pc = "copy" /\ UNCHANGED <<idx, rm>> /\ py[p] \in Program
      /\ stale \subseteq stale' /\ wfd[p].hash = h /\ wfd[p] # None
  BY Parts DEF CopyBlock, ProgramShape
<1>2. /\ Inside(p) /\ py[p].pc \in Drafting /\ h \in DOMAIN Dest(p)
      /\ wfd[p].at = (IF p \in NoRename THEN "obj" ELSE "tmp")
  BY <1>1 DEF CopyInv, CopyOf, Inside, Step, Drafting, Scan, AtFile
<1>3. ASSUME NEW k, Safe(k)
      PROVE  k \in DOMAIN objs' /\ objs'[k] = objs[k] /\ ~ (p \in NoRename /\ k = h)
  <2>1. k \in DOMAIN objs /\ ~ (p \in NoRename /\ k = h)
    BY <1>1, <1>3 DEF Safe, InPlace
  <2>. QED BY <1>3, <2>1, ObjectStays
<1>4. Cut' \subseteq Cut
  BY CopyBlockCopy
<1>5. CASE py[p].off < Len(d)
  <2> DEFINE r == [py[p] EXCEPT !.off = @ + 1]
  <2>1. py' = [py EXCEPT ![p] = r]
    BY <1>5 DEF CopyBlock
  <2>2. r.pc = "copy" /\ r.hash = h /\ r.date = py[p].date
    BY <1>1 DEF Program
  <2> HIDE DEF r
  <2>3. \A k : Safe(k) => Safe(k)'
    BY <1>1, <1>2, <1>3, <2>1, <2>2, SafeCopy
  <2>. QED BY <1>1, <1>2, <1>4, <2>1, <2>2, <2>3, CopyTrust
<1>6. CASE ~ (py[p].off < Len(d))
  <2> DEFINE r == [py[p] EXCEPT !.pc = IF p \in NoRename THEN "line" ELSE "rename"]
  <2>1. py' = [py EXCEPT ![p] = r] /\ wfd' = [wfd EXCEPT ![p] = None] /\ objs' = objs
    BY <1>6 DEF CopyBlock, Go
  <2>2. r.pc = (IF p \in NoRename THEN "line" ELSE "rename") /\ r.hash = h
        /\ r.date = py[p].date
    BY <1>1 DEF Program
  <2> HIDE DEF r
  <2>3. \A k : Safe(k) => Safe(k)'
    BY <1>1, <1>2, <1>3, <2>1, <2>2, SafeCopy
  <2>4. ASSUME NEW k, r.pc = "line", k = r.hash PROVE Safe(k)'
    <3>1. k = h /\ p \in NoRename /\ k \in DOMAIN objs /\ py'[p] = r
      BY <1>2, <2>1, <2>2, <2>4, Parts DEF Dest
    <3>2. Inside(p)'
      BY <2>4, <3>1 DEF Inside, Step
    <3>3. Cut' = {}
      BY <1>2, <1>4, InsideClean
    <3>4. \A q \in Host : wfd'[q] # On(q, k)
      <4>1. \A q \in Host : wfd'[q] = None
        BY <1>2, <2>1, OnlyFd, Parts DEF CopyInv
      <4>2. k \in HashName
        BY <3>1, CleanupParts DEF IsMap
      <4>3. \A q \in Host : On(q, k) \in WriteFd
        BY <4>2 DEF On, WriteFd
      <4>. QED BY <4>1, <4>3, NoneAssumption
    <3>5. Intact(k)' \/ k \in stale'
      BY <2>1, <3>1, <3>3, <3>4 DEF Cut, On
    <3>6. \A q \in Host : py'[q].pc # "copy"
      <4>1. \A q \in Host \ {p} : py'[q] = py[q] /\ py[q].pc # "copy"
        BY <1>2, <2>1, OnlyFd, Parts DEF CopyInv
      <4>. QED BY <2>4, <3>1, <4>1
    <3>7. \A q \in Host : ~ InPlace(q, k)'
      BY <3>6 DEF InPlace
    <3>8. k \in DOMAIN objs'
      BY <2>1, <3>1
    <3>. QED BY <3>5, <3>7, <3>8 DEF Safe
  <2>. QED BY <1>1, <1>2, <1>4, <2>1, <2>2, <2>3, <2>4, CopyTrust
<1>. QED BY <1>5, <1>6

\* The copy is renamed into place, where there was nothing.
LEMMA RenameDestTrust ==
  ASSUME TypeInv, CopyInv, TrustInv, TypeInv', NEW p \in Host, RenameDest(p)
  PROVE  TrustInv'
<1> DEFINE h == py[p].hash
           r == [py[p] EXCEPT !.pc = "line"]
<1>1. /\ py[p].pc = "rename" /\ UNCHANGED <<idx, rm, stale>> /\ py[p] \in Program
      /\ p \notin NoRename
  BY Parts DEF RenameDest, ProgramShape, history
<1>2. /\ h \in DOMAIN tmps /\ (Hash(tmps[h]) = h \/ h \in stale) /\ Inside(p)
      /\ h \notin DOMAIN objs /\ py[p].pc \in Drafting
  BY <1>1 DEF CopyInv, CopyOf, Inside, Step, Drafting, Scan, AtFile
<1>3. objs' = Put(objs, h, tmps[h]) /\ py' = [py EXCEPT ![p] = r]
  BY <1>2 DEF RenameDest, RenameTmp, Go
<1>4. r.pc = "line" /\ r.hash = h /\ r.date = py[p].date /\ py'[p] = r
  BY <1>1, <1>3, Parts DEF Program
<1> HIDE DEF r
<1>5. ASSUME NEW k, Safe(k) PROVE Safe(k)'
  <2>1. k \in DOMAIN objs' /\ objs'[k] = objs[k]
    BY <1>5, ObjectStays
  <2>. QED BY <1>1, <1>2, <1>3, <1>5, <2>1, SafeCopy
<1>6. ASSUME NEW k, k = h PROVE Safe(k)'
  <2>1. k \in DOMAIN objs' /\ (Hash(objs'[k]) = k \/ k \in stale')
    BY <1>1, <1>2, <1>3, <1>6 DEF Put
  <2>2. \A q \in Host : ~ InPlace(q, k)'
    <3>1. \A q \in Host \ {p} : py'[q] = py[q] /\ py[q].pc # "copy"
      BY <1>2, <1>3, OnlyFd, Parts DEF CopyInv
    <3>. QED BY <1>1, <3>1 DEF InPlace
  <2>. QED BY <2>1, <2>2 DEF Safe, Intact
<1>7. Cut' \subseteq Cut
  BY RenameDestCopy
<1>. QED BY <1>1, <1>2, <1>3, <1>4, <1>5, <1>6, <1>7, CopyTrust

\* A copy that fails was no one's.
LEMMA CopyFailsTrust ==
  ASSUME TypeInv, CopyInv, TrustInv, TypeInv', NEW p \in Host, CopyFails(p)
  PROVE  TrustInv'
<1> DEFINE r == NoProgram(p)
<1>1. /\ py[p].pc = "copy" /\ UNCHANGED <<idx, rm, stale>> /\ py' = [py EXCEPT ![p] = r]
      /\ r.pc = "idle" /\ r.date = py[p].date
  BY NoProgramType DEF CopyFails, history
<1>2. Inside(p) /\ py[p].pc \in Drafting
  BY <1>1 DEF Inside, Step, Drafting, Scan, AtFile
<1> HIDE DEF r
<1>3. ASSUME NEW k, Safe(k) PROVE Safe(k)'
  <2>1. k \in DOMAIN objs' /\ objs'[k] = objs[k]
    BY <1>3, ObjectStays
  <2>. QED BY <1>1, <1>2, <1>3, <2>1, SafeCopy
<1>4. Cut' \subseteq Cut
  BY CopyEndsCopy
<1>. QED BY <1>1, <1>2, <1>3, <1>4, CopyTrust

\* A kill can leave an object cut off: then the index it was for is there,
\* unfinished, and the marker unsafe.
LEMMA KillBackupTrust ==
  ASSUME TypeInv, CopyInv, TrustInv, TypeInv', NEW p \in Host, KillBackup(p)
  PROVE  TrustInv'
<1> DEFINE r == NoProgram(p)
<1>1. /\ UNCHANGED <<idx, objs, markers, rm, stale>> /\ py' = [py EXCEPT ![p] = r]
      /\ r.pc = "idle" /\ r.date = py[p].date /\ wfd' = [wfd EXCEPT ![p] = None]
      /\ rm.pc = "idle" /\ wfd \in [Host -> {None} \cup WriteFd]
  BY NoProgramType, NoPipelineThen, CleanupParts DEF KillBackup, history
<1> HIDE DEF r
<1>2. py'[p] = r /\ \A q \in Host \ {p} : py'[q] = py[q]
  BY <1>1, Parts
<1>3. \A k : Safe(k) => Safe(k)'
  BY <1>1, SafeStays
<1>4. LinesOf(p)'
  BY <1>1, <1>2 DEF LinesOf, Drafting, Scan, AtFile
<1>5. Warned'
  <2>1. CASE Cut' = {}
    BY <2>1 DEF Warned
  <2>2. CASE Cut # {}
    BY <1>1, <1>2, <2>2 DEF TrustInv, Warned, markers
  <2>3. CASE Cut = {} /\ Cut' # {}
    <3>1. PICK k \in Cut' : wfd[p] = On(p, k)
      BY <1>1, <2>3 DEF Cut, Intact, On
    <3>2. k \in HashName
      BY <1>1, CleanupParts DEF Cut, IsMap
    <3>3. py[p].pc = "copy" /\ wfd[p].at = "obj"
      <4>1. On(p, k) \in WriteFd
        BY <3>2 DEF On, WriteFd
      <4>2. wfd[p] # None
        BY <3>1, <4>1, NoneAssumption
      <4>. QED BY <3>1, <4>2, Parts DEF On
    <3>4. p \in NoRename /\ Inside(p) /\ py[p].pc \in Drafting
      BY <3>3 DEF CopyInv, CopyOf, Inside, Step, Drafting, Scan, AtFile
    <3>5. Ind(p) \in DOMAIN idx /\ ~ idx[Ind(p)].end
      BY <3>4, Parts DEF ProgramShape
    <3>6. /\ active /\ unsafe
          /\ \A q \in Host \ {p} : py[q].pc \in {"idle", "unsafe?", "active?"}
      BY <3>3, <3>4 DEF CopyInv, Alone
    <3>7. \A q \in Host : \/ py'[q].pc \in {"idle", "unsafe?"}
                          \/ py'[q].pc = "active?" /\ active'
      BY <1>1, <1>2, <3>6 DEF markers
    <3>8. unsafe' /\ Ind(p) \in DOMAIN idx' /\ ~ idx'[Ind(p)].end
      BY <1>1, <3>5, <3>6 DEF markers
    <3>. QED BY <3>7, <3>8 DEF Warned
  <2>. QED BY <2>1, <2>2, <2>3
<1>6. OtherIndexes(p) /\ \A n \in Published' : n \in Published /\ idx'[n] = idx[n]
  BY <1>1 DEF OtherIndexes, Published
<1>. QED BY <1>1, <1>3, <1>4, <1>5, <1>6, TrustTurn

\* Without a backup: what a cleanup or a user has to keep.
LEMMA IdleTrust ==
  ASSUME TypeInv, TypeInv', TrustInv, py' = py,
         \A p \in Host : py[p].pc \notin Drafting \cup {"line"},
         Needed', Warned', Keeping'
  PROVE  TrustInv'
<1>1. \A p \in Host : LinesOf(p)'
  BY DEF LinesOf, Drafting, Scan, AtFile
<1>. QED BY <1>1 DEF TrustInv

\* What is needed is kept by a cleanup that is done with the indexes.
LEMMA NeededKept ==
  ASSUME TypeInv, TrustInv, rm.pc = "rm", NEW n \in Published, NEW f \in File
  PROVE  idx[n].sha1[f] \in rm.kept
<1>1. Safe(idx[n].sha1[f]) /\ HashesOf(idx[n]) \subseteq rm.kept
  BY CleanupParts DEF TrustInv, Needed, Keeping, Listing
<1>2. idx[n].sha1[f] # None
  BY <1>1, CleanupParts, NoneAssumption DEF Safe, IsMap
<1>. QED BY <1>1, <1>2 DEF HashesOf

\* Once a cleanup is done with the indexes either all that it keeps is right,
\* or no object is wrong.
LEMMA KeptRight ==
  ASSUME TypeInv, TrustInv, rm.pc = "rm"
  PROVE  (\A h \in rm.kept : Safe(h)) \/ Cut = {}
BY DEF TrustInv, TypeInv, Listing, Keeping, Warned

\* A step without a backup that leaves indexes and repository alone.
LEMMA IdleReads ==
  ASSUME TypeInv, TypeInv', TrustInv, UNCHANGED <<idx, objs, wfd, py, stale>>,
         \A p \in Host : ~ BackingUp(p), Keeping', Cut # {} => unsafe'
  PROVE  TrustInv'
<1>1. \A p \in Host : py[p].pc = "idle" /\ py[p].pc \notin Drafting \cup {"line"}
  BY DEF BackingUp, Drafting, Scan, AtFile
<1>2. \A k : Safe(k) => Safe(k)'
  BY DEF Safe, Intact, InPlace
<1>3. Cut' = Cut
  BY DEF Cut, Intact
<1>4. Needed'
  <2>1. Published' = Published
    BY DEF Published
  <2>2. \A n \in Published : \A f \in File : \A k : k = idx[n].sha1[f] => Safe(k)'
    BY <1>2 DEF TrustInv, Needed
  <2>3. \A n \in Published' : \A f \in File : Safe(idx[n].sha1[f])'
    BY <2>1, <2>2
  <2>. QED BY <2>3 DEF Needed
<1>5. Warned'
  BY <1>1, <1>3 DEF TrustInv, Warned
<1>. QED BY <1>1, <1>4, <1>5, IdleTrust

\* The steps of a cleanup up to xargs rm.
LEMMA CleanupReadsTrust ==
  ASSUME TypeInv, TrustInv, TypeInv',
         StartCleanup \/ ScanRepo \/ (\E n \in IndexName : ParseIndex(n)) \/ PrintFiles
  PROVE  TrustInv'
<1>1. /\ rm.pc # "rm" /\ UNCHANGED <<mvars, markers, py, history>>
      /\ \A p \in Host : ~ BackingUp(p)
  BY CleanupParts DEF StartCleanup, ScanRepo, ParseIndex, PrintFiles, Listing
<1>2. Cut # {} => unsafe'
  BY <1>1 DEF TrustInv, Warned, markers
<1>3. /\ Published' = Published /\ idx' = idx
      /\ \A n \in Published : HashesOf(idx[n])' = HashesOf(idx[n])
      /\ \A k : Safe(k) => Safe(k)'
  BY <1>1 DEF Published, HashesOf, Safe, Intact, InPlace, mvars, history
<1>4. Published \subseteq DOMAIN idx /\ \A n \in Published : idx[n].end
  BY DEF Published
<1>5. ASSUME \A n \in Published : n \in rm'.argv \/ HashesOf(idx[n]) \subseteq rm'.kept,
             \/ /\ rm'.argv \cap DOMAIN idx \subseteq Published
                /\ \A h \in rm'.kept : Safe(h)
             \/ \A n \in DOMAIN idx : idx[n].end \/ n \in rm'.argv
      PROVE  Keeping'
  BY <1>3, <1>5 DEF Keeping
<1>6. CASE StartCleanup
  <2>1. PICK argv \in {Published, DOMAIN idx} \ {{}} :
                rm' = [NoPipeline EXCEPT !.pc = "scan", !.argv = argv]
    BY <1>6 DEF StartCleanup
  <2>2. rm'.argv = argv /\ rm'.kept = {}
    BY <2>1 DEF NoPipeline
  <2>3. \A n \in Published : n \in rm'.argv
    BY <1>4, <2>2
  <2>4. \/ /\ rm'.argv \cap DOMAIN idx \subseteq Published
           /\ \A h \in rm'.kept : Safe(h)
        \/ \A n \in DOMAIN idx : idx[n].end \/ n \in rm'.argv
    BY <2>1, <2>2
  <2>5. Keeping'
    BY <1>5, <2>3, <2>4
  <2>. QED BY <1>1, <1>2, <2>5, IdleReads DEF mvars, history
<1>7. CASE ScanRepo \/ PrintFiles
  <2>1. rm'.argv = rm.argv /\ rm'.kept = rm.kept /\ rm.pc # "idle"
    BY <1>7, CleanupParts DEF ScanRepo, PrintFiles, Pipeline
  <2>2. Keeping'
    BY <1>5, <2>1 DEF TrustInv, Keeping
  <2>. QED BY <1>1, <1>2, <2>2, IdleReads DEF mvars, history
<1>8. ASSUME NEW n \in IndexName, ParseIndex(n) PROVE TrustInv'
  <2>1. CASE n \in DOMAIN idx /\ idx[n].end
    <3> DEFINE hs == HashesOf(idx[n])
    <3>1. rm.pc = "parse" /\ n \in rm.argv
          /\ rm' = [rm EXCEPT !.argv = @ \ {n},
                              !.files = @ \ [name : {"obj"}, hash : hs], !.kept = @ \cup hs]
      BY <1>8, <2>1 DEF ParseIndex
    <3>2. rm'.argv = rm.argv \ {n} /\ rm'.kept = rm.kept \cup hs
      BY <3>1, CleanupParts DEF Pipeline
    <3>3. n \in Published => \A h \in hs : Safe(h)
      BY DEF TrustInv, Needed, HashesOf
    <3> HIDE DEF hs
    <3>4. \A m \in Published : m \in rm'.argv \/ HashesOf(idx[m]) \subseteq rm'.kept
      <4>1. \A m \in Published : m \in rm.argv \/ HashesOf(idx[m]) \subseteq rm.kept
        BY <3>1 DEF TrustInv, Keeping
      <4>2. HashesOf(idx[n]) \subseteq rm'.kept
        BY <3>2 DEF hs
      <4>. QED BY <3>2, <4>1, <4>2
    <3>5. \/ /\ rm'.argv \cap DOMAIN idx \subseteq Published
             /\ \A h \in rm'.kept : Safe(h)
          \/ \A m \in DOMAIN idx : idx[m].end \/ m \in rm'.argv
      BY <2>1, <3>1, <3>2, <3>3 DEF TrustInv, Keeping
    <3>6. Keeping'
      BY <1>5, <3>4, <3>5
    <3>. QED BY <1>1, <1>2, <3>6, IdleReads DEF mvars, history
  <2>2. CASE ~ (n \in DOMAIN idx /\ idx[n].end)
    <3>1. Keeping'
      BY <1>8, <2>2, NoPipelineType DEF ParseIndex, Keeping
    <3>. QED BY <1>1, <1>2, <3>1, IdleReads DEF mvars, history
  <2>. QED BY <2>1, <2>2
<1>. QED BY <1>6, <1>7, <1>8

\* xargs rm does not remove what it was to keep.
LEMMA KeptStays ==
  ASSUME TypeInv, NEW x \in rm.files, Rm(x), NEW k \in rm.kept, Safe(k)
  PROVE  k \in DOMAIN objs' /\ objs'[k] = objs[k]
<1>1. k \in DOMAIN objs /\ x # Obj(k)
  BY CleanupParts DEF Rm, Listing, Safe
<1>2. CASE x.name = "obj"
  <2>1. x.hash # k
    BY <1>1, <1>2, CleanupParts DEF Obj, RepoFile
  <2>2. objs' = Drop(objs, x.hash)
    BY <1>2 DEF Rm, RemoveObj
  <2>. QED BY <1>1, <2>1, <2>2 DEF Drop
<1>3. CASE x.name # "obj"
  BY <1>1, <1>3 DEF Rm
<1>. QED BY <1>2, <1>3

\* So no object that is needed.
LEMMA RmTrust ==
  ASSUME TypeInv, CopyInv, TrustInv, TypeInv', NEW x \in rm.files, Rm(x)
  PROVE  TrustInv'
<1>1. /\ rm.pc = "rm" /\ UNCHANGED <<files, idx, events, py, history>>
      /\ rm' = [rm EXCEPT !.files = @ \ {x}]
      /\ \A p \in Host : ~ BackingUp(p)
  BY CleanupParts DEF Rm, Listing
<1>2. rm'.pc = "rm" /\ rm'.argv = rm.argv /\ rm'.kept = rm.kept
  BY <1>1, CleanupParts DEF Pipeline
<1>4. ASSUME NEW k \in rm.kept, Safe(k) PROVE Safe(k)'
  <2>1. k \in DOMAIN objs' /\ objs'[k] = objs[k]
    BY <1>4, KeptStays
  <2>. QED BY <1>1, <1>4, <2>1 DEF Safe, Intact, InPlace, history
<1>5. Needed'
  <2>1. \A n \in Published : \A f \in File : \A k : k = idx[n].sha1[f] => Safe(k)'
    BY <1>1, <1>4, NeededKept DEF TrustInv, Needed
  <2>2. Published' = Published /\ idx' = idx
    BY <1>1 DEF Published
  <2>3. \A n \in Published' : \A f \in File : Safe(idx[n].sha1[f])'
    BY <2>1, <2>2
  <2>. QED BY <2>3 DEF Needed
<1>6. Cut' \subseteq Cut
  <2>1. CleanupStep
    BY DEF CleanupStep
  <2>. QED BY <2>1, CleanupCopy
<1>7. Warned'
  BY <1>1, <1>2, <1>6 DEF TrustInv, Warned
<1>8. Keeping'
  <2>1. Published' = Published /\ idx' = idx
    BY <1>1 DEF Published
  <2>2. \A n \in Published' : n \in rm'.argv \/ HashesOf(idx[n])' \subseteq rm'.kept
    BY <1>1, <1>2, <2>1 DEF TrustInv, Keeping, HashesOf
  <2>3. \/ /\ rm'.argv \cap DOMAIN idx' \subseteq Published'
           /\ \A h \in rm'.kept : Safe(h)'
        \/ \A n \in DOMAIN idx' : idx'[n].end \/ n \in rm'.argv
    BY <1>1, <1>2, <1>4, <2>1 DEF TrustInv, Keeping
  <2>. QED BY <2>2, <2>3 DEF Keeping
<1>9. \A p \in Host : py[p].pc \notin Drafting \cup {"line"}
  BY <1>1 DEF BackingUp, Drafting, Scan, AtFile
<1>10. py' = py
  BY <1>1
<1>. QED BY <1>5, <1>7, <1>8, <1>9, <1>10, IdleTrust

\* The end of a cleanup: no wrong object is left, or its marker is.
LEMMA CleanupEndsTrust ==
  ASSUME TypeInv, TrustInv, TypeInv', RmDone \/ (KillCleanup /\ ~ unmarked')
  PROVE  TrustInv'
<1>1. /\ rm' = NoPipeline /\ UNCHANGED <<idx, objs, wfd, py, stale, markers>>
      /\ \A p \in Host : ~ BackingUp(p)
  BY CleanupParts DEF RmDone, KillCleanup, Listing, mvars, medium, history
<1>2. Keeping'
  BY <1>1, NoPipelineType DEF Keeping
<1>3. Cut # {} => unsafe'
  <2>1. CASE RmDone
    <3>1. rm.pc = "rm" /\ DOMAIN objs \subseteq rm.kept
      BY <2>1, CleanupParts DEF RmDone, Listing
    <3>2. Cut = {}
      BY <3>1, KeptRight DEF Cut, Safe
    <3>. QED BY <3>2
  <2>2. CASE KillCleanup /\ ~ unmarked'
    <3>1. Cut # {} => unsafe
      BY <2>2 DEF KillCleanup
    <3>. QED BY <1>1, <3>1 DEF markers
  <2>. QED BY <2>1, <2>2
<1>. QED BY <1>1, <1>2, <1>3, IdleReads

\* A user edits files, and takes away indexes, and what is left of dead backups.
LEMMA UserTrust ==
  ASSUME TypeInv, CopyInv, TrustInv, TypeInv', User, ~ unmarked'
  PROVE  TrustInv'
<1>1. /\ UNCHANGED <<objs, wfd, py, rm, stale>>
      /\ DOMAIN idx' \subseteq DOMAIN idx
      /\ \A n \in DOMAIN idx' : idx'[n] = idx[n]
      /\ \A n \in DOMAIN idx \ DOMAIN idx' : idx[n].end \/ TidyUp
  BY DEF User, Edit, DeleteIndex, TidyUp, Drop, history, Published
<1>2. \A k : Safe(k) => Safe(k)'
  BY <1>1 DEF Safe, Intact, InPlace
<1>3. Published' \subseteq Published
  BY <1>1 DEF Published
<1>4. Needed'
  <2>1. \A n \in Published' : \A f \in File : \A k : k = idx'[n].sha1[f] => Safe(k)'
    BY <1>1, <1>2, <1>3 DEF TrustInv, Needed, Published
  <2>2. \A n \in Published' : \A f \in File : Safe(idx[n].sha1[f])'
    BY <2>1
  <2>. QED BY <2>2 DEF Needed
<1>5. Cut' = Cut
  BY <1>1 DEF Cut, Intact
<1>6. Warned'
  <2>1. CASE TidyUp
    BY <1>5, <2>1 DEF TidyUp, Warned
  <2>2. CASE ~ TidyUp
    <3>1. UNCHANGED markers
      BY <2>2 DEF User
    <3>. QED BY <1>1, <1>5, <2>2, <3>1 DEF TrustInv, Warned, markers
  <2>. QED BY <2>1, <2>2
<1>7. Keeping'
  <2>1. CASE TidyUp
    BY <1>1, <2>1 DEF TidyUp, Keeping
  <2>2. CASE ~ TidyUp
    <3>1. \A n \in Published' : HashesOf(idx[n])' = HashesOf(idx[n])
      BY <1>1 DEF Published, HashesOf
    <3>2. rm'.argv \cap DOMAIN idx \subseteq Published
             => rm'.argv \cap DOMAIN idx' \subseteq Published'
      BY <1>1 DEF Published
    <3>. QED BY <1>1, <1>2, <1>3, <3>1, <3>2 DEF TrustInv, Keeping
  <2>. QED BY <2>1, <2>2
<1>8. ASSUME NEW p \in Host PROVE LinesOf(p)'
  <2>1. Ind(p)' = Ind(p) /\ py'[p] = py[p] /\ LinesOf(p)
    BY <1>1, IndStays DEF TrustInv
  <2>2. py'[p].pc = "line" => Safe(py[p].hash)'
    <3>1. \A k : k = py[p].hash /\ py[p].pc = "line" => Safe(k)'
      BY <1>2, <2>1 DEF LinesOf
    <3>. QED BY <2>1, <3>1
  <2>3. CASE py[p].pc \notin Drafting
    <3>1. py[p].pc # "publish"
      BY <2>3 DEF Drafting
    <3>. QED BY <2>1, <2>2, <2>3, <3>1 DEF LinesOf
  <2>4. CASE py[p].pc \in Drafting
    <3>1. Ind(p) \in DOMAIN idx'
      BY <2>1, <2>4, Parts DEF TypeInv, ProgramShape
    <3>2. idx'[Ind(p)] = idx[Ind(p)]
      BY <1>1, <3>1
    <3>3. \A f \in File : \A k : k = idx'[Ind(p)].sha1[f] /\ k # None => Safe(k)'
      BY <1>2, <2>1, <2>4, <3>2 DEF LinesOf
    <3>4. \A f \in File : (LET h == idx[Ind(p)].sha1[f] IN h # None => Safe(h))'
      BY <2>1, <3>3
    <3>. QED BY <2>1, <2>2, <3>2, <3>4 DEF LinesOf
  <2>. QED BY <2>3, <2>4
<1>. QED BY <1>4, <1>6, <1>7, <1>8 DEF TrustInv

\* Every step.
LEMMA NextTrust ==
  ASSUME TypeInv, CopyInv, TrustInv, TypeInv', CopyInv', [Next]_vars, ~ unmarked'
  PROVE  TrustInv'
<1>1. CASE UNCHANGED vars
  <2>1. UNCHANGED <<idx, objs, wfd, py, rm, stale, active, unsafe>>
    BY <1>1 DEF vars, mvars, markers, history
  <2>2. \A k : Safe(k)' <=> Safe(k)
    BY <2>1 DEF Safe, Intact, InPlace
  <2>3. \A p \in Host : LinesOf(p)'
    <3> SUFFICES ASSUME NEW p \in Host PROVE LinesOf(p)'
      OBVIOUS
    <3>1. Ind(p)' = Ind(p) /\ LinesOf(p)
      BY <2>1, IndStays DEF TrustInv
    <3>2. \A f \in File : \A k :
             py[p].pc \in Drafting /\ k = idx[Ind(p)].sha1[f] /\ k # None => Safe(k)'
      BY <2>2, <3>1 DEF LinesOf
    <3>3. py'[p].pc \in Drafting =>
             \A f \in File : (LET h == idx[Ind(p)].sha1[f] IN h # None => Safe(h))'
      BY <2>1, <3>1, <3>2
    <3>4. \A k : k = py[p].hash /\ py[p].pc = "line" => Safe(k)'
      BY <2>2, <3>1 DEF LinesOf
    <3>5. py'[p].pc = "line" => Safe(py[p].hash)'
      BY <2>1, <3>4
    <3>. QED BY <2>1, <3>1, <3>3, <3>5 DEF LinesOf
  <2>4. Needed' /\ Keeping'
    BY <2>1 DEF TrustInv, Needed, Keeping, Published, HashesOf, Safe, Intact, InPlace
  <2>5. Warned'
    BY <2>1 DEF TrustInv, Warned, Cut, Intact
  <2>. QED BY <2>3, <2>4, <2>5 DEF TrustInv
<1>2. ASSUME NEW p \in Host,
             (\E d \in Date : StartBackup(p, d)) \/ BackupStep(p)
                \/ CopyFails(p) \/ KillBackup(p)
      PROVE  TrustInv'
  BY <1>2, MarkersTrust, ScanTrust, OpenIndexTrust, WriteLineTrust, EndIndexTrust,
     RenameIndexTrust, CreateDestTrust, CopyBlockTrust, RenameDestTrust, CopyFailsTrust,
     KillBackupTrust DEF BackupStep
<1>. QED BY <1>1, <1>2, CleanupReadsTrust, RmTrust, CleanupEndsTrust, UserTrust
         DEF Next, CleanupStep

\* At the start there are no indexes and no objects.
LEMMA InitTrust ==
  ASSUME Init PROVE TrustInv
<1>1. \A p \in Host : py[p].pc = "idle"
  BY InitType, Parts DEF Init
<1>2. DOMAIN objs = {} /\ DOMAIN idx = {} /\ rm.pc = "idle"
  BY NoPipelineType DEF Init, MediumInit, EmptyMap
<1>. QED BY <1>1, <1>2
         DEF TrustInv, LinesOf, Drafting, Scan, AtFile, Needed, Published, Warned, Cut, Keeping

----------------------------------------------------------------------------
(***************************************************************************)
(* The theorems.                                                           *)
(***************************************************************************)
LEMMA InitPy == Init => PyInv
BY InitType, InitCopy, InitTrust DEF PyInv

LEMMA NextPy == PyInv /\ [Next]_vars => PyInv'
<1> SUFFICES ASSUME PyInv, [Next]_vars PROVE PyInv'
  OBVIOUS
<1>1. TypeInv /\ TypeInv'
  BY NextType DEF PyInv
<1>2. (raced => raced') /\ (unmarked => unmarked')
  BY <1>1, Remembered
<1>3. ~ raced' => CopyInv'
  BY <1>1, <1>2, NextCopy DEF PyInv
<1>4. ~ raced' /\ ~ unmarked' => TrustInv'
  BY <1>1, <1>2, <1>3, NextTrust DEF PyInv
<1>. QED BY <1>1, <1>3, <1>4 DEF PyInv

LEMMA AlwaysPy == Spec => []PyInv
BY InitPy, NextPy, PTL DEF Spec

\* A finished index can be restored: each of its objects is there and intact,
\* or its file changed between sha1() and copy() (hbackup:617-628).
THEOREM FinishedRestorable == Spec => []PyRestorable
<1>1. PyInv => PyRestorable
  BY DEF PyInv, TrustInv, Needed, Safe, PyRestorable
<1>. QED BY <1>1, AlwaysPy, PTL

\* Only a kill leaves an incomplete object behind, and while there is one, so
\* is the marker unsafe (hbackup:550-564, 954, 963).
THEOREM CutsMarked == Spec => []CutMarked
<1>1. PyInv => CutMarked
  BY DEF PyInv, CopyInv, TrustInv, Warned, CutMarked
<1>. QED BY <1>1, AlwaysPy, PTL


----------------------------------------------------------------------------
(***************************************************************************)
(* What is finished stays.                                                 *)
(***************************************************************************)
\* An index that is being written is not a finished one.
LEMMA DraftNotPublished ==
  ASSUME TypeInv, NEW p \in Host, py[p].pc \in Drafting
  PROVE  Ind(p) \notin Published
<1>1. CASE p \in NoRename
  BY <1>1, Parts DEF ProgramShape, Published
<1>2. CASE p \notin NoRename
  BY <1>2 DEF Ind, Tmp, Published
<1>. QED BY <1>1, <1>2

\* The steps that leave the indexes alone.
LEMMA IndexesAlone ==
  ASSUME [Next]_vars,
         \A p \in Host : ~ (OpenIndex(p) \/ WriteLine(p) \/ EndIndex(p) \/ RenameIndex(p)),
         \A n \in Published : ~ DeleteIndex(n),
         ~ TidyUp
  PROVE  idx' = idx
<1>1. CASE UNCHANGED vars
  BY <1>1, SMTT(60) DEF vars, mvars
<1>2. ASSUME NEW p \in Host,
             (\E d \in Date : StartBackup(p, d)) \/ BackupStep(p)
                \/ CopyFails(p) \/ KillBackup(p)
      PROVE  idx' = idx
  BY <1>2 DEF StartBackup, BackupStep, CopyFails, KillBackup, TestMarker, MakeActive,
              MakeUnsafe, HashFile, ScanReturns, IsFile, CreateDest, CopyBlock, RenameDest,
              RemoveMarker, mvars
<1>3. CASE StartCleanup \/ CleanupStep \/ KillCleanup
  BY <1>3 DEF StartCleanup, CleanupStep, KillCleanup, ScanRepo, ParseIndex, PrintFiles, Rm,
              RmDone, mvars, medium
<1>4. CASE User
  BY <1>4 DEF User, Edit
<1>. QED BY <1>1, <1>2, <1>3, <1>4 DEF Next

\* Only the end of a backup finishes an index, its own.
LEMMA PublishedGrows ==
  ASSUME TypeInv, TypeInv', [Next]_vars, NEW n \in Published' \ Published
  PROVE  \E p \in Host : n[1] = p /\ py'[p].pc \notin Writing
<1>1. CASE \E p \in Host : EndIndex(p) \/ RenameIndex(p)
  <2>1. PICK p \in Host : EndIndex(p) \/ RenameIndex(p)
    BY <1>1
  <2>2. Ind(p)[1] = p /\ Final(p, py[p].date)[1] = p /\ py[p] \in Program /\ py \in [Host -> Program]
    BY Parts DEF Ind, Final, Tmp
  <2>3. CASE EndIndex(p)
    <3>1. n = Ind(p)
      BY <2>3 DEF EndIndex, Published
    <3>2. p \in NoRename
      BY <3>1 DEF Ind, Tmp, Published
    <3>3. py'[p].pc = "unmark unsafe"
      BY <2>2, <2>3, <3>2 DEF EndIndex, Go, Program
    <3>. QED BY <2>2, <3>1, <3>3 DEF Writing
  <2>4. CASE RenameIndex(p)
    <3>1. n = Final(p, py[p].date)
      BY <2>4 DEF RenameIndex, Published, Put, Drop
    <3>2. py'[p].pc = "unmark"
      BY <2>2, <2>4 DEF RenameIndex, Go, Program
    <3>. QED BY <2>2, <3>1, <3>2 DEF Writing
  <2>. QED BY <2>1, <2>3, <2>4
<1>2. CASE \E p \in Host : OpenIndex(p) \/ WriteLine(p)
  <2>1. PICK p \in Host : OpenIndex(p) \/ WriteLine(p)
    BY <1>2
  <2>2. CASE OpenIndex(p)
    BY <2>2 DEF OpenIndex, Published, Put, EmptyIndex
  <2>3. CASE WriteLine(p)
    <3>1. py[p].pc \in Drafting
      BY <2>3 DEF WriteLine, Drafting, Scan, AtFile
    <3>2. Ind(p) \in DOMAIN idx /\ idx[Ind(p)] \in IndexFile
      BY <3>1, Parts DEF ProgramShape, IsMap
    <3>. QED BY <2>3, <3>2 DEF WriteLine, Published, IndexFile
  <2>. QED BY <2>1, <2>2, <2>3
<1>3. CASE (\E m \in Published : DeleteIndex(m)) \/ TidyUp
  BY <1>3 DEF DeleteIndex, TidyUp, Drop, Published
<1>4. idx' = idx => FALSE
  BY DEF Published
<1>. QED BY <1>1, <1>2, <1>3, <1>4, IndexesAlone

\* A backup that may write its index had the date it has and could already, or
\* has just been let in.
LEMMA WritingOn ==
  ASSUME TypeInv, [Next]_vars, NEW q \in Host, py'[q].pc \in Writing
  PROVE  \/ py[q].pc \in Writing /\ py'[q].date = py[q].date
         \/ MayWrite(q, py'[q].date) /\ idx' = idx
<1>1. /\ py \in [Host -> Program] /\ py[q] \in Program
      /\ NoProgram(q).pc = "idle" /\ NoProgram(q).date = py[q].date
  BY Parts DEF NoProgram, Program
<1>2. CASE py'[q] = py[q]
  BY <1>2
<1>3. ASSUME NEW d \in Date, StartBackup(q, d)
      PROVE  MayWrite(q, py'[q].date) /\ idx' = idx
  BY <1>1, <1>3 DEF StartBackup, mvars, Program
<1>4. CASE BackupStep(q)
  <2>1. py[q].pc \in Writing \/ RemoveMarker(q)
    BY <1>4 DEF BackupStep, TestMarker, MakeActive, OpenIndex, MakeUnsafe, HashFile,
                ScanReturns, IsFile, CreateDest, CopyBlock, RenameDest, WriteLine, EndIndex,
                RenameIndex, Writing, Step
  <2>2. ~ RemoveMarker(q)
    BY <1>1 DEF RemoveMarker, Go, Program, Writing, Step
  <2>3. py'[q].date = py[q].date
    <3>1. CASE TestMarker(q) \/ RemoveMarker(q) \/ RenameDest(q)
      BY <1>1, <3>1 DEF TestMarker, RemoveMarker, RenameDest, Go, Program
    <3>2. CASE MakeActive(q) \/ OpenIndex(q) \/ MakeUnsafe(q) \/ IsFile(q) \/ EndIndex(q)
               \/ RenameIndex(q)
      BY <1>1, <3>2, ZenonT(60) DEF MakeActive, OpenIndex, MakeUnsafe, IsFile, EndIndex, RenameIndex, Go,
                        Program
    <3>3. CASE HashFile(q) \/ ScanReturns(q)
      BY <1>1, <3>3 DEF HashFile, ScanReturns, Go, Program
    <3>4. CASE CreateDest(q) \/ CopyBlock(q)
      BY <1>1, <3>4 DEF CreateDest, CopyBlock, Go, Program
    <3>5. CASE WriteLine(q)
      <4> DEFINE t == py[q].todo
                 u == [t EXCEPT ![1] = Tail(@)]
      <4>1. py' = [py EXCEPT ![q] = [@ EXCEPT !.pc = "hash", !.todo = u, !.hash = None, !.off = 0]]
        BY <1>1, <3>5, ZenonT(60) DEF WriteLine
      <4> HIDE DEF u
      <4>. QED BY <1>1, <4>1 DEF Program
    <3>. QED BY <1>4, <3>1, <3>2, <3>3, <3>4, <3>5 DEF BackupStep
  <2>. QED BY <2>1, <2>2, <2>3, SMTT(60)
<1>5. CASE CopyFails(q) \/ KillBackup(q)
  BY <1>1, <1>5 DEF CopyFails, KillBackup, Writing, Step
<1>6. ASSUME NEW p \in Host, p # q,
             (\E d \in Date : StartBackup(p, d)) \/ BackupStep(p)
                \/ CopyFails(p) \/ KillBackup(p)
      PROVE  py'[q] = py[q]
  BY <1>1, <1>6 DEF StartBackup, BackupStep, TestMarker, MakeActive, OpenIndex, MakeUnsafe,
                HashFile, ScanReturns, IsFile, CreateDest, CopyBlock, RenameDest, WriteLine,
                EndIndex, RenameIndex, RemoveMarker, CopyFails, KillBackup, Go
<1>7. CASE UNCHANGED vars \/ StartCleanup \/ CleanupStep \/ KillCleanup \/ User
  BY <1>7 DEF vars, StartCleanup, CleanupStep, KillCleanup, ScanRepo, ParseIndex, PrintFiles,
              Rm, RmDone, User, TidyUp
<1>. QED BY <1>2, <1>3, <1>4, <1>5, <1>6, <1>7 DEF Next

LEMMA InitNew ==
  ASSUME Init PROVE IndexNew
BY DEF Init, MediumInit, EmptyMap, IndexNew, Published

LEMMA NextNew ==
  ASSUME TypeInv, TypeInv', IndexNew, [Next]_vars
  PROVE  IndexNew'
<1> SUFFICES ASSUME ~ OverwriteIndex, Verbose, NEW q \in Host, py'[q].pc \in Writing,
                    Final(q, py'[q].date) \in Published'
             PROVE  FALSE
  BY DEF IndexNew, Writing, Final
<1> DEFINE n == Final(q, py'[q].date)
<1>1. n[1] = q
  BY DEF Final
<1>2. n \in Published
  BY <1>1, PublishedGrows
<1>3. CASE py[q].pc \in Writing /\ py'[q].date = py[q].date
  BY <1>2, <1>3 DEF IndexNew, Writing
<1>4. CASE MayWrite(q, py'[q].date) /\ idx' = idx
  BY <1>2, <1>4 DEF MayWrite, Published
<1>. QED BY <1>3, <1>4, WritingOn

\* A step leaves a finished index as it is, but for a user who deletes it.
LEMMA IndexStays ==
  ASSUME ~ OverwriteIndex, Verbose, TypeInv, IndexNew, [Next]_vars, NEW n \in Published
  PROVE  \/ n \in DOMAIN idx' /\ idx'[n] = idx[n]
         \/ n \notin Published' /\ events' > events
<1>1. n \in DOMAIN idx
  BY DEF Published
<1>2. CASE \E p \in Host : OpenIndex(p) \/ RenameIndex(p)
  <2>1. PICK p \in Host : OpenIndex(p) \/ RenameIndex(p)
    BY <1>2
  <2>2. py[p].pc \in Writing
    BY <2>1 DEF OpenIndex, RenameIndex, Writing, Step
  <2>3. Final(p, py[p].date) # n
    BY <2>2 DEF IndexNew
  <2>4. Tmp(p, py[p].date) # n
    BY DEF Tmp, Published
  <2>. QED BY <1>1, <2>1, <2>3, <2>4 DEF OpenIndex, RenameIndex, Ind, Put, Drop
<1>3. CASE \E p \in Host : WriteLine(p) \/ EndIndex(p)
  <2>1. PICK p \in Host : WriteLine(p) \/ EndIndex(p)
    BY <1>3
  <2>2. py[p].pc \in Drafting
    BY <2>1 DEF WriteLine, EndIndex, Drafting, Scan, AtFile
  <2>3. Ind(p) # n
    BY <2>2, DraftNotPublished
  <2>. QED BY <1>1, <2>1, <2>3 DEF WriteLine, EndIndex
<1>4. ASSUME NEW m \in Published, DeleteIndex(m)
      PROVE  \/ n \in DOMAIN idx' /\ idx'[n] = idx[n]
             \/ n \notin Published' /\ events' > events
  <2>1. events \in Nat
    BY DEF TypeInv, TypeOK, MediumTypeOK
  <2>. QED BY <1>1, <1>4, <2>1 DEF DeleteIndex, Event, Drop, Published
<1>5. CASE TidyUp
  BY <1>1, <1>5 DEF TidyUp, Published
<1>. QED BY <1>1, <1>2, <1>3, <1>4, <1>5, IndexesAlone

\* A step leaves alone the objects that finished indexes name.
LEMMA NeededStays ==
  ASSUME TypeInv, CopyInv, TrustInv, [Next]_vars, NEW n \in Published, NEW f \in File
  PROVE  LET k == idx[n].sha1[f] IN
         k \in DOMAIN objs /\ k \in DOMAIN objs' /\ objs'[k] = objs[k]
<1> SUFFICES ASSUME NEW k, k = idx[n].sha1[f]
             PROVE  k \in DOMAIN objs /\ k \in DOMAIN objs' /\ objs'[k] = objs[k]
  OBVIOUS
<1>1. Safe(k)
  BY DEF TrustInv, Needed
<1>2. k \in DOMAIN objs
  BY <1>1 DEF Safe
<1>3. ASSUME NEW p \in Host, CreateDest(p) \/ CopyBlock(p) \/ RenameDest(p) \/ CopyFails(p)
      PROVE  k \in DOMAIN objs' /\ objs'[k] = objs[k]
  BY <1>1, <1>3, ObjectStays
<1>4. ASSUME NEW x \in rm.files, Rm(x)
      PROVE  k \in DOMAIN objs' /\ objs'[k] = objs[k]
  <2>1. rm.pc = "rm"
    BY <1>4 DEF Rm
  <2>2. k \in rm.kept
    BY <2>1, NeededKept, SMTT(60)
  <2>. QED BY <1>1, <1>4, <2>2, KeptStays
<1>5. ASSUME NEW p \in Host,
             (\E d \in Date : StartBackup(p, d)) \/ BackupStep(p) \/ KillBackup(p),
             ~ (CreateDest(p) \/ CopyBlock(p) \/ RenameDest(p))
      PROVE  objs' = objs
  BY <1>5 DEF StartBackup, BackupStep, KillBackup, TestMarker, MakeActive, OpenIndex,
              MakeUnsafe, HashFile, ScanReturns, IsFile, WriteLine, EndIndex, RenameIndex,
              RemoveMarker, mvars
<1>6. CASE UNCHANGED vars \/ StartCleanup \/ KillCleanup \/ User
  BY <1>2, <1>6
     DEF vars, mvars, medium, StartCleanup, KillCleanup, User, Edit, DeleteIndex, TidyUp
<1>7. CASE ScanRepo \/ (\E m \in IndexName : ParseIndex(m)) \/ PrintFiles \/ RmDone
  BY <1>2, <1>7 DEF mvars, ScanRepo, ParseIndex, PrintFiles, RmDone
<1>. QED BY <1>2, <1>3, <1>4, <1>5, <1>6, <1>7 DEF Next, CleanupStep

\* What a restore of a finished index gives never changes, and but for its user
\* nobody takes the index away (hbackup:935-939, 960-961): with --verbose, for
\* the check that the index is new does nothing without.
THEOREM FinishedKept ==
  ASSUME ~ OverwriteIndex, Verbose PROVE Spec => PyKept
<1> DEFINE KeepStep ==
      ~ raced' /\ ~ unmarked' =>
          \A n \in Published :
             IF n \in Published'
             THEN \A f \in File : Restored(idx[n], f) = Restored(idx[n], f)'
             ELSE events' > events
<1>1. Init => IndexNew
  BY InitNew
<1>2. TypeInv /\ TypeInv' /\ IndexNew /\ [Next]_vars => IndexNew'
  BY NextNew
<1>3. PyInv /\ IndexNew /\ [Next]_vars => KeepStep
  <2> SUFFICES ASSUME PyInv, IndexNew, [Next]_vars, ~ raced', ~ unmarked',
                      NEW n \in Published
               PROVE  IF n \in Published'
                      THEN \A f \in File : Restored(idx[n], f) = Restored(idx[n], f)'
                      ELSE events' > events
    OBVIOUS
  <2>1. TypeInv /\ CopyInv /\ TrustInv
    BY Remembered DEF PyInv
  <2>2. CASE n \in DOMAIN idx' /\ idx'[n] = idx[n]
    <3>1. n \in Published'
      BY <2>2 DEF Published
    <3>2. \A f \in File : Restored(idx[n], f) = Restored(idx[n], f)'
      BY <2>1, <2>2, NeededStays DEF Restored
    <3>. QED BY <3>1, <3>2
  <2>. QED BY <2>1, <2>2, IndexStays
<1>4. PyInv => TypeInv
  BY DEF PyInv
<1>. QED BY <1>1, <1>2, <1>3, <1>4, AlwaysPy, PTL DEF Spec, PyKept
=============================================================================
