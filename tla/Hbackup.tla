------------------------------ MODULE Hbackup ------------------------------
(***************************************************************************)
(* hbackup, the older program, in Python, which uses the same medium.      *)
(* Instead of rechecking hashes it marks the repository: sha1/active is    *)
(* there while a backup goes on, and sha1/unsafe while one with --no-rename*)
(* does.  --cleanup lists what xargs rm is to remove.                      *)
(***************************************************************************)
EXTENDS Medium

CONSTANTS
    NoRename,   \* the hosts that back up with --no-rename
    Verbose     \* --verbose

ASSUME HbackupAssumption == NoRename \subseteq Host /\ Verbose \in BOOLEAN

VARIABLES
    active,     \* sha1/active exists
    unsafe,     \* sha1/unsafe exists
    py,         \* py[p]: the backup of p
    rm,         \* the pipeline hbackup --cleanup | xargs rm; kept is history
    stale,      \* history: hashes of files that changed before they were copied
    killed,     \* history: objects that a killed backup was writing in place
    raced,      \* history: two backups went on at once
    unmarked    \* history: unsafe was taken away, but not what it warns of

markers == <<active, unsafe>>
history == <<stale, killed, raced, unmarked>>
vars == <<mvars, markers, py, rm, history>>

Step == {"unsafe?", "active?", "mark", "open", "mark unsafe", "hash", "isfile",
         "create", "copy", "rename", "line", "end", "publish", "unmark unsafe",
         "unmark"}
\* todo has the directories still to scan, each with its files still to do.
Program == [pc : {"idle"} \cup Step, date : Date, todo : Seq(Seq(File)),
            hash : {None} \cup HashName, off : Nat]
NoProgram(p) == [py[p] EXCEPT !.pc = "idle", !.todo = <<>>, !.hash = None, !.off = 0]

\* Files below repo/sha1: an object, its .tmp, or one of the markers.
RepoFile == [name : {"obj", "tmp"}, hash : HashName]
            \cup [name : {"active", "unsafe"}, hash : {None}]
Pipeline == [pc : {"idle", "scan", "parse", "rm"}, argv : SUBSET IndexName,
             files : SUBSET RepoFile, kept : SUBSET HashName]
NoPipeline == [pc |-> "idle", argv |-> {}, files |-> {}, kept |-> {}]

TypeOK ==
    /\ MediumTypeOK
    /\ active \in BOOLEAN /\ unsafe \in BOOLEAN
    /\ py \in [Host -> Program]
    /\ \A p \in Host : wfd[p] # None <=> py[p].pc = "copy"
    /\ rm \in Pipeline
    /\ stale \in SUBSET HashName /\ killed \in SUBSET HashName
    /\ raced \in BOOLEAN /\ unmarked \in BOOLEAN

Init ==
    /\ MediumInit
    /\ active = FALSE /\ unsafe = FALSE
    /\ py \in [Host -> [pc : {"idle"}, date : Date, todo : {<<>>}, hash : {None}, off : {0}]]
    /\ rm = NoPipeline
    /\ stale = {} /\ killed = {} /\ raced = FALSE /\ unmarked = FALSE

BackingUp(p) == py[p].pc # "idle"
Current(p) == Head(Head(py[p].todo))
Go(p, step) == py' = [py EXCEPT ![p].pc = step]

\* The index that p writes.
Ind(p) == IF p \in NoRename THEN Final(p, py[p].date) ELSE Tmp(p, py[p].date)

\* Objects with wrong contents, other than those that are being written and
\* those that a change of the file explains.
Cut == {h \in DOMAIN objs \ stale :
          ~ Intact(h) /\ \A p \in Host : wfd[p] # [hash |-> h, at |-> "obj"]}

----------------------------------------------------------------------------
(***************************************************************************)
(* --backup.                                                               *)
(***************************************************************************)
\* Mutant: whether there is an index is not looked at.
MayWriteAny(p, d) == TRUE

\* "Index file already exists"; but sys.exit() depends on --verbose, too.
MayWrite(p, d) == OverwriteIndex \/ Final(p, d) \notin DOMAIN idx \/ ~ Verbose

\* Nobody starts a backup during a cleanup.
StartBackup(p, d) ==
    /\ ~ BackingUp(p) /\ rm.pc = "idle"
    /\ MayWrite(p, d)
    /\ py' = [py EXCEPT ![p] = [@ EXCEPT !.pc = "unsafe?", !.date = d, !.todo = Tree]]
    /\ UNCHANGED <<mvars, markers, rm, history>>

TestMarker(p) ==
    /\ \/ /\ py[p].pc = "unsafe?"
          /\ IF unsafe THEN py' = [py EXCEPT ![p] = NoProgram(p)] ELSE Go(p, "active?")
       \/ /\ py[p].pc = "active?"
          /\ IF active THEN py' = [py EXCEPT ![p] = NoProgram(p)] ELSE Go(p, "mark")
    /\ UNCHANGED <<mvars, markers, rm, history>>

MakeActive(p) ==
    /\ py[p].pc = "mark"
    /\ active' = TRUE
    /\ raced' = (raced \/ \E q \in Host \ {p} :
                             py[q].pc \in Step \ {"unsafe?", "active?"})
    /\ Go(p, "open")
    /\ UNCHANGED <<mvars, unsafe, rm, stale, killed, unmarked>>

\* Mutant: the backup is not marked as unsafe.
AfterOpenUnmarked(p) == "hash"

AfterOpen(p) == IF p \in NoRename THEN "mark unsafe" ELSE "hash"

OpenIndex(p) ==
    /\ py[p].pc = "open"
    /\ idx' = Put(idx, Ind(p), EmptyIndex)
    /\ Go(p, AfterOpen(p))
    /\ UNCHANGED <<files, objs, tmps, wfd, events, markers, rm, history>>

MakeUnsafe(p) ==
    /\ py[p].pc = "mark unsafe"
    /\ unsafe' = TRUE
    /\ Go(p, "hash")
    /\ UNCHANGED <<mvars, active, rm, history>>

\* sha1(lfs, fn), as one step.
HashFile(p) ==
    /\ py[p].pc = "hash" /\ py[p].todo # <<>> /\ Head(py[p].todo) # <<>>
    /\ py' = [py EXCEPT ![p].pc = "isfile",
                        ![p].hash = Hash(src[p][Current(p)].data)]
    /\ UNCHANGED <<mvars, markers, rm, history>>

\* scan_files returns: from a directory, and at last from the root.
ScanReturns(p) ==
    /\ py[p].pc = "hash"
    /\ \/ py[p].todo = <<>> /\ Go(p, "end")
       \/ /\ py[p].todo # <<>> /\ Head(py[p].todo) = <<>>
          /\ py' = [py EXCEPT ![p].todo = Tail(@)]
    /\ UNCHANGED <<mvars, markers, rm, history>>

\* Mutant: a .tmp will do.
HaveTmp(h) == h \in DOMAIN objs \cup DOMAIN tmps

Have(h) == h \in DOMAIN objs

IsFile(p) ==
    /\ py[p].pc = "isfile"
    /\ Go(p, IF Have(py[p].hash) THEN "line" ELSE "create")
    /\ UNCHANGED <<mvars, markers, rm, history>>

\* The destination of copy() is opened, HASH.tmp or HASH itself.
CreateDest(p) ==
    /\ py[p].pc = "create"
    /\ LET h == py[p].hash IN
       IF p \in NoRename
       THEN /\ objs' = Put(objs, h, <<>>)
            /\ wfd' = [wfd EXCEPT ![p] = [hash |-> h, at |-> "obj"]]
            /\ UNCHANGED tmps
       ELSE OpenTrunc(p, h) /\ UNCHANGED objs
    /\ py' = [py EXCEPT ![p].pc = "copy", ![p].off = 0]
    /\ UNCHANGED <<files, idx, events, markers, rm, history>>

\* The block that copy() reads next is another than the one that was hashed.
Changed(p) ==
    LET then == py[p].hash.sha1
        now == src[p][Current(p)].data
        n == py[p].off + 1
    IN (n \in DOMAIN then \/ n \in DOMAIN now)
       /\ ~ (n \in DOMAIN then /\ n \in DOMAIN now /\ then[n] = now[n])

\* A read and a write of copy(); at the end of the file, both are closed.
CopyBlock(p) ==
    /\ py[p].pc = "copy"
    /\ LET d == src[p][Current(p)].data IN
       IF py[p].off < Len(d)
       THEN /\ WriteBlock(p, py[p].off, d[py[p].off + 1])
            /\ py' = [py EXCEPT ![p].off = @ + 1]
            /\ UNCHANGED wfd
       ELSE /\ wfd' = [wfd EXCEPT ![p] = None]
            /\ Go(p, IF p \in NoRename THEN "line" ELSE "rename")
            /\ UNCHANGED <<objs, tmps>>
    /\ stale' = IF Changed(p) THEN stale \cup {py[p].hash} ELSE stale
    /\ UNCHANGED <<files, idx, events, markers, rm, killed, raced, unmarked>>

\* dfs.rename(tmp, dest).  Where it fails the program ends with an exception.
RenameDest(p) ==
    /\ py[p].pc = "rename"
    /\ IF py[p].hash \in DOMAIN tmps
       THEN RenameTmp(py[p].hash) /\ Go(p, "line")
       ELSE py' = [py EXCEPT ![p] = NoProgram(p)] /\ UNCHANGED <<objs, tmps, wfd>>
    /\ UNCHANGED <<files, idx, events, markers, rm, history>>

WriteLine(p) ==
    /\ py[p].pc = "line"
    /\ idx' = [idx EXCEPT ![Ind(p)].sha1[Current(p)] = py[p].hash]
    /\ py' = [py EXCEPT ![p].pc = "hash", ![p].todo[1] = Tail(@), ![p].hash = None,
                        ![p].off = 0]
    /\ UNCHANGED <<files, objs, tmps, wfd, events, markers, rm, history>>

\* "[end]" and ind.close()
EndIndex(p) ==
    /\ py[p].pc = "end"
    /\ idx' = [idx EXCEPT ![Ind(p)].end = TRUE]
    /\ Go(p, IF p \in NoRename THEN "unmark unsafe" ELSE "publish")
    /\ UNCHANGED <<files, objs, tmps, wfd, events, markers, rm, history>>

RenameIndex(p) ==
    /\ py[p].pc = "publish"
    /\ idx' = Put(Drop(idx, Ind(p)), Final(p, py[p].date), idx[Ind(p)])
    /\ Go(p, "unmark")
    /\ UNCHANGED <<files, objs, tmps, wfd, events, markers, rm, history>>

\* fs.remove() of a marker.  Without the marker it throws.
RemoveMarker(p) ==
    /\ \/ /\ py[p].pc = "unmark unsafe"
          /\ IF unsafe THEN Go(p, "unmark") ELSE py' = [py EXCEPT ![p] = NoProgram(p)]
          /\ unsafe' = FALSE /\ UNCHANGED active
       \/ /\ py[p].pc = "unmark"
          /\ active' = FALSE /\ UNCHANGED unsafe
          /\ py' = [py EXCEPT ![p] = NoProgram(p)]
    /\ UNCHANGED <<mvars, rm, history>>

\* Mutant: the file is not closed.
LeaveOpen(p, h) == UNCHANGED <<objs, wfd>>

\* "make sure we don't leave a broken file behind"
RemoveDest(p, h) ==
    IF p \in NoRename
    THEN /\ objs' = Drop(objs, h)
         /\ wfd' = [Moved(h, [tmp |-> "tmp", obj |-> "gone", gone |-> "gone"])
                       EXCEPT ![p] = None]
    ELSE wfd' = [wfd EXCEPT ![p] = None] /\ UNCHANGED objs

\* A read or write of copy() fails, and its destination is removed where it
\* has to be; nothing catches the exception.
CopyFails(p) ==
    /\ py[p].pc = "copy" /\ Event
    /\ RemoveDest(p, py[p].hash)
    /\ py' = [py EXCEPT ![p] = NoProgram(p)]
    /\ UNCHANGED <<files, idx, tmps, markers, rm, history>>

\* Also what is left when a copy fails and then the removal of its destination
\* fails, too: that exception ends the program in place of the first.
KillBackup(p) ==
    /\ BackingUp(p) /\ Event
    /\ killed' = IF wfd[p] # None /\ wfd[p].at = "obj" THEN killed \cup {wfd[p].hash}
                                                       ELSE killed
    /\ wfd' = [wfd EXCEPT ![p] = None]
    /\ py' = [py EXCEPT ![p] = NoProgram(p)]
    /\ UNCHANGED <<files, idx, objs, tmps, markers, rm, stale, raced, unmarked>>

BackupStep(p) ==
    \/ TestMarker(p) \/ MakeActive(p) \/ OpenIndex(p) \/ MakeUnsafe(p)
    \/ HashFile(p) \/ ScanReturns(p) \/ IsFile(p) \/ CreateDest(p) \/ CopyBlock(p)
    \/ RenameDest(p) \/ WriteLine(p) \/ EndIndex(p) \/ RenameIndex(p) \/ RemoveMarker(p)

----------------------------------------------------------------------------
(***************************************************************************)
(* --cleanup INDEX... | xargs rm                                           *)
(***************************************************************************)
\* It is given the indexes, finished ones or all that there are, while no
\* backup goes on.
StartCleanup ==
    /\ rm.pc = "idle" /\ \A p \in Host : ~ BackingUp(p)
    /\ \E argv \in {Published, DOMAIN idx} \ {{}} :
          rm' = [NoPipeline EXCEPT !.pc = "scan", !.argv = argv]
    /\ UNCHANGED <<mvars, markers, py, history>>

\* Every file below sha1, the markers included.
Scanned ==
    [name : {"obj"}, hash : DOMAIN objs] \cup [name : {"tmp"}, hash : DOMAIN tmps]
    \cup [name : {m \in {"active", "unsafe"} : IF m = "active" THEN active ELSE unsafe},
          hash : {None}]

ScanRepo ==
    /\ rm.pc = "scan"
    /\ rm' = [rm EXCEPT !.pc = "parse", !.files = Scanned]
    /\ UNCHANGED <<mvars, markers, py, history>>

\* parse_index(i, keep).  For an index that is not finished nothing at all is
\* listed.
ParseIndex(n) ==
    /\ rm.pc = "parse" /\ n \in rm.argv
    /\ rm' = IF n \in DOMAIN idx /\ idx[n].end
             THEN [rm EXCEPT !.argv = @ \ {n},
                             !.files = @ \ [name : {"obj"}, hash : HashesOf(idx[n])],
                             !.kept = @ \cup HashesOf(idx[n])]
             ELSE NoPipeline
    /\ UNCHANGED <<mvars, markers, py, history>>

PrintFiles ==
    /\ rm.pc = "parse" /\ rm.argv = {}
    /\ rm' = [rm EXCEPT !.pc = "rm"]
    /\ UNCHANGED <<mvars, markers, py, history>>

Rm(x) ==
    /\ rm.pc = "rm" /\ x \in rm.files
    /\ rm' = [rm EXCEPT !.files = @ \ {x}]
    /\ active' = (active /\ x.name # "active")
    /\ unsafe' = (unsafe /\ x.name # "unsafe")
    /\ CASE x.name = "obj" -> RemoveObj(x.hash) /\ UNCHANGED tmps
         [] x.name = "tmp" -> RemoveTmp(x.hash) /\ UNCHANGED objs
         [] OTHER -> UNCHANGED <<objs, tmps, wfd>>
    /\ UNCHANGED <<files, idx, events, py, history>>

RmDone ==
    /\ rm.pc = "rm" /\ rm.files = {}
    /\ rm' = NoPipeline
    /\ UNCHANGED <<mvars, markers, py, history>>

KillCleanup ==
    /\ rm.pc # "idle" /\ Event
    /\ rm' = NoPipeline
    /\ unmarked' = (unmarked \/ (~ unsafe /\ Cut # {}))
    /\ UNCHANGED <<files, medium, markers, py, stale, killed, raced>>

CleanupStep ==
    \/ ScanRepo \/ (\E n \in IndexName : ParseIndex(n)) \/ PrintFiles
    \/ (\E x \in rm.files : Rm(x)) \/ RmDone

----------------------------------------------------------------------------
\* After a backup died its user takes away the markers, which keep everyone
\* from starting another, and the unfinished indexes.
TidyUp ==
    /\ active \/ unsafe
    /\ \A p \in Host : ~ BackingUp(p)
    /\ rm.pc = "idle" /\ Event
    /\ active' = FALSE /\ unsafe' = FALSE
    /\ idx' = [n \in {m \in DOMAIN idx : idx[m].end} |-> idx[n]]
    /\ unmarked' = (unmarked \/ Cut # {})
    /\ UNCHANGED <<files, objs, tmps, wfd, py, rm, stale, killed, raced>>

User ==
    \/ /\ (\E p \in Host, f \in File : Edit(p, f)) \/ (\E n \in Published : DeleteIndex(n))
       /\ UNCHANGED <<markers, py, rm, history>>
    \/ TidyUp

Next ==
    \/ \E p \in Host : (\E d \in Date : StartBackup(p, d)) \/ BackupStep(p)
                       \/ CopyFails(p) \/ KillBackup(p)
    \/ StartCleanup \/ CleanupStep \/ KillCleanup
    \/ User

Spec == Init /\ [][Next]_vars

----------------------------------------------------------------------------
(***************************************************************************)
(* The test for the marker active and its making are two calls, so two     *)
(* backups can go on at once; what holds then is no part of the promises.  *)
(***************************************************************************)
\* An index that is finished can be restored: each of its objects is there and
\* intact, or its file changed between sha1() and copy() (hbackup:617-628).
\* The markers keep a backup from trusting what a killed one left in place,
\* as long as their warning is heeded.
PyRestorable ==
    ~ raced /\ ~ unmarked =>
       \A n \in Published : \A f \in File :
          LET h == idx[n].sha1[f] IN h \in DOMAIN objs /\ (Intact(h) \/ h \in stale)

\* Only a kill leaves an incomplete object behind: one that is renamed into
\* place is whole, and after an error copy_rip removes it (hbackup:550-564).
\* While there is one, so is the marker (hbackup:954, 963).
CutMarked ==
    ~ raced => /\ Cut \subseteq killed
               /\ Cut # {} /\ rm.pc # "rm" => unsafe \/ unmarked

\* A cleanup that has come to its end has left what the indexes it was
\* given need and nothing else (hbackup:799-820).
PySweepComplete ==
    rm.pc = "rm" /\ rm.files = {} =>
       DOMAIN tmps = {} /\ DOMAIN objs \subseteq rm.kept

\* What a restore of a finished index gives never changes, and but for its user
\* nobody takes the index away (hbackup:935-939, 960-961).
PyKept ==
    [][~ raced' /\ ~ unmarked' =>
          \A n \in Published :
             IF n \in Published'
             THEN \A f \in File : Restored(idx[n], f) = Restored(idx[n], f)'
             ELSE events' > events]_vars
=============================================================================
