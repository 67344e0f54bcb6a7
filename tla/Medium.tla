------------------------------ MODULE Medium ------------------------------
(***************************************************************************)
(* What outlives a run of nhbackup: the files of the machines being backed *)
(* up, the hint file of each machine, and the backup medium with its index *)
(* files and its repository of objects named by their SHA-1 hash.  The     *)
(* operators are the filesystem calls that the program's steps are made    *)
(* of; the actions are what the world around the program does.             *)
(*                                                                         *)
(* A byte of the model stands for one block of the code's 4096-byte reads  *)
(* and writes.  SHA-1 is ideal: two contents have one hash only if equal.  *)
(***************************************************************************)
EXTENDS Integers, Sequences

CONSTANTS
    Host,           \* machines (or roots) backed up to the medium
    Date,           \* index names a machine uses: <repo>/indexes/DATE/HOST
    File,           \* regular files below a root
    Tree,           \* the directories in the order backup_dir enters them,
                    \* each a sequence of files in sorted order
    Byte, Zero,     \* data, and what a read of a hole in a file returns
    Content,        \* the contents an edit can give a file
    StoreLimit,     \* STORE_LIMIT: files up to this size live in the index
    None,           \* "no such detail"
    OverwriteIndex, \* --overwrite
    UseHints,       \* --hint-file
    RecheckHash,    \* FALSE for --no-recheck-hash
    DeleteClean,    \* --delete
    DetectBogus,    \* --detect-bogus
    ReadErrors,     \* TRUE if reading an object may fail for a moment
    MaxEvents,      \* bound: edits, crashes, read errors and deletions
    MaxClock        \* bound: seconds that pass

ASSUME NamesAssumption ==
    /\ Zero \in Byte
    /\ Tree \in Seq(Seq(File)) \ {<<>>}
    /\ \A f \in File : \E d \in DOMAIN Tree : \E i \in DOMAIN Tree[d] :
          Tree[d][i] = f
    /\ Content \subseteq Seq(Byte)
    /\ StoreLimit \in Nat

\* A path names one entry of one directory.
ASSUME PathsAssumption ==
    \A d, e \in DOMAIN Tree : \A i \in DOMAIN Tree[d], j \in DOMAIN Tree[e] :
       Tree[d][i] = Tree[e][j] => d = e /\ i = j

ASSUME OptionsAssumption ==
    {OverwriteIndex, UseHints, RecheckHash, DeleteClean, DetectBogus, ReadErrors}
       \subseteq BOOLEAN

ASSUME BoundsAssumption == MaxEvents \in Nat /\ MaxClock \in Nat

(***************************************************************************)
(* Names, hashes and lines of the index.                                   *)
(***************************************************************************)
Bytes == Seq(Byte)

\* The hash of some bytes, and so the name of the object that holds them.
Hash(d) == [sha1 |-> d]
HashName == [sha1 : Bytes]

\* Index files: the finished one, and INDEX.tmp while it is being written.
IndexName == Host \X Date \X {"final", "tmp"}
Final(p, d) == <<p, d, "final">>
Tmp(p, d) == <<p, d, "tmp">>
Outfile(p, d) == IF OverwriteIndex THEN Final(p, d) ELSE Tmp(p, d)

\* An index has for each file the details "data" or "sha1" of its line, None
\* where the line lacks the detail, and ends in [end] once it is complete.
IndexFile == [data : [File -> {None} \cup Bytes],
              sha1 : [File -> {None} \cup HashName],
              end  : BOOLEAN]

\* Mutant: the old [end] is still in the file.
EmptyIndexEnded == [data |-> [f \in File |-> None],
                    sha1 |-> [f \in File |-> None],
                    end  |-> TRUE]

EmptyIndex == [data |-> [f \in File |-> None],
               sha1 |-> [f \in File |-> None],
               end  |-> FALSE]

\* Mutant: a line without a hash counts.
HashesOfAll(x) == {x.sha1[f] : f \in File}

HashesOf(x) == {x.sha1[f] : f \in File} \ {None}

\* st_mtime, st_ctime and st_size of a file, and a line of the hint file.
Stat == [stamp : Nat, size : Nat]
Hint == [hash : HashName, stamp : Nat, size : Nat]
Hints == [File -> {None} \cup Hint]
NoHints == [f \in File |-> None]

\* A descriptor follows its file: "tmp" and "obj" say which name it has, and
\* "gone" that it has none left.
WriteFd == [hash : HashName, at : {"tmp", "obj", "gone"}]

ASSUME NoneAssumption ==
    None \notin Bytes \cup HashName \cup Stat \cup Hint \cup WriteFd

VARIABLES
    src,        \* src[p][f]: a file's data, the second it was last changed,
                \* and whether it was changed before within that second
    clock,      \* the time, in seconds
    hintfile,   \* hintfile[p]: the lines of the hint file of p
    idx,        \* the index files on the medium, by name
    objs,       \* the objects of the repository, by hash
    tmps,       \* the files HASH.tmp next to them, by hash
    wfd,        \* wfd[p]: the file under repo/sha1 that p has open for writing
    events      \* edits, crashes, deletions and read errors so far

files == <<src, clock, hintfile>>
medium == <<idx, objs, tmps, wfd>>
mvars == <<src, clock, hintfile, idx, objs, tmps, wfd, events>>

SourceFile == [data : Bytes, stamp : Nat, again : BOOLEAN]

IsMap(m, S, T) == DOMAIN m \subseteq S /\ m \in [DOMAIN m -> T]
Put(m, k, v) == [x \in DOMAIN m \cup {k} |-> IF x = k THEN v ELSE m[x]]
Drop(m, k) == [x \in DOMAIN m \ {k} |-> m[x]]
EmptyMap == [x \in {} |-> None]

MediumTypeOK ==
    /\ src \in [Host -> [File -> SourceFile]]
    /\ clock \in Nat
    /\ hintfile \in [Host -> Hints]
    /\ IsMap(idx, IndexName, IndexFile)
    /\ IsMap(objs, HashName, Bytes)
    /\ IsMap(tmps, HashName, Bytes)
    /\ wfd \in [Host -> {None} \cup WriteFd]
    /\ events \in Nat

MediumInit ==
    /\ src \in [Host -> [File -> [data : Content, stamp : {0}, again : {FALSE}]]]
    /\ clock = 0
    /\ hintfile = [p \in Host |-> NoHints]
    /\ idx = EmptyMap
    /\ objs = EmptyMap
    /\ tmps = EmptyMap
    /\ wfd = [p \in Host |-> None]
    /\ events = 0

(***************************************************************************)
(* Filesystem calls.                                                       *)
(***************************************************************************)
\* write(2) of one block: a gap between the end of the file and the place
\* that is written reads as zeroes.
WriteAt(d, off, b) ==
    [i \in 1 .. (IF off < Len(d) THEN Len(d) ELSE off + 1) |->
        IF i = off + 1 THEN b ELSE IF i <= Len(d) THEN d[i] ELSE Zero]

\* Where the descriptors on the object h and its .tmp are once a name is
\* taken away from, or given to, the file they are on.
Moved(h, to) ==
    [p \in Host |-> IF wfd[p] # None /\ wfd[p].hash = h
                    THEN [wfd[p] EXCEPT !.at = to[@]]
                    ELSE wfd[p]]

\* open(HASH.tmp, O_WRONLY|O_CREAT|O_TRUNC)
OpenTrunc(p, h) ==
    /\ tmps' = Put(tmps, h, <<>>)
    /\ wfd' = [wfd EXCEPT ![p] = [hash |-> h, at |-> "tmp"]]

\* What a write through the descriptor of p leaves in the repository.
WriteBlock(p, off, b) ==
    LET h == wfd[p].hash IN
    /\ tmps' = IF wfd[p].at = "tmp" THEN [tmps EXCEPT ![h] = WriteAt(@, off, b)]
                                    ELSE tmps
    /\ objs' = IF wfd[p].at = "obj" THEN [objs EXCEPT ![h] = WriteAt(@, off, b)]
                                    ELSE objs

\* rename(HASH.tmp, HASH)
RenameTmp(h) ==
    /\ h \in DOMAIN tmps
    /\ objs' = Put(objs, h, tmps[h])
    /\ tmps' = Drop(tmps, h)
    /\ wfd' = Moved(h, [tmp |-> "obj", obj |-> "gone", gone |-> "gone"])

RemoveObj(h) ==
    /\ objs' = Drop(objs, h)
    /\ wfd' = Moved(h, [tmp |-> "tmp", obj |-> "gone", gone |-> "gone"])

RemoveTmp(h) ==
    /\ tmps' = Drop(tmps, h)
    /\ wfd' = Moved(h, [tmp |-> "gone", obj |-> "obj", gone |-> "gone"])

(***************************************************************************)
(* Predicates on what is stored.                                           *)
(***************************************************************************)
\* hashfile(HASH) gives HASH.
Intact(h) == Hash(objs[h]) = h

\* The indexes a restore accepts: under their final name, down to [end].
Published == {n \in DOMAIN idx : n[3] = "final" /\ idx[n].end}

\* What do_restore writes for a file, None where it stops with an error.
Restored(x, f) ==
    IF x.data[f] # None THEN x.data[f]
    ELSE IF x.sha1[f] \in DOMAIN objs THEN objs[x.sha1[f]]
    ELSE None

(***************************************************************************)
(* The world around the program.                                           *)
(***************************************************************************)
Event == events < MaxEvents /\ events' = events + 1

\* The user of p replaces the contents of a file.
Edit(p, f) ==
    /\ Event
    /\ \E d \in Content \ {src[p][f].data} :
          src' = [src EXCEPT ![p][f] =
                     [data |-> d, stamp |-> clock, again |-> @.stamp = clock]]
    /\ UNCHANGED <<clock, hintfile, idx, objs, tmps, wfd>>

Tick ==
    /\ clock < MaxClock
    /\ clock' = clock + 1
    /\ UNCHANGED <<src, hintfile, idx, objs, tmps, wfd, events>>

\* Old indexes are removed by hand ("hbackup does not deal with deleting old
\* index files itself", hbackup.1).
DeleteIndex(n) ==
    /\ Event
    /\ n \in Published
    /\ idx' = Drop(idx, n)
    /\ UNCHANGED <<src, clock, hintfile, objs, tmps, wfd>>
=============================================================================
