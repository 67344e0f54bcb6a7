-------------------------------- MODULE Walk --------------------------------
(***************************************************************************)
(* backup_dir as a walk over a tree that changes meanwhile: which lines it *)
(* writes and in which order.  Directories, links, devices, sockets and    *)
(* hard links, which the module Backup leaves out, are here; hashing and   *)
(* copying, which are there, are one step.                                 *)
(*                                                                         *)
(* A directory is listed, each of its names statted, the names that stay   *)
(* are sorted and written, and only then come its subdirectories.          *)
(***************************************************************************)
EXTENDS IndexLine, FiniteSets, SequencesExt

CONSTANTS
    Trees,          \* trees to begin with
    Places,         \* paths at which a change can make something
    CrossFs,        \* FALSE for --no-cross-fs
    MaxEvents       \* bound: changes, deaths and losses

VARIABLES
    tree,       \* the files below the root, by path
    walk,       \* the run of backup
    lines,      \* the lines of the index
    end,        \* the index has its [end]
    objs,       \* contents that the repository has an object of
    stable,     \* history: paths at which nothing has changed since the start
    events      \* changes, deaths and losses so far

wvars == <<tree, walk, lines, end, objs, stable>>

\* A file of the tree.  Hard links are paths with one ino, which is the
\* device and the inode number; they have all else in common, too.
Node == [kind : Kind \cup Unknown, data : Bytes, ino : Nat \X Nat,
         mtime : {Now} \cup Nat]

Stat == [kind : Kind, size : Nat, nlink : Nat, ino : Nat \X Nat,
         mtime : {Now} \cup Nat]

Run == [pc : {"list", "lstat", "line", "done", "dead"},
        dirs : Seq(Path),       \* the directory and those still to enter
        names : SUBSET Name,    \* names that contents() gave
        s : [DOMAIN walk.s -> Stat],
        ci : Seq(Name),         \* names to write
        first : BOOLEAN,
        subdirs : Seq(Path)]    \* backup_dir's variable "dirs"

WalkTypeOK ==
    /\ IsMap(tree, Path, Node)
    /\ DOMAIN walk.s \subseteq Name /\ walk \in Run
    /\ lines \in Seq(Line)
    /\ end \in BOOLEAN
    /\ objs \subseteq Bytes
    /\ stable \subseteq Path
    /\ events \in Nat

Entered(dirs) ==
    [pc |-> IF dirs = <<>> THEN "done" ELSE "list", dirs |-> dirs,
     names |-> {}, s |-> EmptyMap, ci |-> <<>>, first |-> TRUE,
     subdirs |-> <<>>]

WalkInit ==
    /\ tree \in Trees
    /\ walk = Entered(<<Root>>)
    /\ lines = <<>>
    /\ end = FALSE
    /\ objs = {}
    /\ stable = DOMAIN tree
    /\ events = 0

Event == events < MaxEvents /\ events' = events + 1

----------------------------------------------------------------------------
(***************************************************************************)
(* backup_dir.                                                             *)
(***************************************************************************)
Dir == Head(walk.dirs)
Full(n) == Append(Dir, n)
Children(d) == {p \in DOMAIN tree : p # Root /\ Parent(p) = d}
IsDir(p) == p = Root \/ (p \in DOMAIN tree /\ tree[p].kind = "dir")
Is(p, kind) == p \in DOMAIN tree /\ tree[p].kind = kind
Links(p) == {q \in DOMAIN tree : tree[q].ino = tree[p].ino}

StatOf(p) == [kind |-> tree[p].kind, size |-> Len(tree[p].data),
              nlink |-> Cardinality(Links(p)), ino |-> tree[p].ino,
              mtime |-> tree[p].mtime]

\* An exception reaches main, fatal is called or the process is killed.  The
\* index stays as it was when its buffer was last written.
Die ==
    /\ walk' = [walk EXCEPT !.pc = "dead"]
    /\ \E k \in 0 .. Len(lines) : lines' = SubSeq(lines, 1, k)
    /\ UNCHANGED <<tree, end, objs, stable>>

\* hostfs->contents(fulldir, c)
Contents ==
    /\ walk.pc = "list" /\ IsDir(Dir)
    /\ walk' = [walk EXCEPT !.pc = "lstat",
                            !.names = {Base(p) : p \in Children(Dir)}]
    /\ UNCHANGED <<tree, lines, end, objs, stable, events>>

ContentsFails ==
    /\ walk.pc = "list" /\ ~ IsDir(Dir)
    /\ Die
    /\ UNCHANGED events

\* Mutant: every file type is taken.
KeptAny(p) == p \in DOMAIN tree

\* ENOENT and file types it does not know are only warned about.
Kept(p) == p \in DOMAIN tree /\ tree[p].kind \notin Unknown

\* ENOTDIR: the directory, or one that it is in, is something else by now.
NoDirectory ==
    \E p \in DOMAIN tree :
        (p = Dir \/ Below(p, Dir)) /\ tree[p].kind \notin {"dir", "link"}

Lstat(n) ==
    /\ walk.pc = "lstat" /\ n \in walk.names /\ ~ NoDirectory
    /\ walk' = [walk EXCEPT
                   !.names = @ \ {n},
                   !.s = IF Kept(Full(n)) THEN Put(@, n, StatOf(Full(n))) ELSE @]
    /\ UNCHANGED <<tree, lines, end, objs, stable, events>>

LstatFails ==
    /\ walk.pc = "lstat" /\ walk.names # {} /\ NoDirectory
    /\ Die
    /\ UNCHANGED events

\* Mutant: the names stay in the order of the directory.
AnyOrder(S) == {SetToSortSeq(S, LAMBDA m, n : m > n)}

\* What std::sort makes of the names in S.
Sorted(S) ==
    {s \in [1 .. Cardinality(S) -> S] : \A i, j \in DOMAIN s : i < j => s[i] < s[j]}

Sort ==
    /\ walk.pc = "lstat" /\ walk.names = {}
    /\ \E ci \in Sorted(DOMAIN walk.s) : walk' = [walk EXCEPT !.pc = "line", !.ci = ci]
    /\ UNCHANGED <<tree, lines, end, objs, stable, events>>

Writing == walk.pc = "line" /\ walk.ci # <<>>
This == Full(Head(walk.ci))
Sb == walk.s[Head(walk.ci)]

\* Mutant: relative names from the first file on.
RelnameAlways ==
    IF Dir = Root THEN [rel |-> FALSE, path |-> This]
                  ELSE [rel |-> TRUE, path |-> <<Base(This)>>]

\* "At the start of a directory ... always use the full name", elsewhere the
\* relative one, except in the root.
Relname ==
    IF walk.first \/ Dir = Root
    THEN [rel |-> FALSE, path |-> This]
    ELSE [rel |-> TRUE, path |-> <<Base(This)>>]

\* Mutant: the last two links of a file do not count.
InodeOfMany == IF Sb.kind = "file" /\ Sb.nlink > 2 THEN Sb.ino[2] ELSE None

\* "If number of links is nontrivial record the inode number".
Inode == IF Sb.kind = "file" /\ Sb.nlink > 1 THEN Sb.ino[2] ELSE None

NewLine(data, sha1) ==
    [name |-> Relname, kind |-> Sb.kind, data |-> data, sha1 |-> sha1,
     inode |-> Inode, mtime |-> Sb.mtime]

\* The line is written and the walk goes on to the next name.
Write(data, sha1, subdirs) ==
    /\ lines' = Append(lines, NewLine(data, sha1))
    /\ walk' = [walk EXCEPT !.ci = Tail(@), !.first = FALSE,
                            !.subdirs = @ \o subdirs]
    /\ UNCHANGED <<tree, end, stable, events>>

Small == Sb.size <= StoreLimit

\* The first st_size bytes of a small file, the hash of a large one.
WriteFile ==
    /\ Writing /\ Sb.kind = "file" /\ Is(This, "file")
    /\ LET d == tree[This].data IN
       IF Small
       THEN /\ Len(d) >= Sb.size
            /\ Write(SubSeq(d, 1, Sb.size), None, <<>>)
            /\ UNCHANGED objs
       ELSE /\ Write(None, d, <<>>)
            /\ objs' = objs \cup {d}

\* ismount() looks at the devices of the directory and of its parent.
Device(p) == IF p = Root THEN 0 ELSE tree[p].ino[1]
IsMount(p) == IsDir(p) /\ Device(p) # Device(Parent(p))
Enter(p) == CrossFs \/ ~ IsMount(p)

\* stat() follows a link, and the links of the model lead nowhere.
StatFails(p) == p \notin DOMAIN tree \/ Is(p, "link")

WriteDir ==
    /\ Writing /\ Sb.kind = "dir"
    /\ CrossFs \/ ~ StatFails(This)
    /\ Write(None, None, IF Enter(This) THEN <<This>> ELSE <<>>)
    /\ UNCHANGED objs

WriteLink ==
    /\ Writing /\ Sb.kind = "link" /\ Is(This, "link")
    /\ Write(tree[This].data, None, <<>>)
    /\ UNCHANGED objs

\* The rdev of a device is in its stat data, a socket has nothing more.
WriteSpecial ==
    /\ Writing /\ Sb.kind \in {"chr", "socket"}
    /\ Write(None, None, <<>>)
    /\ UNCHANGED objs

\* open, readlink or the stat in ismount fails, or a small file has shrunk.
WriteFails ==
    /\ Writing
    /\ \/ Sb.kind = "file" /\ ~ Is(This, "file")
       \/ /\ Sb.kind = "file" /\ Is(This, "file") /\ Small
          /\ Len(tree[This].data) < Sb.size
       \/ Sb.kind = "link" /\ ~ Is(This, "link")
       \/ Sb.kind = "dir" /\ ~ CrossFs /\ StatFails(This)
    /\ Die
    /\ UNCHANGED events

\* The subdirectories, each with all that is below it, and then the others.
Waiting == walk.subdirs \o Tail(walk.dirs)

\* The end of a directory and, after the last one, of the index.
DirDone ==
    /\ walk.pc = "line" /\ walk.ci = <<>>
    /\ walk' = Entered(Waiting)
    /\ end' = (Waiting = <<>>)
    /\ UNCHANGED <<tree, lines, objs, stable, events>>

WalkStep ==
    \/ Contents \/ ContentsFails \/ (\E n \in Name : Lstat(n)) \/ LstatFails \/ Sort
    \/ WriteFile \/ WriteDir \/ WriteLink \/ WriteSpecial \/ WriteFails
    \/ DirDone

Walking == walk.pc \notin {"done", "dead"}

WalkDies == Walking /\ Event /\ Die

----------------------------------------------------------------------------
(***************************************************************************)
(* Users of the tree.                                                      *)
(***************************************************************************)
\* The tree is t from now on, but for the times of the directories in D.
Becomes(t, D) ==
    /\ Event /\ Walking
    /\ tree' = [p \in DOMAIN t |-> IF p \in D THEN [t[p] EXCEPT !.mtime = Now]
                                              ELSE t[p]]
    /\ stable' = {p \in stable : p \in DOMAIN tree' /\ tree'[p] = tree[p]}
    /\ UNCHANGED <<walk, lines, end, objs>>

\* Any inode number that is free may be used again.
FreeInode(i) == \A p \in DOMAIN tree : tree[p].ino # i
Room(p) == p \notin DOMAIN tree /\ IsDir(Parent(p))

Create(p, kind) ==
    /\ Room(p)
    /\ \E n \in 1 .. Cardinality(DOMAIN tree) + 1 :
          LET i == <<Device(Parent(p)), n>> IN
          /\ FreeInode(i)
          /\ Becomes(Put(tree, p, [kind |-> kind, data |-> <<>>, ino |-> i,
                                   mtime |-> Now]), {Parent(p)})

\* The contents of a file are cut or made longer, for all its links.
Edit(p) ==
    /\ Is(p, "file")
    /\ \E d \in {<<>>, Append(tree[p].data, CHOOSE b \in Byte : TRUE)} :
          Becomes([q \in DOMAIN tree |->
                      IF q \in Links(p)
                      THEN [tree[q] EXCEPT !.data = d, !.mtime = Now]
                      ELSE tree[q]], {})

Unlink(p) ==
    /\ p \in DOMAIN tree /\ Children(p) = {} /\ Device(p) = Device(Parent(p))
    /\ Becomes(Drop(tree, p), {Parent(p)})

AddLink(p, q) ==
    /\ Is(p, "file") /\ Room(q) /\ Device(p) = Device(Parent(q))
    /\ Becomes(Put(tree, q, tree[p]), {Parent(q)})

\* A rename to a free name, of a directory with all that is below it.
Rename(p, q) ==
    /\ p \in DOMAIN tree /\ Room(q) /\ ~ Below(p, q)
    /\ Device(p) = Device(Parent(p)) /\ Device(Parent(p)) = Device(Parent(q))
    /\ LET Stays == {x \in DOMAIN tree : x # p /\ ~ Below(p, x)}
           Goes == DOMAIN tree \ Stays
           To(x) == q \o SubSeq(x, Len(p) + 1, Len(x))
       IN Becomes([y \in Stays \cup {To(x) : x \in Goes} |->
                      IF y \in Stays THEN tree[y]
                      ELSE tree[CHOOSE x \in Goes : To(x) = y]],
                  {Parent(p), Parent(q)})

Change ==
    \/ \E p \in Places, kind \in {"file", "dir"} : Create(p, kind)
    \/ \E p \in DOMAIN tree : Edit(p) \/ Unlink(p)
    \/ \E p \in DOMAIN tree, q \in Places : AddLink(p, q) \/ Rename(p, q)
=============================================================================
