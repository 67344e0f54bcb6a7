------------------------------ MODULE Restore ------------------------------
(***************************************************************************)
(* nhbackup --restore: do_restore, one filesystem call at a time.  Each    *)
(* file is made under the name NAME~restore~, given its contents and times *)
(* there, and renamed.  A run may die between any two calls and be started *)
(* again over what it left.  The lines are those that Walk wrote; errors   *)
(* that no such line can cause ("unexpected relative name", "unknown file  *)
(* type", "does not have a known hash") are left out.                      *)
(***************************************************************************)
EXTENDS IndexLine, FiniteSets

VARIABLES
    out,    \* the files below the root of the restore, by path
    rs      \* the run

rvars == <<out, rs>>

\* A file; hard links have the same id.
OutNode == [kind : Kind, data : Bytes, mtime : {Now} \cup Nat, id : Nat]

\* pc says what the run does next: "read" a line, "make" the temporary file
\* of the line and "fill" it, set its "times", "rename" it, and at the end
\* "fix" the times of directories.  What is left of a run that is over is
\* that there was one: "done" if it came to its end.
RestoreRun ==
    [pc : {"idle", "read", "make", "fill", "times", "rename", "fix", "done"},
     pos : Nat,                         \* line being restored
     dir : Path,                        \* directory part of the last full name
     path : Path,                       \* fullname, below the root
     inodes : [DOMAIN rs.inodes -> Path],
     dirtimes : Seq([dir : Path, mtime : {Now} \cup Nat]),
     errors : BOOLEAN,
     left : SUBSET Path]                \* directories that existed already

RestoreIdle == [pc |-> "idle", pos |-> 1, dir |-> Root, path |-> Root,
                inodes |-> EmptyMap, dirtimes |-> <<>>, errors |-> FALSE,
                left |-> {}]

RestoreTypeOK ==
    /\ IsMap(out, Path, OutNode)
    /\ DOMAIN rs.inodes \subseteq Nat /\ rs \in RestoreRun

Restoring == rs.pc \notin {"idle", "done"}

Fail == rs' = RestoreIdle

----------------------------------------------------------------------------
(***************************************************************************)
(* Calls of the local filesystem.  Making or taking away a name changes    *)
(* the time of its directory.                                              *)
(***************************************************************************)
OutDir(p) == p = Root \/ (p \in DOMAIN out /\ out[p].kind = "dir")
NotEmpty(p) == \E q \in DOMAIN out : Below(p, q)

Touched(o, d) == IF d \in DOMAIN o THEN [o EXCEPT ![d].mtime = Now] ELSE o

\* link, symlink, mkdir, mknod and bind: EEXIST, ENOENT, ENOTDIR.
CanMake(p) == p \notin DOMAIN out /\ OutDir(Parent(p))
Make(p, node) == out' = Touched(Put(out, p, node), Parent(p))

FreshId == CHOOSE i \in 1 .. Cardinality(DOMAIN out) + 1 :
              \A p \in DOMAIN out : out[p].id # i

NewNode(kind, data) ==
    [kind |-> kind, data |-> data, mtime |-> Now, id |-> FreshId]

\* remove(): an empty directory goes, one that is not stays.
CanRemove(p) == p \in DOMAIN out /\ ~ NotEmpty(p)
Removed(p) == IF CanRemove(p) THEN Touched(Drop(out, p), Parent(p)) ELSE out

\* rename(): EISDIR, ENOTDIR, ENOTEMPTY.
CanRename(p, q) ==
    /\ p \in DOMAIN out
    /\ q \in DOMAIN out =>
          /\ (out[p].kind = "dir") = (out[q].kind = "dir")
          /\ ~ NotEmpty(q)

----------------------------------------------------------------------------
(***************************************************************************)
(* do_restore.  The operators take the index and the repository.           *)
(***************************************************************************)
StartRestore ==
    /\ rs.pc = "idle"
    /\ rs' = [RestoreIdle EXCEPT !.pc = "read"]
    /\ UNCHANGED out

Tmp == Tmpname(rs.path)

\* "If the name in the file has the form ./something then it belongs to the
\* same directory as the last file".
Resolve(name) == IF name.rel THEN rs.dir \o name.path ELSE name.path

\* Mutant: the temporary file of a dead run is not got out of the way.
NotCleared(p) == out

\* "Get the temporary file out of the way", whether that works or not.
Cleared(p) == Removed(Tmpname(p))

ReadLine(lines) ==
    /\ rs.pc = "read" /\ rs.pos \in DOMAIN lines
    /\ LET name == lines[rs.pos].name
           full == Resolve(name)
       IN /\ rs' = [rs EXCEPT !.pc = "make", !.path = full,
                              !.dir = IF name.rel THEN @ ELSE Parent(full)]
          /\ out' = Cleared(full)

\* BadIndexFile("unexpected end of file") without [end].
ReadEnd(lines, end) ==
    /\ rs.pc = "read" /\ rs.pos \notin DOMAIN lines
    /\ IF end THEN rs' = [rs EXCEPT !.pc = "fix"] ELSE Fail
    /\ UNCHANGED out

This(lines) == lines[rs.pos]
Makes(lines, kinds) == rs.pc = "make" /\ This(lines).kind \in kinds
Goto(pc) == rs' = [rs EXCEPT !.pc = pc]
NextLine == [rs EXCEPT !.pc = "read", !.pos = @ + 1]

\* Mutant: what the lines of an inode have been made into is forgotten.
KnownNever(line) == line.inode \in {}

Known(line) == line.inode \in DOMAIN rs.inodes

\* "Might be a link to a file we already unpacked".
MakeLink(lines) ==
    /\ rs.pc = "make" /\ Known(This(lines))
    /\ LET old == rs.inodes[This(lines).inode] IN
       IF old \in DOMAIN out /\ CanMake(Tmp)
       THEN Make(Tmp, out[old]) /\ Goto("rename")
       ELSE Fail /\ UNCHANGED out

\* open(tmpname, O_WRONLY|O_CREAT|O_TRUNC).  Only a directory can still have
\* the name, and cannot be opened.
MakeFile(lines) ==
    /\ Makes(lines, {"file"}) /\ ~ Known(This(lines))
    /\ IF CanMake(Tmp)
       THEN Make(Tmp, NewNode("file", <<>>)) /\ Goto("fill")
       ELSE Fail /\ UNCHANGED out

\* "If the directory already exists assume that's intentional".
LeaveDir(lines) ==
    /\ Makes(lines, {"dir"}) /\ rs.path \in DOMAIN out
    /\ out[rs.path].kind # "link"
    /\ rs' = [NextLine EXCEPT !.left = @ \cup {rs.path}]
    /\ UNCHANGED out

MakeOther(lines) ==
    /\ Makes(lines, {"dir", "link", "chr"})
    /\ This(lines).kind = "dir" /\ rs.path \in DOMAIN out =>
          out[rs.path].kind = "link"
    /\ LET l == This(lines)
           data == IF l.kind = "link" THEN l.data ELSE <<>>
       IN IF CanMake(Tmp)
          THEN Make(Tmp, NewNode(l.kind, data)) /\ Goto("times")
          ELSE Fail /\ UNCHANGED out

\* A socket that cannot be bound is an error, but not the end.
MakeSocket(lines) ==
    /\ Makes(lines, {"socket"})
    /\ IF CanMake(Tmp)
       THEN Make(Tmp, NewNode("socket", <<>>)) /\ Goto("times")
       ELSE rs' = [NextLine EXCEPT !.errors = TRUE] /\ UNCHANGED out

Contents(line) == IF line.data # None THEN line.data ELSE line.sha1

\* Mutant: a read that gives less than a full buffer is taken for the last.
AtEndEarly(line) == Len(out[Tmp].data) >= Len(Contents(line)) - 1

AtEnd(line) == Len(out[Tmp].data) >= Len(Contents(line))

\* The object of a hashed file, also of one that has become empty, is opened
\* before the first block is copied: without it the run is over.
NoObject(line, objs) ==
    line.data = None /\ line.sha1 \notin objs /\ out[Tmp].data = <<>>

\* The loop that copies, a block at a time; a small file is put whole, and
\* has but one block.
Fill(lines, objs) ==
    /\ rs.pc = "fill"
    /\ LET l == This(lines) IN
       IF NoObject(l, objs)
       THEN Fail /\ UNCHANGED out
       ELSE /\ ~ AtEnd(l)
            /\ out' = [out EXCEPT ![Tmp].data = Append(@, Contents(l)[Len(@) + 1])]
            /\ UNCHANGED rs

Filled(lines, objs) ==
    /\ rs.pc = "fill"
    /\ LET l == This(lines) IN
       /\ ~ NoObject(l, objs) /\ AtEnd(l)
       /\ rs' = [rs EXCEPT !.pc = "times",
                           !.inodes = IF l.inode = None THEN @
                                      ELSE Put(@, l.inode, rs.path)]
    /\ UNCHANGED out

\* lchown, chmod and utimes.  "Directory timestamps will be busted by
\* creating files in them so keep them around".
SetTimes(lines) ==
    /\ rs.pc = "times"
    /\ LET l == This(lines) IN
       IF l.kind = "dir"
       THEN /\ rs' = [rs EXCEPT !.pc = "rename",
                         !.dirtimes = Append(@, [dir |-> rs.path,
                                                 mtime |-> l.mtime])]
            /\ UNCHANGED out
       ELSE /\ Goto("rename")
            /\ out' = IF l.kind = "link" THEN out
                      ELSE [out EXCEPT ![Tmp].mtime = l.mtime]

\* Mutant: the file gets its name and keeps the temporary one.
LinkedIntoPlace == Put(out, rs.path, out[Tmp])

RenamedIntoPlace == Drop(Put(out, rs.path, out[Tmp]), Tmp)

RenameInto ==
    /\ rs.pc = "rename"
    /\ IF CanRename(Tmp, rs.path)
       THEN /\ out' = Touched(RenamedIntoPlace, Parent(rs.path))
            /\ rs' = NextLine
       ELSE Fail /\ UNCHANGED out

\* "Fix up directory timestamps now that all the contents have been created"
FixTimes ==
    /\ rs.pc = "fix" /\ rs.dirtimes # <<>>
    /\ LET d == Head(rs.dirtimes) IN out' = [out EXCEPT ![d.dir].mtime = d.mtime]
    /\ rs' = [rs EXCEPT !.dirtimes = Tail(@)]

RestoreDone ==
    /\ rs.pc = "fix" /\ rs.dirtimes = <<>>
    /\ Goto("done")
    /\ UNCHANGED out

RestoreStep(lines, end, objs) ==
    \/ ReadLine(lines) \/ ReadEnd(lines, end)
    \/ MakeLink(lines) \/ MakeFile(lines) \/ LeaveDir(lines)
    \/ MakeOther(lines) \/ MakeSocket(lines)
    \/ Fill(lines, objs) \/ Filled(lines, objs)
    \/ SetTimes(lines) \/ RenameInto \/ FixTimes \/ RestoreDone
============================================================================
