---------------------------- MODULE SftpServer ----------------------------
(***************************************************************************)
(* The other end of an SftpFilesystem, and the two pipes to it.  The       *)
(* server is not part of the program: this is what sftp.cc relies on.  It  *)
(* takes requests one at a time; the pipes are bounded; replies may come   *)
(* back in another order than the requests went out.  Other users of the   *)
(* medium create and remove names between two requests.                    *)
(***************************************************************************)
EXTENDS Integers, Sequences, FiniteSets, TLC, Functions, SequencesExt

CONSTANTS
    Path,          \* names on the medium
    Top,           \* the directory that is always there
    Under,         \* Under[p]: the directory p is in
    Byte, Content, \* data: bytes, and what files may hold at first
    Kind,          \* kinds of things that names can stand for
    PosixRename,   \* whether the server may have the posix-rename extension
    Faults,        \* requests the server may fail at its own initiative,
                   \* and "HANGUP" if the connection may be lost
    ReqCap, RepCap,\* requests and replies that fit in the pipes
    MaxChanges,    \* bound: names other users create or remove
    MaxFaults      \* bound: how often it does

ASSUME ServerAssumption ==
    /\ Under \in [Path -> Path \cup {Top}] /\ Top \notin Path
    /\ {"none"} \subseteq Kind /\ Kind \subseteq {"none", "file", "dir", "link"}
    /\ Content \subseteq Seq(Byte)
    /\ PosixRename \subseteq BOOLEAN
    /\ ReqCap \in Nat \ {0} /\ RepCap \in Nat \ {0}
    /\ MaxChanges \in Nat /\ MaxFaults \in Nat

VARIABLES
    up,       \* FALSE once the connection is lost
    req, rep, \* the pipes: requests, and replies, on their way
    tree,     \* tree[p]: what p is, and which data it has if a file
    data,     \* the data of each file ever seen: unlinking keeps it
    handles,  \* the handles the server has given out and not closed
    window,   \* history: what each name has been since the client last began
              \* to ask about it
    refused,  \* history: the names at which a STAT has failed since then
    changes, faults

svars == <<up, req, rep, tree, data, handles, window, refused, changes, faults>>

Put(f, x, v) == [y \in DOMAIN f \cup {x} |-> IF y = x THEN v ELSE f[y]]

Node == [kind : {"none", "file", "dir", "link"}, ino : Path \cup Nat]
Nothing == [kind |-> "none", ino |-> 0]

KindOf(p) == IF p = Top THEN "dir" ELSE tree[p].kind
Children(d) == {p \in Path : Under[p] = d /\ tree[p].kind # "none"}

\* Names are only below directories.
Consistent(t) == \A p \in Path :
    t[p].kind # "none" => Under[p] \in {Top} \cup {d \in Path : t[d].kind = "dir"}

ServerInit ==
    /\ up = TRUE /\ req = <<>> /\ rep = <<>>
    /\ tree \in {[p \in Path |-> [kind |-> k[p],
                                  ino |-> IF k[p] = "file" THEN p ELSE 0]] :
                    k \in [Path -> Kind]}
    /\ Consistent(tree)
    /\ data \in [Path -> Content]
    /\ handles = <<>>
    /\ window = [p \in Path |-> {tree[p].kind}] /\ refused = {}
    /\ changes = 0 /\ faults = 0

(***************************************************************************)
(* Serving a request: its effect and its reply happen together.            *)
(***************************************************************************)
Reply(type, val) ==
    /\ req' = Tail(req)
    /\ rep' = Append(rep, [id |-> Head(req).id, ser |-> Head(req).ser,
                           type |-> type, val |-> val])

Status(s) == Reply("STATUS", s)

SetTree(t) ==
    /\ tree' = t
    /\ window' = [p \in Path |-> window[p] \cup {t[p].kind}]

KeepTree == UNCHANGED <<tree, window>>

Refuse(s) == Status(s) /\ KeepTree /\ UNCHANGED <<data, handles>>

Missing(p) == IF KindOf(p) = "none" THEN "NO_SUCH_FILE" ELSE "FAILURE"

Stat(p) ==
    \/ KindOf(p) # "none" /\ Reply("ATTRS", "") /\ KeepTree /\ UNCHANGED <<data, handles>>
    \/ KindOf(p) = "none" /\ Refuse("NO_SUCH_FILE")

\* The new handle is named after the request.  A directory can be opened for
\* reading on some servers, and a symbolic link is followed.
NewHandle(ino, left) ==
    /\ Reply("HANDLE", Head(req).ser)
    /\ handles' = Put(handles, Head(req).ser, [ino |-> ino, left |-> left])

Open(p, mode) ==
    \/ /\ mode = "ReadOnly" /\ KindOf(p) # "none"
       /\ NewHandle(tree[p].ino, {}) /\ KeepTree /\ UNCHANGED data
    \/ mode = "ReadOnly" /\ KindOf(p) # "file"
         /\ Refuse(IF KindOf(p) = "link" THEN "NO_SUCH_FILE" ELSE Missing(p))
    \/ /\ mode = "Overwrite" /\ KindOf(p) = "file"
       /\ NewHandle(tree[p].ino, {}) /\ KeepTree
       /\ data' = [data EXCEPT ![tree[p].ino] = <<>>]
    \/ /\ mode # "ReadOnly" /\ KindOf(p) = "none" /\ KindOf(Under[p]) = "dir"
       /\ LET ino == Head(req).ser IN
            /\ NewHandle(ino, {})
            /\ data' = Put(data, ino, <<>>)
            /\ SetTree([tree EXCEPT ![p] = [kind |-> "file", ino |-> ino]])
    \/ mode # "ReadOnly" /\ KindOf(p) = "none" /\ KindOf(Under[p]) # "dir"
         /\ Refuse("NO_SUCH_FILE")
    \/ mode # "ReadOnly" /\ KindOf(p) # "none"
         /\ (mode = "Overwrite" => KindOf(p) # "file") /\ Refuse("FAILURE")

OpenDir(p) ==
    \/ KindOf(p) = "dir" /\ NewHandle(0, Children(p)) /\ KeepTree /\ UNCHANGED data
    \/ KindOf(p) # "dir" /\ Refuse(Missing(p))

\* Names come in as many batches as the server likes.
ReadDir(h) ==
    \/ \E s \in SUBSET handles[h].left \ {{}} :
         /\ Reply("NAME", s) /\ KeepTree /\ UNCHANGED data
         /\ handles' = [handles EXCEPT ![h].left = @ \ s]
    \/ handles[h].left = {} /\ Refuse("EOF")

ReadLink(p) ==
    \/ KindOf(p) = "link" /\ Reply("NAME", {}) /\ KeepTree /\ UNCHANGED <<data, handles>>
    \/ KindOf(p) # "link" /\ Refuse(Missing(p))

MkDir(p) ==
    \/ /\ KindOf(p) = "none" /\ KindOf(Under[p]) = "dir" /\ Status("OK")
       /\ SetTree([tree EXCEPT ![p] = [kind |-> "dir", ino |-> 0]])
       /\ UNCHANGED <<data, handles>>
    \/ KindOf(p) # "none" /\ Refuse("FAILURE")
    \/ KindOf(p) = "none" /\ KindOf(Under[p]) # "dir" /\ Refuse("NO_SUCH_FILE")

\* REMOVE is for anything but a directory, RMDIR for an empty directory.
Unlink(p, kinds) ==
    \/ /\ KindOf(p) \in kinds \ {"none"} /\ Children(p) = {} /\ Status("OK")
       /\ SetTree([tree EXCEPT ![p] = Nothing]) /\ UNCHANGED <<data, handles>>
    \/ (KindOf(p) \notin kinds \ {"none"} \/ Children(p) # {}) /\ Refuse(Missing(p))

\* RENAME does not replace a name, the extension does.
Rename(p, q, replace) ==
    LET ok == /\ KindOf(p) \in {"file", "link"} /\ KindOf(Under[q]) = "dir"
              /\ KindOf(q) = "none" \/ (replace /\ KindOf(q) # "dir")
    IN \/ /\ ok /\ Status("OK") /\ UNCHANGED <<data, handles>>
          /\ SetTree([tree EXCEPT ![p] = Nothing, ![q] = tree[p]])
       \/ ~ok /\ Refuse(Missing(p))

Extended(p, q) ==
    \/ TRUE \in PosixRename /\ Rename(p, q, TRUE)
    \/ FALSE \in PosixRename /\ Refuse("OP_UNSUPPORTED")

\* A READ is answered with all that was asked for, or what there is; only a
\* file can be read.
Read(h, offset, space) ==
    IF handles[h].ino = 0 THEN Refuse("FAILURE") ELSE
    LET d == data[handles[h].ino] IN
    \/ /\ offset < Len(d) /\ KeepTree /\ UNCHANGED <<data, handles>>
       /\ Reply("DATA", SubSeq(d, offset + 1,
                               IF offset + space < Len(d) THEN offset + space ELSE Len(d)))
    \/ offset >= Len(d) /\ Refuse("EOF")

Write(h, offset, b) ==
    LET ino == handles[h].ino IN
    /\ data' = [data EXCEPT ![ino] =
                  [i \in 1..(IF offset + Len(b) > Len(@) THEN offset + Len(b) ELSE Len(@)) |->
                     IF i \in offset + 1 .. offset + Len(b) THEN b[i - offset] ELSE @[i]]]
    /\ Status("OK") /\ KeepTree /\ UNCHANGED handles

Close(h) ==
    /\ handles' = RestrictDomain(handles, LAMBDA x : x # h)
    /\ Status("OK") /\ KeepTree /\ UNCHANGED data

Serve ==
    /\ up /\ req # <<>> /\ Len(rep) < RepCap
    /\ LET r == Head(req) IN
         \/ r.op = "STAT" /\ Stat(r.arg)
         \/ r.op = "OPEN" /\ Open(r.arg[1], r.arg[2])
         \/ r.op = "OPENDIR" /\ OpenDir(r.arg)
         \/ r.op = "READDIR" /\ ReadDir(r.arg)
         \/ r.op = "READLINK" /\ ReadLink(r.arg)
         \/ r.op = "MKDIR" /\ MkDir(r.arg)
         \/ r.op = "REMOVE" /\ Unlink(r.arg, Kind \ {"dir"})
         \/ r.op = "RMDIR" /\ Unlink(r.arg, {"dir"})
         \/ r.op = "RENAME" /\ Rename(r.arg[1], r.arg[2], FALSE)
         \/ r.op = "POSIX_RENAME" /\ Extended(r.arg[1], r.arg[2])
         \/ r.op = "READ" /\ Read(r.arg[1], r.arg[2], r.arg[3])
         \/ r.op = "WRITE" /\ Write(r.arg[1], r.arg[2], r.arg[3])
         \/ r.op = "CLOSE" /\ Close(r.arg)
    /\ UNCHANGED <<up, refused, changes, faults>>

\* A request the server cannot serve: no memory, no space, no permission.
Fail ==
    /\ up /\ req # <<>> /\ Len(rep) < RepCap /\ faults < MaxFaults
    /\ Head(req).op \in Faults
    /\ Refuse("FAILURE")
    /\ refused' = IF Head(req).op = "STAT" THEN refused \cup {Head(req).arg} ELSE refused
    /\ faults' = faults + 1
    /\ UNCHANGED <<up, changes>>

\* The server or the network goes away; what it has sent is still readable.
HangUp ==
    /\ up /\ "HANGUP" \in Faults /\ faults < MaxFaults
    /\ up' = FALSE
    /\ faults' = faults + 1
    /\ UNCHANGED <<req, rep, tree, data, handles, window, refused, changes>>

\* Another user makes p something else; files they make have the data data[p].
Change(p) ==
    /\ changes < MaxChanges
    /\ \E k \in Kind \ {tree[p].kind} :
         LET t == [tree EXCEPT ![p] = [kind |-> k, ino |-> IF k = "file" THEN p ELSE 0]]
         IN Consistent(t) /\ SetTree(t)
    /\ changes' = changes + 1
    /\ UNCHANGED <<up, req, rep, data, handles, refused, faults>>
=============================================================================
