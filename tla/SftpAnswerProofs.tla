-------------------------- MODULE SftpAnswerProofs --------------------------
(***************************************************************************)
(* What Sftp answers is true of the names on the server at some moment     *)
(* since it was asked, calls that change names do what they report, and no *)
(* handle is left behind: on top of what SftpProofs shows of requests,     *)
(* replies and files.                                                      *)
(***************************************************************************)
EXTENDS SftpProofs, FiniteSetTheorems

----------------------------------------------------------------------------
(***************************************************************************)
(* What answers say.  An answer is true of the names as they were at some  *)
(* moment that window has kept.                                            *)
(***************************************************************************)
Told == Received \cup Taken

Was(p, k) == k \in window[p]
WasNot(p, k) == \E j \in window[p] : j # k

StatTrue(p, v) == IF v THEN WasNot(p, "none") ELSE Was(p, "none") \/ p \in refused

\* What a reply to a request with this op and argument tells.
Truth(op, arg, a) ==
    /\ op = "STAT" /\ arg \in Path => StatTrue(arg, a.type = "ATTRS")
    /\ op = "MKDIR" /\ arg \in Path /\ a.val = "OK" => Was(arg, "dir")
    /\ op \in {"REMOVE", "RMDIR"} /\ arg \in Path /\ a.val = "OK" =>
          Was(arg, "none") /\ WasNot(arg, "none")
    /\ op \in {"RENAME", "POSIX_RENAME"} /\ arg[1] \in Path /\ arg[2] \in Path \ {arg[1]}
          /\ a.val = "OK" =>
          Was(arg[1], "none") /\ \E k \in window[arg[1]] \cap window[arg[2]] : k # "none"
    /\ op = "OPEN" /\ arg[1] \in Path /\ arg[2] = "ReadOnly" =>
          /\ Says(a, "NO_SUCH_FILE") => Was(arg[1], "none") \/ Was(arg[1], "link")
          /\ "OPEN" \notin Faults /\ ~ Says(a, "NO_SUCH_FILE") => WasNot(arg[1], "none")
          /\ "OPEN" \notin Faults /\ a.type # "HANDLE" => WasNot(arg[1], "file")
    /\ op = "OPENDIR" /\ arg \in Path =>
          /\ a.type = "HANDLE" => Was(arg, "dir")
          /\ "OPENDIR" \notin Faults /\ a.type # "HANDLE" => WasNot(arg, "dir")
    /\ op = "READLINK" /\ arg \in Path =>
          /\ a.type # "HANDLE"
          /\ a.type = "NAME" => Was(arg, "link")
          /\ "READLINK" \notin Faults /\ a.type # "NAME" => WasNot(arg, "link")

\* s is a request with this op and argument, and its answer, if there is one,
\* is true.
Stands(s, op, arg) ==
    /\ s \in 1 .. serial
    /\ \A r \in Posted : r.ser = s => r.op = op /\ r.arg = arg
    /\ \A a \in Told : a.ser = s => Truth(op, arg, a)

WindowInv ==
    /\ DOMAIN window = Path
    /\ \A p \in Path : tree[p].kind \in window[p]

----------------------------------------------------------------------------
(***************************************************************************)
(* exists() and its cache.                                                 *)
(***************************************************************************)
\* Nobody has begun anew to ask about p since the STAT was sent.
Lately(p) == p \in asked \/ (call.op = "exists" /\ p = call.path)

ExistsInv ==
    /\ \A i \in DOMAIN inflight :
          Stands(inflight[i].ticket.ser, "STAT", inflight[i].path) /\ Lately(inflight[i].path)
    /\ \A p \in DOMAIN existence : StatTrue(p, existence[p]) /\ Lately(p)
    /\ call.op = "exists" =>
          \/ wait = <<>> /\ got = <<>>
          \/ inflight # <<>> /\ OneRequest(inflight[1].ticket.ser)
    /\ result.op = "exists" => result.path \in Path /\ StatTrue(result.path, result.val)

----------------------------------------------------------------------------
(***************************************************************************)
(* Calls that change names.                                                *)
(***************************************************************************)
NameCalls == {"mkdir", "rename", "remove", "rmdir"}

NameOps ==
    IF call.op = "mkdir" THEN {"MKDIR"}
    ELSE IF call.op = "remove" THEN {"REMOVE"}
    ELSE IF call.op = "rmdir" THEN {"RMDIR"} ELSE {"RENAME", "POSIX_RENAME"}
NameArg == IF call.op = "rename" THEN <<call.path, call.more>> ELSE call.path

TreeOp(r) ==
    \/ r.op \in {"MKDIR", "REMOVE", "RMDIR", "RENAME", "POSIX_RENAME"}
    \/ r.op = "OPEN" /\ r.arg[2] # "ReadOnly"

\* The only request on its way that may change names is s.
OnlyOwn(s) == \A r \in Posted : TreeOp(r) => r.ser = s

Steady(p) == window[p] = {tree[p].kind}

\* A request to change p stands alone, and p is as it was when it was sent.
Trying(p, ops, arg) == \E s \in 1 .. serial, op \in ops :
    /\ OneRequest(s) /\ OnlyOwn(s) /\ Stands(s, op, arg)
    /\ changes = 0 /\ p \notin asked =>
          /\ (\E r \in Posted : r.ser = s) => Steady(p)
          /\ \A a \in Told : a.ser = s /\ a.val # "OK" => Steady(p)

NameInv ==
    /\ call.op \in NameCalls => Trying(call.path, NameOps, NameArg)
    /\ call.op = "rename" => call.path # call.more
    /\ call.op = "open" => \E s \in 1 .. serial : OneRequest(s) /\ OnlyOwn(s)
    /\ call.op \notin NameCalls \cup {"open"} => \A r \in Posted : ~ TreeOp(r)
    /\ call.op \notin {"none", "return"} => result.op = "none"
    /\ result.op \in NameCalls =>
          /\ result.path \in Path /\ (result.op = "rename" => result.more \in Path)
          /\ result.status = "OK" =>
                /\ result.op = "mkdir" => Was(result.path, "dir")
                /\ result.op # "mkdir" =>
                      Was(result.path, "none") /\ WasNot(result.path, "none")
                /\ result.op = "rename" =>
                      \E k \in window[result.path] \cap window[result.more] : k # "none"
          /\ result.status # "OK" /\ changes = 0 /\ result.path \notin asked =>
                Steady(result.path)

----------------------------------------------------------------------------
(***************************************************************************)
(* type().                                                                 *)
(***************************************************************************)
\* The requests from s + 1 to s + 3 are those whose replies are awaited.
Three(s) ==
    /\ \A i \in DOMAIN got : got[i].reply.ser = s + i
    /\ \A i \in DOMAIN wait : wait[i].ser = s + Len(got) + i

\* While names stay, OPEN and OPENDIR do not contradict each other.
Unmoved(s, p) ==
    changes = 0 => \A a \in Told :
       /\ a.ser = s + 1 /\ Says(a, "NO_SUCH_FILE") => tree[p].kind # "dir"
       /\ a.ser = s + 2 /\ a.type = "HANDLE" => tree[p].kind = "dir"

Deducible == {"OPEN", "OPENDIR", "READLINK"} \cap Faults = {}

TypeInv ==
    /\ call.op = "type" => \E s \in 0 .. serial :
          /\ Three(s) /\ Unmoved(s, call.path)
          /\ Stands(s + 1, "OPEN", <<call.path, "ReadOnly">>)
          /\ Stands(s + 2, "OPENDIR", call.path)
          /\ Stands(s + 3, "READLINK", call.path)
    /\ result.op = "type" =>
          /\ result.path \in Path
          /\ result.status = "OK" /\ Deducible =>
                \A k \in Kind : result.val = k \/ WasNot(result.path, k)
          /\ result.status = "NO_SUCH_FILE" => Was(result.path, "none") \/ Was(result.path, "link")

----------------------------------------------------------------------------
(***************************************************************************)
(* contents().                                                             *)
(***************************************************************************)
\* The names of S are a listing of d.
Lists(d, S) == \A p \in Path : Under[p] = d =>
    /\ Was(p, "none") \/ p \in S
    /\ p \in S => WasNot(p, "none")

Listed(s, d, m) ==
    /\ OneRequest(s)
    /\ \A r \in Posted : r.op = "READDIR" => r.ser = s
    /\ m.handle = 0 =>
          /\ m.names = {}
          /\ \A r \in Posted : r.ser = s => r.op = "OPENDIR" /\ r.arg = d
          /\ \A a \in Told : a.ser = s =>
                /\ a.type \in {"HANDLE", "STATUS"} /\ ~ Says(a, "EOF")
                /\ a.type = "HANDLE" => s \in DOMAIN handles /\ Lists(d, handles[s].left)
    /\ m.handle # 0 =>
          /\ m.handle \in DOMAIN handles /\ m.handle < s
          /\ \A r \in Posted : r.op = "CLOSE" => r.arg # m.handle
          /\ \A r \in Posted : r.ser = s =>
                /\ r.op = "READDIR" /\ r.arg = m.handle
                /\ Lists(d, m.names \cup handles[m.handle].left)
          /\ \A a \in Told : a.ser = s =>
                /\ a.type \in {"NAME", "STATUS"}
                /\ a.type = "NAME" => Lists(d, m.names \cup a.val \cup handles[m.handle].left)
                /\ Says(a, "EOF") => Lists(d, m.names)

ListInv ==
    /\ call.op = "contents" => \E s \in 1 .. serial : Listed(s, call.path, call.more)
    /\ call.op # "contents" => \A r \in Posted : r.op # "READDIR"
    /\ result.op = "contents" /\ result.status = "OK" => Lists(result.path, result.val)

----------------------------------------------------------------------------
(***************************************************************************)
(* Handles.                                                                *)
(***************************************************************************)
\* The call waits for a handle, or has just got it.
Seeking ==
    \/ call.op \in {"open", "type"}
    \/ call.op = "contents" /\ call.more.handle = 0

Due(a) == Ticket(a) \in ToSet(wait)

\* Somebody will close h, or has asked to.
Held(h) ==
    \/ file # NoFile /\ h = file.handle
    \/ \E r \in Posted : r.op = "CLOSE" /\ r.arg = h
    \/ call.op = "contents" /\ h # 0 /\ h = call.more.handle
    \/ Seeking /\ \E a \in Received : a.ser = h /\ a.type = "HANDLE" /\ Due(a)
    \/ Seeking /\ \E a \in Taken : a.ser = h /\ a.type = "HANDLE"

HeldInv ==
    /\ \A r \in Posted : r.op \in {"OPEN", "OPENDIR"} => Seeking /\ Due(r)
    /\ Seeking => \A i \in Asking : send[i].op # "CLOSE"
    /\ Seeking => \A i \in DOMAIN wait : wait[i].id \notin ignored
    /\ \A i \in ignored : i < id
    /\ changes = 0 => \A h \in DOMAIN handles : Held(h)

AnswerInv == FewRequests => WindowInv /\ ExistsInv /\ NameInv /\ TypeInv /\ ListInv
KeepInv == FewRequests => HeldInv

----------------------------------------------------------------------------
(***************************************************************************)
(* The server tells the truth.                                             *)
(***************************************************************************)
Recorded == refused \subseteq refused'
Grows == (\A p \in Path : window[p] \subseteq window'[p]) /\ Recorded

\* What is true of the names when r is served with this reply.
Tells(r, type, val) ==
    /\ Grows /\ WindowInv'
    /\ \A a : a.type = type /\ a.val = val => Truth(r.op, r.arg, a)'
    /\ ~ TreeOp(r) => UNCHANGED <<tree, window>>
    /\ \/ UNCHANGED <<tree, window>>
       \/ r.op = "OPEN" \/ val = "OK"
    /\ r.op = "OPEN" /\ r.arg[2] = "ReadOnly" /\ type = "STATUS" /\ val = "NO_SUCH_FILE" =>
          tree'[r.arg[1]].kind # "dir"
    /\ r.op = "OPENDIR" /\ r.arg \in Path /\ type = "HANDLE" => tree'[r.arg].kind = "dir"

\* The tree that a request finds, and what becomes of the record of failures.
TreeIs == WindowInv /\ tree \in [Path -> Node] /\ Recorded

LEMMA KeepTells ==
    ASSUME TreeIs, KeepTree
    PROVE  /\ Grows /\ WindowInv' /\ UNCHANGED <<tree, window>>
           /\ \A p \in Path : KindOf(p) = tree[p].kind /\ tree[p].kind \in window'[p]
           /\ \A p, k : Was(p, k)' = Was(p, k)
<1>1. UNCHANGED <<tree, window>>
    BY DEF KeepTree
<1>2. \A p \in Path : KindOf(p) = tree[p].kind
    BY ServerAssumption DEF KindOf
<1> QED
    BY <1>1, <1>2 DEF Grows, WindowInv, TreeIs, Was

LEMMA SetTells ==
    ASSUME TreeIs, NEW t \in [Path -> Node], SetTree(t)
    PROVE  /\ Grows /\ WindowInv' /\ tree' = t
           /\ \A p \in Path : t[p].kind \in window'[p] /\ tree[p].kind \in window'[p]
BY DEF SetTree, TreeIs, WindowInv, Grows

\* A reply to a question about one name.
LEMMA StatTells ==
    ASSUME TreeIs, NEW r, r.op = "STAT", Stat(r.arg)
    PROVE  \E type, val : Reply(type, val) /\ Tells(r, type, val)
<1>1. PICK p : p = r.arg
    OBVIOUS
<1>2. KeepTree
    BY <1>1 DEF Stat, Refuse
<1>3. /\ Grows /\ WindowInv' /\ UNCHANGED <<tree, window>>
      /\ p \in Path => KindOf(p) = tree[p].kind /\ tree[p].kind \in window'[p]
    BY <1>2, KeepTells
<1>4. CASE KindOf(p) # "none" /\ Reply("ATTRS", "")
    <2>1. p \in Path => WasNot(p, "none")'
        BY <1>3, <1>4 DEF WasNot
    <2>2. \A a : a.type = "ATTRS" => Truth("STAT", p, a)'
        BY <2>1 DEF Truth, StatTrue
    <2> QED
        BY <1>1, <1>3, <1>4, <2>2 DEF Tells, TreeOp
<1>5. CASE KindOf(p) = "none" /\ Reply("STATUS", "NO_SUCH_FILE")
    <2>1. p \in Path => Was(p, "none")'
        BY <1>3, <1>5 DEF Was
    <2>2. \A a : a.type = "STATUS" => Truth("STAT", p, a)'
        BY <2>1 DEF Truth, StatTrue
    <2> QED
        BY <1>1, <1>3, <1>5, <2>2 DEF Tells, TreeOp
<1> QED
    BY <1>1, <1>4, <1>5 DEF Stat, Refuse, Status

LEMMA OpenDirTells ==
    ASSUME TreeIs, NEW r, r.op = "OPENDIR", OpenDir(r.arg)
    PROVE  \E type, val : Reply(type, val) /\ Tells(r, type, val)
<1>1. PICK p : p = r.arg
    OBVIOUS
<1>2. KeepTree
    BY <1>1 DEF OpenDir, Refuse
<1>3. /\ Grows /\ WindowInv' /\ UNCHANGED <<tree, window>>
      /\ p \in Path => KindOf(p) = tree[p].kind /\ tree[p].kind \in window'[p]
    BY <1>2, KeepTells
<1>4. CASE KindOf(p) = "dir" /\ Reply("HANDLE", Head(req).ser)
    <2>1. p \in Path => Was(p, "dir")' /\ tree'[p].kind = "dir"
        BY <1>3, <1>4 DEF Was
    <2>2. \A a : a.type = "HANDLE" => Truth("OPENDIR", p, a)'
        BY <2>1 DEF Truth
    <2> QED
        BY <1>1, <1>3, <1>4, <2>1, <2>2 DEF Tells, TreeOp
<1>5. CASE KindOf(p) # "dir" /\ Reply("STATUS", Missing(p))
    <2>1. p \in Path => WasNot(p, "dir")'
        BY <1>3, <1>5 DEF WasNot
    <2>2. \A a : a.type = "STATUS" => Truth("OPENDIR", p, a)'
        BY <2>1 DEF Truth
    <2> QED
        BY <1>1, <1>3, <1>5, <2>2 DEF Tells, TreeOp
<1> QED
    BY <1>1, <1>4, <1>5 DEF OpenDir, Refuse, Status, NewHandle

LEMMA ReadLinkTells ==
    ASSUME TreeIs, NEW r, r.op = "READLINK", ReadLink(r.arg)
    PROVE  \E type, val : Reply(type, val) /\ Tells(r, type, val)
<1>1. PICK p : p = r.arg
    OBVIOUS
<1>2. KeepTree
    BY <1>1 DEF ReadLink, Refuse
<1>3. /\ Grows /\ WindowInv' /\ UNCHANGED <<tree, window>>
      /\ p \in Path => KindOf(p) = tree[p].kind /\ tree[p].kind \in window'[p]
    BY <1>2, KeepTells
<1>4. CASE KindOf(p) = "link" /\ Reply("NAME", {})
    <2>1. p \in Path => Was(p, "link")'
        BY <1>3, <1>4 DEF Was
    <2>2. \A a : a.type = "NAME" => Truth("READLINK", p, a)'
        BY <2>1 DEF Truth
    <2> QED
        BY <1>1, <1>3, <1>4, <2>2 DEF Tells, TreeOp
<1>5. CASE KindOf(p) # "link" /\ Reply("STATUS", Missing(p))
    <2>1. p \in Path => WasNot(p, "link")'
        BY <1>3, <1>5 DEF WasNot
    <2>2. \A a : a.type = "STATUS" => Truth("READLINK", p, a)'
        BY <2>1 DEF Truth
    <2> QED
        BY <1>1, <1>3, <1>5, <2>2 DEF Tells, TreeOp
<1> QED
    BY <1>1, <1>4, <1>5 DEF ReadLink, Refuse, Status

\* A request that changes names, or would, is refused.
LEMMA RefuseTells ==
    ASSUME TreeIs, NEW r, r.op \notin {"STAT", "OPENDIR", "READLINK"},
           r.op = "OPEN" => r.arg[2] # "ReadOnly",
           NEW s, s # "OK", Refuse(s)
    PROVE  \E type, val : Reply(type, val) /\ Tells(r, type, val)
<1>1. Grows /\ WindowInv' /\ UNCHANGED <<tree, window>> /\ Reply("STATUS", s)
    BY KeepTells DEF Refuse, Status
<1>2. \A a : a.val = s => Truth(r.op, r.arg, a)'
    BY DEF Truth
<1> QED
    BY <1>1, <1>2 DEF Tells

\* A request to do with a handle tells nothing about names.
LEMMA OtherTells ==
    ASSUME TreeIs, NEW r, r.op \in {"READDIR", "READ", "WRITE", "CLOSE"}, KeepTree,
           NEW t, NEW v, Reply(t, v)
    PROVE  \E type, val : Reply(type, val) /\ Tells(r, type, val)
<1>1. Grows /\ WindowInv' /\ UNCHANGED <<tree, window>>
    BY KeepTells
<1>2. \A a : Truth(r.op, r.arg, a)'
    BY DEF Truth
<1> QED
    BY <1>1, <1>2 DEF Tells

LEMMA OpenTells ==
    ASSUME TreeIs, NEW r, r.op = "OPEN", r.arg[1] \in Path, Open(r.arg[1], r.arg[2]),
           r.ser \in Nat, r = Head(req)
    PROVE  \E type, val : Reply(type, val) /\ Tells(r, type, val)
<1>1. PICK p, mode : p \in Path /\ p = r.arg[1] /\ mode = r.arg[2]
    OBVIOUS
<1>2. Open(p, mode) /\ KindOf(p) = tree[p].kind
    BY <1>1, ServerAssumption DEF KindOf
<1>3. CASE mode = "ReadOnly" /\ KindOf(p) # "none" /\ Reply("HANDLE", r.ser) /\ KeepTree
    <2>1. /\ Grows /\ WindowInv' /\ UNCHANGED <<tree, window>> /\ tree[p].kind \in window'[p]
        BY <1>1, <1>3, KeepTells
    <2>2. WasNot(p, "none")'
        BY <1>2, <1>3, <2>1 DEF WasNot
    <2>3. \A a : a.type = "HANDLE" => Truth(r.op, r.arg, a)'
        BY <1>1, <2>2 DEF Truth, Says
    <2> QED
        BY <1>1, <1>3, <2>1, <2>3 DEF Tells, TreeOp
<1>4. CASE mode = "ReadOnly" /\ KindOf(p) # "file" /\ KeepTree
           /\ Reply("STATUS", IF KindOf(p) = "link" THEN "NO_SUCH_FILE" ELSE Missing(p))
    <2> DEFINE v == IF KindOf(p) = "link" THEN "NO_SUCH_FILE" ELSE Missing(p)
    <2>1. /\ Grows /\ WindowInv' /\ UNCHANGED <<tree, window>> /\ tree[p].kind \in window'[p]
        BY <1>1, <1>4, KeepTells
    <2>2. WasNot(p, "file")'
        BY <1>2, <1>4, <2>1 DEF WasNot
    <2>3. /\ v = "NO_SUCH_FILE" => KindOf(p) = "link" \/ KindOf(p) = "none"
          /\ v # "NO_SUCH_FILE" => KindOf(p) # "none"
        BY DEF Missing
    <2>4. v = "NO_SUCH_FILE" => (Was(p, "none") \/ Was(p, "link"))' /\ tree[p].kind # "dir"
        BY <1>2, <2>1, <2>3 DEF Was
    <2>5. v # "NO_SUCH_FILE" => WasNot(p, "none")'
        BY <1>2, <2>1, <2>3 DEF WasNot
    <2> HIDE DEF v
    <2>6. \A a : a.type = "STATUS" /\ a.val = v => Truth(r.op, r.arg, a)'
        BY <1>1, <2>2, <2>4, <2>5 DEF Truth, Says
    <2>7. Reply("STATUS", v)
        BY <1>4 DEF v
    <2> QED
        BY <1>1, <1>4, <2>1, <2>4, <2>6, <2>7 DEF Tells, TreeOp
<1>5. CASE mode = "Overwrite" /\ Reply("HANDLE", r.ser) /\ KeepTree
    <2>1. Grows /\ WindowInv' /\ UNCHANGED <<tree, window>>
        BY <1>5, KeepTells
    <2>2. \A a : a.type = "HANDLE" => Truth(r.op, r.arg, a)'
        BY <1>1, <1>5 DEF Truth
    <2> QED
        BY <1>1, <1>5, <2>1, <2>2 DEF Tells
<1>6. CASE mode # "ReadOnly" /\ Reply("HANDLE", r.ser)
           /\ SetTree([tree EXCEPT ![p] = [kind |-> "file", ino |-> r.ser]])
    <2> DEFINE n == [kind |-> "file", ino |-> r.ser]
               t == [tree EXCEPT ![p] = n]
    <2>1. n \in Node
        BY DEF Node
    <2> HIDE DEF n
    <2>2. t \in [Path -> Node]
        BY <2>1 DEF TreeIs
    <2>3. Grows /\ WindowInv'
        BY <1>6, <2>2, SetTells DEF n
    <2>4. \A a : a.type = "HANDLE" => Truth(r.op, r.arg, a)'
        BY <1>1, <1>6 DEF Truth
    <2> QED
        BY <1>1, <1>6, <2>3, <2>4 DEF Tells, TreeOp
<1>7. CASE mode # "ReadOnly" /\ (Refuse("NO_SUCH_FILE") \/ Refuse("FAILURE"))
    BY <1>1, <1>7, RefuseTells
<1> QED
    BY <1>1, <1>2, <1>3, <1>4, <1>5, <1>6, <1>7 DEF Open, Refuse, Status, NewHandle

LEMMA MkDirTells ==
    ASSUME TreeIs, NEW r, r.op = "MKDIR", r.arg \in Path, MkDir(r.arg)
    PROVE  \E type, val : Reply(type, val) /\ Tells(r, type, val)
<1>1. PICK p \in Path : p = r.arg
    OBVIOUS
<1>2. CASE Reply("STATUS", "OK") /\ SetTree([tree EXCEPT ![p] = [kind |-> "dir", ino |-> 0]])
    <2> DEFINE n == [kind |-> "dir", ino |-> 0]
               t == [tree EXCEPT ![p] = n]
    <2>1. n \in Node /\ n.kind = "dir"
        BY DEF Node
    <2> HIDE DEF n
    <2>2. t \in [Path -> Node] /\ t[p].kind = "dir"
        BY <2>1 DEF TreeIs
    <2>3. Grows /\ WindowInv' /\ t[p].kind \in window'[p]
        BY <1>2, <2>2, SetTells DEF n
    <2>4. \A a : Truth(r.op, r.arg, a)'
        BY <1>1, <2>2, <2>3 DEF Truth, Was
    <2> QED
        BY <1>2, <2>3, <2>4 DEF Tells, TreeOp
<1>3. CASE Refuse("FAILURE") \/ Refuse("NO_SUCH_FILE")
    BY <1>3, RefuseTells
<1> QED
    BY <1>1, <1>2, <1>3 DEF MkDir, Status

LEMMA UnlinkTells ==
    ASSUME TreeIs, NEW r, r.op \in {"REMOVE", "RMDIR"}, r.arg \in Path,
           NEW kinds, Unlink(r.arg, kinds)
    PROVE  \E type, val : Reply(type, val) /\ Tells(r, type, val)
<1>1. PICK p \in Path : p = r.arg
    OBVIOUS
<1>2. KindOf(p) = tree[p].kind
    BY ServerAssumption DEF KindOf
<1>3. CASE KindOf(p) # "none" /\ Reply("STATUS", "OK")
           /\ SetTree([tree EXCEPT ![p] = Nothing])
    <2> DEFINE t == [tree EXCEPT ![p] = Nothing]
    <2>1. Nothing \in Node /\ Nothing.kind = "none"
        BY DEF Node, Nothing
    <2>2. t \in [Path -> Node] /\ t[p].kind = "none"
        BY <2>1 DEF TreeIs
    <2>3. /\ Grows /\ WindowInv' /\ t[p].kind \in window'[p] /\ tree[p].kind \in window'[p]
        BY <1>3, <2>2, SetTells
    <2>4. \A a : Truth(r.op, r.arg, a)'
        BY <1>1, <1>2, <1>3, <2>2, <2>3 DEF Truth, Was, WasNot
    <2> QED
        BY <1>3, <2>3, <2>4 DEF Tells, TreeOp
<1>4. ASSUME Refuse(Missing(p))
      PROVE  \E type, val : Reply(type, val) /\ Tells(r, type, val)
    <2>1. Missing(p) # "OK"
        BY DEF Missing
    <2> QED
        BY <1>4, <2>1, RefuseTells
<1> QED
    BY <1>1, <1>3, <1>4 DEF Unlink, Status

LEMMA RenameTells ==
    ASSUME TreeIs, NEW r, r.op \in {"RENAME", "POSIX_RENAME"},
           r.arg[1] \in Path, r.arg[2] \in Path,
           NEW replace \in BOOLEAN, Rename(r.arg[1], r.arg[2], replace)
    PROVE  \E type, val : Reply(type, val) /\ Tells(r, type, val)
<1>1. PICK p \in Path, q \in Path : p = r.arg[1] /\ q = r.arg[2]
    OBVIOUS
<1>2. KindOf(p) = tree[p].kind
    BY ServerAssumption DEF KindOf
<1>3. CASE KindOf(p) \in {"file", "link"} /\ Reply("STATUS", "OK")
           /\ SetTree([tree EXCEPT ![p] = Nothing, ![q] = tree[p]])
    <2> DEFINE t == [tree EXCEPT ![p] = Nothing, ![q] = tree[p]]
    <2>1. Nothing \in Node /\ Nothing.kind = "none"
        BY DEF Node, Nothing
    <2>2. t \in [Path -> Node] /\ (p # q => t[p].kind = "none") /\ t[q] = tree[p]
        BY <2>1 DEF TreeIs
    <2>3. /\ Grows /\ WindowInv' /\ t[p].kind \in window'[p] /\ t[q].kind \in window'[q]
          /\ tree[p].kind \in window'[p]
        BY <1>3, <2>2, SetTells
    <2>4. tree[p].kind \in window'[p] \cap window'[q] /\ tree[p].kind # "none"
        BY <1>2, <1>3, <2>2, <2>3
    <2>5. \A a : Truth(r.op, r.arg, a)'
        BY <1>1, <2>2, <2>3, <2>4 DEF Truth, Was
    <2> QED
        BY <1>3, <2>3, <2>5 DEF Tells, TreeOp
<1>4. ASSUME Refuse(Missing(p))
      PROVE  \E type, val : Reply(type, val) /\ Tells(r, type, val)
    <2>1. Missing(p) # "OK"
        BY DEF Missing
    <2> QED
        BY <1>4, <2>1, RefuseTells
<1> QED
    BY <1>1, <1>3, <1>4 DEF Rename, Status

\* Whatever it is that the server takes up.
LEMMA ServeTells ==
    ASSUME SftpInv, WindowInv, Serve \/ Fail, NEW r, r = Head(req), r.op \in Op, ArgsRight(r),
           r.ser \in Nat
    PROVE  \E type, val : Reply(type, val) /\ Tells(r, type, val)
<1>1. TreeIs
    BY DEF TreeIs, SftpInv, TypeOK, Serve, Fail, Recorded
<1>2. CASE Fail
    <2>1. Reply("STATUS", "FAILURE") /\ KeepTree /\ r.op \in Faults
        BY <1>2 DEF Fail, Refuse, Status
    <2>2. Grows /\ WindowInv' /\ UNCHANGED <<tree, window>>
        BY <1>1, <2>1, KeepTells
    <2>3. CASE r.op \in {"STAT", "OPEN", "OPENDIR", "READLINK"}
        <3>1. r.op = "STAT" => r.arg \in refused'
            BY <1>2 DEF Fail
        <3>2. \A a : a.type = "STATUS" /\ a.val = "FAILURE" => Truth(r.op, r.arg, a)'
            BY <2>1, <2>3, <3>1 DEF Truth, Says, StatTrue
        <3> QED
            BY <2>1, <2>2, <3>2 DEF Tells
    <2>4. CASE r.op \notin {"STAT", "OPEN", "OPENDIR", "READLINK"}
        BY <1>1, <1>2, <2>4, RefuseTells DEF Fail
    <2> QED
        BY <2>3, <2>4
<1>3. CASE Serve
    <2>1. CASE r.op = "STAT"
        BY <1>1, <1>3, <2>1, StatTells DEF Serve
    <2>2. CASE r.op = "OPEN"
        BY <1>1, <1>3, <2>2, OpenTells DEF Serve, ArgsRight
    <2>3. CASE r.op = "OPENDIR"
        BY <1>1, <1>3, <2>3, OpenDirTells DEF Serve
    <2>4. CASE r.op = "READLINK"
        BY <1>1, <1>3, <2>4, ReadLinkTells DEF Serve
    <2>5. CASE r.op = "MKDIR"
        BY <1>1, <1>3, <2>5, MkDirTells DEF Serve, ArgsRight
    <2>6. CASE r.op \in {"REMOVE", "RMDIR"}
        <3>1. r.arg \in Path /\ \E kinds : Unlink(r.arg, kinds)
            BY <1>3, <2>6 DEF Serve, ArgsRight
        <3> QED
            BY <1>1, <2>6, <3>1, UnlinkTells
    <2>7. CASE r.op \in {"RENAME", "POSIX_RENAME"}
        <3>1. r.arg[1] \in Path /\ r.arg[2] \in Path
            BY <2>7 DEF ArgsRight
        <3>2. (\E replace \in BOOLEAN : Rename(r.arg[1], r.arg[2], replace)) \/ Refuse("OP_UNSUPPORTED")
            <4>1. Rename(r.arg[1], r.arg[2], FALSE) \/ Extended(r.arg[1], r.arg[2])
                BY <1>3, <2>7 DEF Serve
            <4> QED
                BY <4>1 DEF Extended
        <3>3. CASE \E replace \in BOOLEAN : Rename(r.arg[1], r.arg[2], replace)
            BY <1>1, <2>7, <3>1, <3>3, RenameTells
        <3>4. CASE Refuse("OP_UNSUPPORTED")
            BY <1>1, <2>7, <3>4, RefuseTells
        <3> QED
            BY <3>2, <3>3, <3>4
    <2>8. CASE r.op \in {"READDIR", "READ", "WRITE", "CLOSE"}
        <3>1. PICK t, v : Reply(t, v)
            BY ServerReplies
        <3>2. KeepTree
            BY <1>3, <2>8 DEF Serve, ReadDir, Read, Write, Close, Refuse
        <3> QED
            BY <1>1, <2>8, <3>1, <3>2, OtherTells
    <2> QED
        BY <2>1, <2>2, <2>3, <2>4, <2>5, <2>6, <2>7, <2>8 DEF Op
<1> QED
    BY <1>2, <1>3

\* What becomes of the handles when r is served with this reply.
Gives(r, type, val) ==
    /\ r.op = "OPENDIR" =>
          /\ type \in {"HANDLE", "STATUS"} /\ (type = "STATUS" => val # "EOF")
          /\ type = "HANDLE" => r.ser \in DOMAIN handles' /\ Lists(r.arg, handles[r.ser].left)'
    /\ r.op = "READDIR" /\ r.arg \in DOMAIN handles =>
          /\ type \in {"NAME", "STATUS"}
          /\ type = "NAME" => val \cup handles'[r.arg].left = handles[r.arg].left
          /\ type = "STATUS" => handles' = handles /\ (val = "EOF" => handles[r.arg].left = {})
    /\ \A h \in DOMAIN handles : (r.op = "CLOSE" => h # r.arg) =>
          /\ h \in DOMAIN handles'
          /\ h # r.ser /\ (r.op = "READDIR" => h # r.arg) => handles'[h] = handles[h]
    /\ r.op = "CLOSE" /\ "CLOSE" \notin Faults => r.arg \notin DOMAIN handles'
    /\ \A h \in DOMAIN handles' \ DOMAIN handles :
          h = r.ser /\ type = "HANDLE" /\ r.op \in {"OPEN", "OPENDIR"}

LEMMA SameGives ==
    ASSUME NEW r, UNCHANGED handles, NEW type, NEW val,
           r.op = "OPENDIR" => type = "STATUS" /\ val # "EOF",
           r.op = "READDIR" => type = "STATUS" /\ (val = "EOF" => handles[r.arg].left = {}),
           r.op # "CLOSE" \/ "CLOSE" \in Faults
    PROVE  Gives(r, type, val)
BY DEF Gives

LEMMA NewGives ==
    ASSUME NEW r, r = Head(req), r.op \in {"OPEN", "OPENDIR"}, NEW ino, NEW left,
           NewHandle(ino, left), r.op = "OPENDIR" => Lists(r.arg, left)'
    PROVE  Reply("HANDLE", r.ser) /\ Gives(r, "HANDLE", r.ser)
<1>1. Reply("HANDLE", r.ser) /\ handles' = Put(handles, r.ser, [ino |-> ino, left |-> left])
    BY DEF NewHandle
<1>2. /\ DOMAIN handles' = DOMAIN handles \cup {r.ser}
      /\ \A h \in DOMAIN handles' :
            handles'[h] = IF h = r.ser THEN [ino |-> ino, left |-> left] ELSE handles[h]
    BY <1>1 DEF Put
<1>3. handles'[r.ser].left = left
    BY <1>2
<1>4. r.op = "OPENDIR" => Lists(r.arg, handles[r.ser].left)'
    BY <1>3 DEF Lists
<1> QED
    BY <1>1, <1>2, <1>4 DEF Gives

LEMMA ReadDirGives ==
    ASSUME ServerData, NEW r, r.op = "READDIR", ReadDir(r.arg)
    PROVE  \E type, val : Reply(type, val) /\ Gives(r, type, val)
<1>1. PICK h : h = r.arg
    OBVIOUS
<1>2. ASSUME NEW s \in SUBSET handles[h].left, Reply("NAME", s),
             handles' = [handles EXCEPT ![h].left = @ \ s]
      PROVE  \E type, val : Reply(type, val) /\ Gives(r, type, val)
    <2>1. DOMAIN handles' = DOMAIN handles /\ \A x \in DOMAIN handles : x # h => handles'[x] = handles[x]
        BY <1>2
    <2>2. ASSUME h \in DOMAIN handles PROVE s \cup handles'[h].left = handles[h].left
        <3>1. PICK ino, left : handles[h] = [ino |-> ino, left |-> left]
            BY <2>2 DEF ServerData
        <3>2. handles'[h] = [handles[h] EXCEPT !.left = @ \ s]
            BY <1>2, <2>2
        <3>3. handles'[h].left = handles[h].left \ s
            BY <3>1, <3>2
        <3> QED
            BY <3>3
    <2>3. Gives(r, "NAME", s)
        BY <1>1, <2>1, <2>2 DEF Gives
    <2> QED
        BY <1>2, <2>3
<1>3. CASE handles[h].left = {} /\ Refuse("EOF")
    <2>1. Reply("STATUS", "EOF") /\ UNCHANGED handles
        BY <1>3 DEF Refuse, Status
    <2>2. Gives(r, "STATUS", "EOF")
        BY <1>1, <1>3, <2>1, SameGives
    <2> QED
        BY <2>1, <2>2
<1> QED
    BY <1>1, <1>2, <1>3 DEF ReadDir

LEMMA OpenDirGives ==
    ASSUME TreeIs, NEW r, r = Head(req), r.op = "OPENDIR", OpenDir(r.arg)
    PROVE  \E type, val : Reply(type, val) /\ Gives(r, type, val)
<1>1. KeepTree
    BY DEF OpenDir, Refuse
<1>2. \A p \in Path : tree[p].kind \in window'[p]
    BY <1>1, KeepTells
<1>3. CASE NewHandle(0, Children(r.arg))
    <2>1. Lists(r.arg, Children(r.arg))'
        BY <1>1, <1>2 DEF Lists, Children, Was, WasNot, KeepTree
    <2>2. Lists(r.arg, Children(r.arg)) => TRUE
        OBVIOUS
    <2>3. Children(r.arg)' = Children(r.arg)
        BY <1>1 DEF Children, KeepTree
    <2> QED
        BY <1>3, <2>1, <2>3, NewGives
<1>4. CASE Refuse(Missing(r.arg))
    <2>1. Reply("STATUS", Missing(r.arg)) /\ UNCHANGED handles /\ Missing(r.arg) # "EOF"
        BY <1>4 DEF Refuse, Status, Missing
    <2>2. Gives(r, "STATUS", Missing(r.arg))
        BY <2>1, SameGives
    <2> QED
        BY <2>1, <2>2
<1> QED
    BY <1>3, <1>4 DEF OpenDir

LEMMA ServeGives ==
    ASSUME SftpInv, WindowInv, ServerData, Serve \/ Fail, NEW r, r = Head(req), r.op \in Op,
           ArgsRight(r)
    PROVE  \E type, val : Reply(type, val) /\ Gives(r, type, val)
<1>1. TreeIs
    BY DEF TreeIs, SftpInv, TypeOK, Serve, Fail, Recorded
<1>2. CASE Fail
    <2>1. Reply("STATUS", "FAILURE") /\ UNCHANGED handles /\ r.op \in Faults
        BY <1>2 DEF Fail, Refuse, Status
    <2>2. Gives(r, "STATUS", "FAILURE")
        BY <2>1, SameGives
    <2> QED
        BY <2>1, <2>2
<1>3. CASE Serve
    <2>1. CASE r.op = "OPENDIR"
        BY <1>1, <1>3, <2>1, OpenDirGives DEF Serve
    <2>2. CASE r.op = "READDIR"
        BY <1>3, <2>2, ReadDirGives DEF Serve
    <2>3. CASE r.op = "OPEN"
        <3>1. (\E ino, left : NewHandle(ino, left)) \/ \E s : Refuse(s)
            BY <1>3, <2>3 DEF Serve, Open
        <3>2. ASSUME NEW s, Refuse(s) PROVE \E type, val : Reply(type, val) /\ Gives(r, type, val)
            <4>1. Reply("STATUS", s) /\ UNCHANGED handles
                BY <3>2 DEF Refuse, Status
            <4>2. Gives(r, "STATUS", s)
                BY <2>3, <4>1, SameGives
            <4> QED
                BY <4>1, <4>2
        <3>3. ASSUME NEW ino, NEW left, NewHandle(ino, left)
              PROVE  \E type, val : Reply(type, val) /\ Gives(r, type, val)
            <4>1. Reply("HANDLE", r.ser) /\ Gives(r, "HANDLE", r.ser)
                BY <2>3, <3>3, NewGives
            <4> QED
                BY <4>1
        <3> QED
            BY <3>1, <3>2, <3>3
    <2>4. CASE r.op = "CLOSE"
        <3>0. Close(r.arg)
            BY <1>3, <2>4 DEF Serve
        <3>1. Reply("STATUS", "OK")
            BY <3>0 DEF Close, Status
        <3>2. DOMAIN handles' = DOMAIN handles \ {r.arg} /\ \A x \in DOMAIN handles' : handles'[x] = handles[x]
            BY <3>0 DEF Close, RestrictDomain, Restrict
        <3>3. Gives(r, "STATUS", "OK")
            BY <2>4, <3>2 DEF Gives
        <3> QED
            BY <3>1, <3>3
    <2>5. CASE r.op \notin {"OPENDIR", "READDIR", "OPEN", "CLOSE"}
        <3>1. PICK t, v : Reply(t, v)
            BY ServerReplies
        <3>2. UNCHANGED handles
            <4>1. ASSUME NEW p, Stat(p) \/ ReadLink(p) \/ MkDir(p) PROVE handles' = handles
                BY <4>1 DEF Stat, ReadLink, MkDir, Refuse
            <4>2. ASSUME NEW p, NEW q, NEW b, Unlink(p, b) \/ Rename(p, q, b) PROVE handles' = handles
                BY <4>2 DEF Unlink, Rename, Refuse
            <4>3. ASSUME NEW p, NEW q, Extended(p, q) PROVE handles' = handles
                BY <4>2, <4>3 DEF Extended, Refuse
            <4>4. ASSUME NEW h, NEW o, NEW b, Read(h, o, b) \/ Write(h, o, b) PROVE handles' = handles
                BY <4>4 DEF Read, Write, Refuse
            <4> QED
                BY <1>3, <2>5, <4>1, <4>2, <4>3, <4>4, ZenonT(60) DEF Serve
        <3>3. Gives(r, t, v)
            BY <2>5, <3>2, SameGives
        <3> QED
            BY <3>1, <3>3
    <2> QED
        BY <2>1, <2>2, <2>3, <2>4, <2>5
<1> QED
    BY <1>2, <1>3

LEMMA ReplyOnce ==
    ASSUME IsSeq(rep), NEW t, NEW v, Reply(t, v), NEW u, NEW w, Reply(u, w)
    PROVE  t = u /\ v = w
<1> DEFINE a(x, y) == [id |-> Head(req).id, ser |-> Head(req).ser, type |-> x, val |-> y]
<1>1. rep' = Append(rep, a(t, v)) /\ rep' = Append(rep, a(u, w))
    BY DEF Reply
<1>2. a(t, v).type = t /\ a(t, v).val = v /\ a(u, w).type = u /\ a(u, w).val = w
    OBVIOUS
<1> HIDE DEF a
<1>3. a(t, v) = rep'[Len(rep) + 1] /\ a(u, w) = rep'[Len(rep) + 1]
    BY <1>1, AppendSeq
<1> QED
    BY <1>2, <1>3

----------------------------------------------------------------------------
(***************************************************************************)
(* What was true stays so.                                                 *)
(***************************************************************************)
LEMMA WasStays ==
    ASSUME Grows, NEW p \in Path
    PROVE  /\ \A k : Was(p, k) => Was(p, k)'
           /\ \A k : WasNot(p, k) => WasNot(p, k)'
           /\ \A v : StatTrue(p, v) => StatTrue(p, v)'
           /\ \A q \in Path : (\E k \in window[p] \cap window[q] : k # "none") =>
                                 \E k \in window'[p] \cap window'[q] : k # "none"
<1>1. window[p] \subseteq window'[p] /\ refused \subseteq refused'
    BY DEF Grows, Recorded
<1>2. /\ \A k : Was(p, k) => Was(p, k)'
      /\ \A k : WasNot(p, k) => WasNot(p, k)'
    BY <1>1 DEF Was, WasNot
<1>3. ASSUME NEW v, StatTrue(p, v) PROVE StatTrue(p, v)'
    BY <1>1, <1>2, <1>3 DEF StatTrue
<1>4. \A q \in Path : (\E k \in window[p] \cap window[q] : k # "none") =>
                         \E k \in window'[p] \cap window'[q] : k # "none"
    BY <1>1 DEF Grows
<1> QED
    BY <1>2, <1>3, <1>4

LEMMA TruthStays ==
    ASSUME Grows, NEW op, NEW arg, NEW a, Truth(op, arg, a)
    PROVE  Truth(op, arg, a)'
<1>1. op = "STAT" /\ arg \in Path => StatTrue(arg, a.type = "ATTRS")'
    <2>1. CASE op = "STAT" /\ arg \in Path
        <3>1. PICK v : v = (a.type = "ATTRS")
            OBVIOUS
        <3>2. StatTrue(arg, v)
            BY <2>1, <3>1 DEF Truth
        <3>3. StatTrue(arg, v)'
            BY <2>1, <3>2, WasStays
        <3> QED
            BY <3>1, <3>3 DEF StatTrue
    <2> QED
        BY <2>1
<1>2. op = "MKDIR" /\ arg \in Path /\ a.val = "OK" => Was(arg, "dir")'
    BY WasStays DEF Truth
<1>3. op \in {"REMOVE", "RMDIR"} /\ arg \in Path /\ a.val = "OK" =>
         Was(arg, "none")' /\ WasNot(arg, "none")'
    BY WasStays DEF Truth
<1>4. op \in {"RENAME", "POSIX_RENAME"} /\ arg[1] \in Path /\ arg[2] \in Path \ {arg[1]}
         /\ a.val = "OK" =>
         Was(arg[1], "none")' /\ \E k \in window'[arg[1]] \cap window'[arg[2]] : k # "none"
    BY WasStays DEF Truth
<1>5. op = "OPEN" /\ arg[1] \in Path /\ arg[2] = "ReadOnly" =>
         /\ Says(a, "NO_SUCH_FILE") => Was(arg[1], "none")' \/ Was(arg[1], "link")'
         /\ "OPEN" \notin Faults /\ ~ Says(a, "NO_SUCH_FILE") => WasNot(arg[1], "none")'
         /\ "OPEN" \notin Faults /\ a.type # "HANDLE" => WasNot(arg[1], "file")'
    BY WasStays DEF Truth
<1>6. op = "OPENDIR" /\ arg \in Path =>
         /\ a.type = "HANDLE" => Was(arg, "dir")'
         /\ "OPENDIR" \notin Faults /\ a.type # "HANDLE" => WasNot(arg, "dir")'
    BY WasStays DEF Truth
<1>7. op = "READLINK" /\ arg \in Path =>
         /\ a.type # "HANDLE"
         /\ a.type = "NAME" => Was(arg, "link")'
         /\ "READLINK" \notin Faults /\ a.type # "NAME" => WasNot(arg, "link")'
    BY WasStays DEF Truth
<1> QED
    BY <1>1, <1>2, <1>3, <1>4, <1>5, <1>6, <1>7 DEF Truth, Says

LEMMA ListsStays ==
    ASSUME Grows, NEW d, NEW S, Lists(d, S)
    PROVE  Lists(d, S)'
BY WasStays DEF Lists

\* A request goes its way: it is not asked twice, and no answer is made up.
LEMMA StandsStays ==
    ASSUME Grows, serial \in Nat, serial' \in Nat, serial <= serial', Told' \subseteq Told,
           \A x \in Posted' : x \in Posted \/ x.ser > serial,
           NEW s, NEW op, NEW arg, Stands(s, op, arg)
    PROVE  Stands(s, op, arg)'
<1>1. s \in 1 .. serial' /\ s \in Int /\ s <= serial
    BY DEF Stands
<1>2. \A r \in Posted' : r.ser = s => r.op = op /\ r.arg = arg
    BY <1>1 DEF Stands
<1>3. \A a \in Told' : a.ser = s => Truth(op, arg, a)'
    BY TruthStays DEF Stands
<1> QED
    BY <1>1, <1>2, <1>3 DEF Stands

LEMMA StandsServed ==
    ASSUME NEW r \in Posted, Posted' \subseteq Posted, serial' = serial,
           NEW type, NEW val, Tells(r, type, val),
           \A x \in Told' : x \in Told \/ (x.ser = r.ser /\ x.type = type /\ x.val = val),
           NEW s, NEW op, NEW arg, Stands(s, op, arg)
    PROVE  Stands(s, op, arg)'
<1>1. Grows /\ \A a : a.type = type /\ a.val = val => Truth(r.op, r.arg, a)'
    BY DEF Tells
<1>2. ASSUME NEW a \in Told', a.ser = s PROVE Truth(op, arg, a)'
    <2>1. CASE a \in Told
        <3>1. Truth(op, arg, a)
            BY <1>2, <2>1 DEF Stands
        <3> QED
            BY <1>1, <3>1, TruthStays
    <2>2. CASE a.ser = r.ser /\ a.type = type /\ a.val = val
        <3>1. r.op = op /\ r.arg = arg
            BY <1>2, <2>2 DEF Stands
        <3> QED
            BY <1>1, <2>2, <3>1
    <2> QED
        BY <2>1, <2>2
<1> QED
    BY <1>2 DEF Stands

----------------------------------------------------------------------------
(***************************************************************************)
(* The steps that are no call's own: of the round, of the server, and of   *)
(* other users.                                                            *)
(***************************************************************************)
Onward ==
    /\ serial' = serial /\ Posted' \subseteq Posted
    /\ UNCHANGED <<inflight, existence, asked, result, file>>
    /\ \/ call' = call
       \/ call.op \in {"return", "prefigure", "close"} /\ call' = Idle
    /\ \A s : OneRequest(s) => OneRequest(s)'
    /\ \A s \in Nat : Three(s) => Three(s)'
    /\ wait = <<>> /\ got = <<>> => wait' = <<>> /\ got' = <<>>

\* No request is served.
Still ==
    /\ Onward /\ Grows /\ WindowInv' /\ Told' \subseteq Told /\ UNCHANGED handles
    /\ changes' = 0 => changes = 0 /\ UNCHANGED <<tree, window>>

\* The request r is served with this reply.
Serving(r, type, val) ==
    /\ Onward /\ r \in Posted /\ r.ser \in 1 .. serial /\ ArgsRight(r)
    /\ \A x \in Posted' \cup Told : x.ser # r.ser
    /\ \A x \in Told' : x \in Told \/ (x.ser = r.ser /\ x.type = type /\ x.val = val)
    /\ Tells(r, type, val) /\ Gives(r, type, val)
    /\ UNCHANGED <<changes, call, wait, got>>

Around == Move \/ Environment \/ UNCHANGED vars

Before == SftpInv /\ MatchInv /\ FewRequests /\ HandleInv /\ ServerData /\ WindowInv

LEMMA WindowSame ==
    ASSUME WindowInv, UNCHANGED <<tree, window, refused>>
    PROVE  Grows /\ WindowInv'
BY DEF WindowInv, Grows, Recorded

LEMMA SameRound ==
    ASSUME UNCHANGED <<serial, wait, got>>
    PROVE  /\ \A s : OneRequest(s) => OneRequest(s)'
           /\ \A s \in Nat : Three(s) => Three(s)'
BY DEF OneRequest, Three

LEMMA ShrinksStill ==
    ASSUME Before, Posted' \subseteq Posted, Received' \subseteq Received,
           UNCHANGED <<tree, window, refused, changes, handles, file, serial, wait, got,
                       inflight, existence, asked, result>>,
           \/ call' = call
           \/ call.op \in {"return", "prefigure", "close"} /\ call' = Idle
    PROVE  Still
<1>1. Grows /\ WindowInv'
    BY WindowSame DEF Before
<1>2. Told' \subseteq Told
    BY DEF Told, Taken
<1> QED
    BY <1>1, <1>2, SameRound DEF Still, Onward

LEMMA AwaitStill ==
    ASSUME Before, Await
    PROVE  Still
<1>1. /\ wait # <<>> /\ wait' = Tail(wait) /\ Posted' = Posted /\ Received' \subseteq Received
      /\ UNCHANGED <<handles, tree, file, serial, call>>
    BY AwaitPosted DEF Before
<1>2. PICK a, g : /\ a \in Received /\ a.ser = wait[1].ser
                  /\ g.reply = a /\ got' = Append(got, g)
                  /\ Taken' = Taken \cup {a}
    BY AwaitPosted DEF Before
<1>3. UNCHANGED <<tree, window, refused, changes, inflight, existence, asked, result>>
    BY DEF Await, svars, cache
<1>4. Grows /\ WindowInv'
    BY <1>3, WindowSame DEF Before
<1>5. Told' \subseteq Told
    BY <1>1, <1>2 DEF Told
<1>6. /\ IsSeq(wait) /\ IsSeq(got) /\ Len(wait') = Len(wait) - 1
      /\ Len(wait) \in Nat /\ Len(got) \in Nat
    <2>1. IsSeq(wait) /\ IsSeq(got)
        BY DEF Before, SftpInv, TypeOK, Shape, IsSeq
    <2> QED
        BY <1>1, <2>1, TailSeq, SeqLength
<1>7. ASSUME NEW s, OneRequest(s) PROVE OneRequest(s)'
    <2>1. PICK t : got = <<>> /\ wait = <<t>> /\ t.ser = s
        BY <1>1, <1>7 DEF OneRequest
    <2>2. wait' = <<>> /\ got' = <<g>> /\ a.ser = s
        BY <1>1, <1>2, <2>1
    <2> QED
        BY <1>1, <1>2, <1>7, <2>2 DEF OneRequest
<1>8. ASSUME NEW s \in Nat, Three(s) PROVE Three(s)'
    <2>1. /\ DOMAIN got' = DOMAIN got \cup {Len(got) + 1} /\ Len(got') = Len(got) + 1
          /\ \A i \in DOMAIN got : got'[i] = got[i]
          /\ got'[Len(got) + 1] = g
        BY <1>2, <1>6, AppendSeq
    <2>2. 1 \in DOMAIN wait /\ wait[1].ser = s + Len(got) + 1
        BY <1>1, <1>6, <1>8, TailSeq DEF Three
    <2>3. ASSUME NEW i \in DOMAIN got' PROVE got'[i].reply.ser = s + i
        <3>1. CASE i \in DOMAIN got
            BY <1>8, <2>1, <3>1 DEF Three
        <3>2. CASE i = Len(got) + 1
            <4>1. got'[i].reply = a /\ a.ser = s + Len(got) + 1
                BY <1>2, <2>1, <2>2, <3>2
            <4> QED
                BY <1>6, <3>2, <4>1
        <3> QED
            BY <2>1, <3>1, <3>2
    <2>4. ASSUME NEW i \in DOMAIN wait' PROVE wait'[i].ser = s + Len(got') + i
        <3>1. i + 1 \in DOMAIN wait /\ wait'[i] = wait[i + 1] /\ i \in Nat
            <4>1. IsSeq(wait')
                BY <1>1, <1>6, TailSeq
            <4> QED
                BY <1>1, <1>6, <4>1, TailSeq, SeqLength
        <3>2. wait[i + 1].ser = s + Len(got) + (i + 1)
            BY <1>8, <3>1 DEF Three
        <3> QED
            BY <1>6, <2>1, <3>1, <3>2
    <2> QED
        BY <2>3, <2>4 DEF Three
<1> QED
    BY <1>1, <1>3, <1>4, <1>5, <1>7, <1>8 DEF Still, Onward

LEMMA ChangeStill ==
    ASSUME Before, NEW p \in Path, Change(p), UNCHANGED cvars
    PROVE  Still
<1>1. UNCHANGED <<send, outbuf, req, rep, replies, handles, file, serial, wait, got, call,
                  inflight, existence, asked, result>>
    BY DEF Change, cvars, link, round, cache
<1>2. Posted' = Posted /\ Received' = Received
    BY <1>1, NothingPosted
<1>3. Told' = Told
    BY <1>1, <1>2 DEF Told, Taken
<1>4. PICK t : SetTree(t)
    BY DEF Change
<1>5. tree' = t
    BY <1>4 DEF SetTree
<1>6. t \in [Path -> Node]
    <2>1. TreeTypes'
        BY EnvironmentTree DEF Before, Environment
    <2> QED
        BY <1>5, <2>1 DEF TreeTypes
<1>7. Grows /\ WindowInv'
    <2>1. TreeIs
        BY DEF TreeIs, Before, SftpInv, TypeOK, Change, Recorded
    <2> QED
        BY <1>4, <1>6, <2>1, SetTells
<1>8. changes' # 0
    BY DEF Change, Before, SftpInv, TypeOK
<1> QED
    BY <1>1, <1>2, <1>3, <1>7, <1>8, SameRound DEF Still, Onward

LEMMA ServeServing ==
    ASSUME Before, Serve \/ Fail, UNCHANGED cvars
    PROVE  \E r, type, val : Serving(r, type, val)
<1>0. PICK r : r = Head(req)
    OBVIOUS
<1>1. PICK t0, v0 : Reply(t0, v0)
    BY ServerReplies
<1>2. r \in Posted /\ r.op \in Op /\ ArgsRight(r) /\ r.ser \in 1 .. serial
    BY <1>0, <1>1, ServePosted DEF Before
<1>3. r.ser \in Nat
    BY <1>2 DEF Before, SftpInv, TypeOK
<1>4. PICK type, val : Reply(type, val) /\ Tells(r, type, val)
    BY <1>0, <1>2, <1>3, ServeTells DEF Before
<1>5. PICK t, v : Reply(t, v) /\ Gives(r, t, v)
    BY <1>0, <1>2, ServeGives DEF Before
<1>6. Gives(r, type, val)
    BY <1>4, <1>5, ReplyOnce DEF Before, SftpInv, Shape
<1>7. /\ Posted' \subseteq Posted /\ \A x \in Posted' : x.ser # r.ser
      /\ UNCHANGED <<file, serial, wait, got, call>> /\ Taken' = Taken
    BY <1>0, <1>4, ServePosted DEF Before
<1>8. PICK a : /\ a.ser = r.ser /\ a.type = type /\ a.val = val
               /\ Received' = Received \cup {a}
    BY <1>0, <1>4, ServePosted DEF Before
<1>9. \A x \in Told' : x \in Told \/ (x.ser = r.ser /\ x.type = type /\ x.val = val)
    BY <1>7, <1>8 DEF Told
<1>10. \A x \in Told : x.ser # r.ser
    BY <1>2, PostedApart DEF Told, Before, HandleInv
<1>11. UNCHANGED <<inflight, existence, asked, result>> /\ changes' = changes
    BY ServerReplies DEF cvars, cache
<1>12. Onward
    BY <1>7, <1>11, SameRound DEF Onward
<1> QED
    BY <1>2, <1>4, <1>6, <1>7, <1>9, <1>10, <1>11, <1>12 DEF Serving

LEMMA AroundIs ==
    ASSUME Before, Around
    PROVE  Still \/ \E r, type, val : Serving(r, type, val)
<1>1. CASE Poll
    <2>1. UNCHANGED <<tree, window, refused, changes, inflight, existence, asked, result>>
        BY <1>1 DEF Poll, cache
    <2>2. /\ Posted' = Posted /\ Received' \subseteq Received
          /\ UNCHANGED <<handles, file, serial, wait, got, call>>
        BY <1>1, PollPosted DEF Before
    <2> QED
        BY <2>1, <2>2, ShrinksStill
<1>2. CASE PutRequest
    <2>1. UNCHANGED <<tree, window, refused, changes, inflight, existence, asked, result>>
        BY <1>2 DEF PutRequest, svars, cache
    <2>2. /\ Posted' \subseteq Posted /\ Received' \subseteq Received
          /\ UNCHANGED <<handles, file, serial, wait, got, call>>
        BY <1>2, PutPosted DEF Before
    <2> QED
        BY <2>1, <2>2, ShrinksStill
<1>3. CASE FlushRequest
    <2>1. UNCHANGED <<tree, window, refused, changes, inflight, existence, asked, result>>
        BY <1>3 DEF FlushRequest, cache
    <2>2. /\ Posted' \subseteq Posted /\ Received' \subseteq Received
          /\ UNCHANGED <<handles, file, serial, wait, got, call>>
        BY <1>3, FlushPosted DEF Before
    <2> QED
        BY <2>1, <2>2, ShrinksStill
<1>4. CASE Await
    BY <1>4, AwaitStill
<1>5. CASE Die \/ Return \/ UNCHANGED vars \/ (HangUp /\ UNCHANGED cvars)
    <2>1. /\ UNCHANGED <<send, outbuf, req, rep, replies>>
          /\ UNCHANGED <<tree, window, refused, changes, inflight, existence, asked, result>>
          /\ UNCHANGED <<handles, file, serial, wait, got>>
          /\ \/ call' = call
             \/ call.op \in {"return", "prefigure", "close"} /\ call' = Idle
        BY <1>5 DEF Die, Return, HangUp, vars, svars, cvars, link, round, cache
    <2>2. Posted' = Posted /\ Received' = Received
        BY <2>1, NothingPosted
    <2> QED
        BY <2>1, <2>2, ShrinksStill
<1>6. CASE \E p \in Path : Change(p) /\ UNCHANGED cvars
    BY <1>6, ChangeStill
<1>7. CASE (Serve \/ Fail) /\ UNCHANGED cvars
    BY <1>7, ServeServing
<1> QED
    BY <1>1, <1>2, <1>3, <1>4, <1>5, <1>6, <1>7 DEF Around, Move, Environment

LEMMA AroundStands ==
    ASSUME Before, Still \/ \E r, type, val : Serving(r, type, val)
    PROVE  /\ Onward /\ Grows /\ WindowInv' /\ serial \in Nat
           /\ \A s, op, arg : Stands(s, op, arg) => Stands(s, op, arg)'
<1>1. serial \in Nat
    BY DEF Before, SftpInv, TypeOK
<1>2. CASE Still
    <2>1. /\ Onward /\ Grows /\ WindowInv' /\ Told' \subseteq Told /\ Posted' \subseteq Posted
          /\ serial' = serial
        BY <1>2 DEF Still, Onward
    <2> QED
        BY <1>1, <2>1, StandsStays
<1>3. ASSUME NEW r, NEW type, NEW val, Serving(r, type, val)
      PROVE  /\ Onward /\ Grows /\ WindowInv'
             /\ \A s, op, arg : Stands(s, op, arg) => Stands(s, op, arg)'
    <2>1. /\ Onward /\ Grows /\ WindowInv' /\ r \in Posted /\ Posted' \subseteq Posted
          /\ serial' = serial /\ Tells(r, type, val)
          /\ \A x \in Told' : x \in Told \/ (x.ser = r.ser /\ x.type = type /\ x.val = val)
        BY <1>3 DEF Serving, Onward, Tells
    <2> QED
        BY <2>1, StandsServed
<1> QED
    BY <1>1, <1>2, <1>3

LEMMA ExistsAround ==
    ASSUME Before, ExistsInv, Still \/ \E r, type, val : Serving(r, type, val)
    PROVE  ExistsInv'
<1>1. /\ Onward /\ Grows /\ \A s, op, arg : Stands(s, op, arg) => Stands(s, op, arg)'
    BY AroundStands
<1>2. /\ UNCHANGED <<inflight, existence, asked, result>>
      /\ (call' = call \/ (call.op \in {"return", "prefigure", "close"} /\ call' = Idle))
      /\ \A s : OneRequest(s) => OneRequest(s)'
      /\ (wait = <<>> /\ got = <<>> => wait' = <<>> /\ got' = <<>>)
    BY <1>1 DEF Onward
<1>3. ASSUME NEW p, Lately(p) PROVE Lately(p)'
    BY <1>2, <1>3 DEF Lately
<1>4. Idle.op = "none"
    BY DEF Idle
<1>5. \A i \in DOMAIN inflight' :
         Stands(inflight[i].ticket.ser, "STAT", inflight[i].path)' /\ Lately(inflight[i].path)'
    <2> SUFFICES ASSUME NEW i \in DOMAIN inflight
                 PROVE  Stands(inflight[i].ticket.ser, "STAT", inflight[i].path)'
                        /\ Lately(inflight[i].path)'
        BY <1>2
    <2>1. PICK s, p : s = inflight[i].ticket.ser /\ p = inflight[i].path
        OBVIOUS
    <2>2. Stands(s, "STAT", p) /\ Lately(p)
        BY <2>1 DEF ExistsInv
    <2>3. Stands(s, "STAT", p)' /\ Lately(p)'
        BY <1>1, <1>3, <2>2
    <2>4. s = inflight'[i].ticket.ser /\ p = inflight'[i].path
        BY <1>2, <2>1
    <2> QED
        BY <2>3, <2>4 DEF Stands, Lately
<1>6. \A p \in DOMAIN existence' : StatTrue(p, existence[p])' /\ Lately(p)'
    <2> SUFFICES ASSUME NEW p \in DOMAIN existence
                 PROVE  StatTrue(p, existence[p])' /\ Lately(p)'
        BY <1>2
    <2>1. PICK v : v = existence[p]
        OBVIOUS
    <2>2. StatTrue(p, v) /\ Lately(p) /\ p \in Path
        BY <2>1 DEF ExistsInv, Before, SftpInv, TypeOK
    <2>3. StatTrue(p, v)' /\ Lately(p)'
        BY <1>1, <1>3, <2>2, WasStays
    <2> QED
        BY <1>2, <2>1, <2>3 DEF StatTrue
<1>7. call'.op = "exists" =>
         \/ wait' = <<>> /\ got' = <<>>
         \/ inflight' # <<>> /\ OneRequest(inflight[1].ticket.ser)'
    BY <1>2, <1>4 DEF ExistsInv, OneRequest
<1>8. result'.op = "exists" => result'.path \in Path /\ StatTrue(result.path, result.val)'
    <2> SUFFICES ASSUME result.op = "exists"
                 PROVE  result.path \in Path /\ StatTrue(result.path, result.val)'
        BY <1>2
    <2>1. PICK p, v : p = result.path /\ v = result.val
        OBVIOUS
    <2>2. p \in Path /\ StatTrue(p, v)
        BY <2>1 DEF ExistsInv
    <2>3. StatTrue(p, v)'
        BY <1>1, <2>2, WasStays
    <2> QED
        BY <1>2, <2>1, <2>2, <2>3 DEF StatTrue
<1> QED
    BY <1>5, <1>6, <1>7, <1>8 DEF ExistsInv

\* Names stay as they are, as long as nobody serves a request to change them.
LEMMA SteadyStays ==
    ASSUME UNCHANGED <<tree, window>>, NEW p, Steady(p)
    PROVE  Steady(p)'
BY DEF Steady

LEMMA NoTreeOpAround ==
    ASSUME Still \/ \E r, type, val : Serving(r, type, val), \A r \in Posted : ~ TreeOp(r)
    PROVE  changes' = 0 => changes = 0 /\ UNCHANGED <<tree, window>>
<1>1. CASE Still
    BY <1>1 DEF Still
<1>2. ASSUME NEW r, NEW type, NEW val, Serving(r, type, val)
      PROVE  changes' = changes /\ UNCHANGED <<tree, window>>
    BY <1>2 DEF Serving, Tells
<1> QED
    BY <1>1, <1>2

LEMMA NameAround ==
    ASSUME Before, NameInv, Still \/ \E r, type, val : Serving(r, type, val)
    PROVE  NameInv'
<1>1. /\ Onward /\ Grows /\ \A s, op, arg : Stands(s, op, arg) => Stands(s, op, arg)'
    BY AroundStands
<1>2. /\ UNCHANGED <<asked, result>> /\ Posted' \subseteq Posted /\ serial' = serial
      /\ (call' = call \/ (call.op \in {"return", "prefigure", "close"} /\ call' = Idle))
      /\ \A s : OneRequest(s) => OneRequest(s)'
    BY <1>1 DEF Onward
<1>3. Idle.op = "none"
    BY DEF Idle
<1>4. \A s : OnlyOwn(s) => OnlyOwn(s)'
    BY <1>2 DEF OnlyOwn
<1>5. ASSUME call'.op \in NameCalls
      PROVE  \E s \in 1 .. serial', op \in NameOps' :
                /\ OneRequest(s)' /\ OnlyOwn(s)' /\ Stands(s, op, NameArg)'
                /\ changes' = 0 /\ call'.path \notin asked' =>
                      /\ (\E r \in Posted' : r.ser = s) => Steady(call.path)'
                      /\ \A a \in Told' : a.ser = s /\ a.val # "OK" => Steady(call.path)'
    <2>1. call' = call /\ call.op \in NameCalls
        BY <1>2, <1>3, <1>5 DEF NameCalls
    <2>2. PICK s \in 1 .. serial, op \in NameOps :
                /\ OneRequest(s) /\ OnlyOwn(s) /\ Stands(s, op, NameArg)
                /\ changes = 0 /\ call.path \notin asked =>
                      /\ (\E r \in Posted : r.ser = s) => Steady(call.path)
                      /\ \A a \in Told : a.ser = s /\ a.val # "OK" => Steady(call.path)
        BY <2>1 DEF NameInv, Trying
    <2>3. PICK arg, p : arg = NameArg /\ p = call.path
        OBVIOUS
    <2>4. Stands(s, op, arg)' /\ arg = NameArg' /\ p = call'.path /\ NameOps' = NameOps
        BY <1>1, <2>1, <2>2, <2>3 DEF NameArg, NameOps
    <2>5. op \in Op \ {"OPEN"}
        BY <2>2 DEF NameOps, Op
    <2>6. ASSUME changes' = 0, p \notin asked
          PROVE  /\ (\E r \in Posted' : r.ser = s) => Steady(p)'
                 /\ \A a \in Told' : a.ser = s /\ a.val # "OK" => Steady(p)'
        <3>1. CASE Still
            <4>1. changes = 0 /\ UNCHANGED <<tree, window>> /\ Told' \subseteq Told
                BY <2>6, <3>1 DEF Still
            <4> QED
                BY <1>2, <2>2, <2>3, <2>6, <4>1, SteadyStays
        <3>2. ASSUME NEW r, NEW type, NEW val, Serving(r, type, val)
              PROVE  /\ (\E x \in Posted' : x.ser = s) => Steady(p)'
                     /\ \A a \in Told' : a.ser = s /\ a.val # "OK" => Steady(p)'
            <4>1. /\ changes = 0 /\ r \in Posted
                  /\ \A x \in Posted' \cup Told : x.ser # r.ser
                  /\ \A x \in Told' : x \in Told \/ (x.ser = r.ser /\ x.type = type /\ x.val = val)
                  /\ (~ TreeOp(r) => UNCHANGED <<tree, window>>)
                  /\ (UNCHANGED <<tree, window>> \/ r.op = "OPEN" \/ val = "OK")
                BY <2>6, <3>2 DEF Serving, Tells
            <4>2. CASE r.ser = s
                <5>1. r.op = op /\ Steady(p)
                    BY <2>2, <2>3, <2>6, <4>1, <4>2 DEF Stands
                <5>2. CASE val = "OK"
                    BY <4>1, <4>2, <5>2
                <5>3. CASE UNCHANGED <<tree, window>>
                    <6>1. Steady(p)'
                        BY <5>1, <5>3, SteadyStays
                    <6> QED
                        BY <6>1
                <5> QED
                    BY <2>5, <4>1, <5>1, <5>2, <5>3
            <4>3. CASE r.ser # s
                <5>1. UNCHANGED <<tree, window>>
                    BY <2>2, <4>1, <4>3 DEF OnlyOwn
                <5>2. \A a \in Told' : a.ser = s => a \in Told
                    BY <4>1, <4>3
                <5> QED
                    BY <1>2, <2>2, <2>3, <2>6, <4>1, <5>1, <5>2, SteadyStays
            <4> QED
                BY <4>2, <4>3
        <3> QED
            BY <3>1, <3>2
    <2>7. OneRequest(s)' /\ OnlyOwn(s)'
        BY <1>2, <1>4, <2>2
    <2>8. Stands(s, op, NameArg)'
        BY <2>4 DEF Stands
    <2>9. changes' = 0 /\ call'.path \notin asked' =>
                      /\ (\E r \in Posted' : r.ser = s) => Steady(call.path)'
                      /\ \A a \in Told' : a.ser = s /\ a.val # "OK" => Steady(call.path)'
        BY <1>2, <2>4, <2>6 DEF Steady
    <2> QED
        BY <1>2, <2>2, <2>4, <2>7, <2>8, <2>9
<1>6. call'.op = "rename" => call'.path # call'.more
    BY <1>2, <1>3 DEF NameInv
<1>7. call'.op = "open" => \E s \in 1 .. serial' : OneRequest(s)' /\ OnlyOwn(s)'
    BY <1>2, <1>3, <1>4 DEF NameInv
<1>8. call'.op \notin NameCalls \cup {"open"} => \A r \in Posted' : ~ TreeOp(r)
    BY <1>2 DEF NameInv, NameCalls
<1>9. call'.op \notin {"none", "return"} => result'.op = "none"
    BY <1>2, <1>3 DEF NameInv
<1>10. ASSUME result'.op \in NameCalls
       PROVE  /\ result'.path \in Path /\ (result'.op = "rename" => result'.more \in Path)
              /\ result'.status = "OK" =>
                    /\ result'.op = "mkdir" => Was(result.path, "dir")'
                    /\ result'.op # "mkdir" =>
                          Was(result.path, "none")' /\ WasNot(result.path, "none")'
                    /\ result'.op = "rename" =>
                          \E k \in window'[result'.path] \cap window'[result'.more] : k # "none"
              /\ result'.status # "OK" /\ changes' = 0 /\ result'.path \notin asked' =>
                    Steady(result.path)'
    <2>1. PICK p, q : p = result.path /\ q = result.more
        OBVIOUS
    <2>2. /\ p \in Path /\ (result.op = "rename" => q \in Path)
          /\ result.status = "OK" =>
                    /\ result.op = "mkdir" => Was(p, "dir")
                    /\ result.op # "mkdir" => Was(p, "none") /\ WasNot(p, "none")
                    /\ result.op = "rename" => \E k \in window[p] \cap window[q] : k # "none"
          /\ result.status # "OK" /\ changes = 0 /\ p \notin asked => Steady(p)
        BY <1>2, <1>10, <2>1 DEF NameInv
    <2>3. call.op \in {"none", "return"} /\ \A r \in Posted : ~ TreeOp(r)
        BY <1>2, <1>10 DEF NameInv, NameCalls
    <2>4. changes' = 0 => changes = 0 /\ UNCHANGED <<tree, window>>
        BY <2>3, NoTreeOpAround
    <2>5. changes' = 0 /\ Steady(p) => Steady(p)'
        BY <2>4, SteadyStays
    <2>6. /\ \A k : Was(p, k) => Was(p, k)'
          /\ \A k : WasNot(p, k) => WasNot(p, k)'
          /\ q \in Path /\ (\E k \in window[p] \cap window[q] : k # "none") =>
                \E k \in window'[p] \cap window'[q] : k # "none"
        BY <1>1, <2>2, WasStays
    <2>7. p = result'.path /\ q = result'.more /\ result' = result
        BY <1>2, <2>1
    <2>8. /\ result.status = "OK" =>
                    /\ result.op = "mkdir" => Was(p, "dir")'
                    /\ result.op # "mkdir" => Was(p, "none")' /\ WasNot(p, "none")'
                    /\ result.op = "rename" => \E k \in window'[p] \cap window'[q] : k # "none"
          /\ result.status # "OK" /\ changes' = 0 /\ p \notin asked => Steady(p)'
        BY <2>2, <2>4, <2>5, <2>6
    <2> QED
        BY <1>2, <2>2, <2>7, <2>8 DEF Was, WasNot, Steady
<1> QED
    BY <1>5, <1>6, <1>7, <1>8, <1>9, <1>10 DEF NameInv, Trying

LEMMA TypeAround ==
    ASSUME Before, NameInv, TypeInv, Still \/ \E r, type, val : Serving(r, type, val)
    PROVE  TypeInv'
<1>1. /\ Onward /\ Grows /\ \A s, op, arg : Stands(s, op, arg) => Stands(s, op, arg)'
    BY AroundStands
<1>2. /\ UNCHANGED result /\ serial' = serial /\ serial \in Nat
      /\ (call' = call \/ (call.op \in {"return", "prefigure", "close"} /\ call' = Idle))
      /\ \A s \in Nat : Three(s) => Three(s)'
    BY <1>1 DEF Onward, Before, SftpInv, TypeOK
<1>3. ASSUME call'.op = "type"
      PROVE  \E s \in 0 .. serial' :
                /\ Three(s)' /\ Unmoved(s, call.path)'
                /\ Stands(s + 1, "OPEN", <<call.path, "ReadOnly">>)'
                /\ Stands(s + 2, "OPENDIR", call.path)'
                /\ Stands(s + 3, "READLINK", call.path)'
    <2>1. call' = call /\ call.op = "type"
        BY <1>2, <1>3, OpsDiffer
    <2>2. PICK p : p = call.path
        OBVIOUS
    <2>3. p \in Path
        BY <2>1, <2>2 DEF Before, SftpInv, Progress
    <2>4. PICK s \in 0 .. serial :
             /\ Three(s) /\ Unmoved(s, p)
             /\ Stands(s + 1, "OPEN", <<p, "ReadOnly">>)
             /\ Stands(s + 2, "OPENDIR", p)
             /\ Stands(s + 3, "READLINK", p)
        BY <2>1, <2>2 DEF TypeInv
    <2>5. s \in Nat
        BY <1>2, <2>4
    <2>6. /\ Three(s)'
          /\ Stands(s + 1, "OPEN", <<p, "ReadOnly">>)'
          /\ Stands(s + 2, "OPENDIR", p)'
          /\ Stands(s + 3, "READLINK", p)'
        BY <1>1, <1>2, <2>4, <2>5
    <2>7. ASSUME changes' = 0
          PROVE  changes = 0 /\ UNCHANGED tree
        <3>1. \A r \in Posted : ~ TreeOp(r)
            BY <2>1 DEF NameInv, NameCalls
        <3> QED
            BY <2>7, <3>1, NoTreeOpAround
    <2>8. ASSUME changes' = 0, NEW a \in Told'
          PROVE  /\ a.ser = s + 1 /\ Says(a, "NO_SUCH_FILE") => tree'[p].kind # "dir"
                 /\ a.ser = s + 2 /\ a.type = "HANDLE" => tree'[p].kind = "dir"
        <3>1. changes = 0 /\ tree' = tree
            BY <2>7, <2>8
        <3>2. CASE a \in Told
            BY <2>4, <3>1, <3>2 DEF Unmoved
        <3>3. CASE a \notin Told
            <4>1. PICK r, type, val : Serving(r, type, val)
                BY <2>8, <3>3 DEF Still
            <4>2. a.ser = r.ser /\ a.type = type /\ a.val = val /\ r \in Posted /\ Tells(r, type, val)
                BY <2>8, <3>3, <4>1 DEF Serving
            <4>3. CASE a.ser = s + 1 /\ Says(a, "NO_SUCH_FILE")
                <5>1. r.op = "OPEN" /\ r.arg = <<p, "ReadOnly">>
                    BY <2>4, <4>2, <4>3 DEF Stands
                <5>2. tree'[p].kind # "dir"
                    BY <4>2, <4>3, <5>1 DEF Tells, Says
                <5> QED
                    BY <2>5, <4>3, <5>2
            <4>4. CASE a.ser = s + 2 /\ a.type = "HANDLE"
                <5>1. r.op = "OPENDIR" /\ r.arg = p
                    BY <2>4, <4>2, <4>4 DEF Stands
                <5>2. tree'[p].kind = "dir"
                    BY <2>3, <4>2, <4>4, <5>1 DEF Tells
                <5> QED
                    BY <2>5, <4>4, <5>2
            <4> QED
                BY <4>3, <4>4
        <3> QED
            BY <3>2, <3>3
    <2>9. Unmoved(s, p)'
        BY <2>8 DEF Unmoved
    <2>10. p = call'.path /\ s \in 0 .. serial'
        BY <1>2, <2>1, <2>2, <2>4
    <2>11. Unmoved(s, call.path)'
        BY <2>9, <2>10 DEF Unmoved
    <2>12. /\ Stands(s + 1, "OPEN", <<call.path, "ReadOnly">>)'
           /\ Stands(s + 2, "OPENDIR", call.path)'
           /\ Stands(s + 3, "READLINK", call.path)'
        BY <2>6, <2>10 DEF Stands
    <2> QED
        BY <2>6, <2>10, <2>11, <2>12
<1>4. ASSUME result'.op = "type"
      PROVE  /\ result'.path \in Path
             /\ result'.status = "OK" /\ Deducible =>
                   \A k \in Kind : result'.val = k \/ WasNot(result.path, k)'
             /\ result'.status = "NO_SUCH_FILE" =>
                   Was(result.path, "none")' \/ Was(result.path, "link")'
    <2>1. PICK p : p = result.path
        OBVIOUS
    <2>2. /\ p \in Path
          /\ result.status = "OK" /\ Deducible => \A k \in Kind : result.val = k \/ WasNot(p, k)
          /\ result.status = "NO_SUCH_FILE" => Was(p, "none") \/ Was(p, "link")
        BY <1>2, <1>4, <2>1 DEF TypeInv
    <2>3. /\ \A k : Was(p, k) => Was(p, k)'
          /\ \A k : WasNot(p, k) => WasNot(p, k)'
        BY <1>1, <2>2, WasStays
    <2>4. /\ result.status = "OK" /\ Deducible => \A k \in Kind : result.val = k \/ WasNot(p, k)'
          /\ result.status = "NO_SUCH_FILE" => Was(p, "none")' \/ Was(p, "link")'
        BY <2>2, <2>3
    <2>5. p = result'.path /\ result' = result
        BY <1>2, <2>1
    <2> QED
        BY <2>2, <2>4, <2>5 DEF Was, WasNot
<1> QED
    BY <1>3, <1>4 DEF TypeInv, Deducible

LEMMA ListAround ==
    ASSUME Before, ListInv, Still \/ \E r, type, val : Serving(r, type, val)
    PROVE  ListInv'
<1>1. Onward /\ Grows
    BY AroundStands
<1>2. /\ UNCHANGED result /\ serial' = serial /\ Posted' \subseteq Posted
      /\ (call' = call \/ (call.op \in {"return", "prefigure", "close"} /\ call' = Idle))
      /\ \A s : OneRequest(s) => OneRequest(s)'
    BY <1>1 DEF Onward
<1>3. ASSUME NEW d, NEW S, Lists(d, S) PROVE Lists(d, S)'
    BY <1>1, <1>3, ListsStays
<1>4. ASSUME call'.op = "contents"
      PROVE  \E s \in 1 .. serial' : Listed(s, call.path, call.more)'
    <2>1. call' = call /\ call.op = "contents"
        BY <1>2, <1>4, OpsDiffer
    <2>2. PICK d, m : d = call.path /\ m = call.more
        OBVIOUS
    <2>3. PICK s \in 1 .. serial : Listed(s, d, m)
        BY <2>1, <2>2 DEF ListInv
    <2>4. PICK h : h = m.handle
        OBVIOUS
    <2>5. Settled(h)
        BY <2>1, <2>2, <2>4 DEF Before, HandleInv
    <2>6. OneRequest(s)' /\ \A r \in Posted' : r.op = "READDIR" => r.ser = s
        BY <1>2, <2>3 DEF Listed
    \* Handles that the listing needs are not touched by requests of others.
    <2>7. ASSUME NEW g \in DOMAIN handles, NEW r, NEW type, NEW val, Serving(r, type, val),
                 r.op = "CLOSE" => r.arg # g, r.ser # s, r.ser # g
          PROVE  g \in DOMAIN handles' /\ handles'[g] = handles[g]
        <3>1. r \in Posted /\ Gives(r, type, val)
            BY <2>7 DEF Serving
        <3>2. r.op # "READDIR"
            BY <2>3, <2>7, <3>1 DEF Listed
        <3> QED
            BY <2>7, <3>1, <3>2 DEF Gives
    <2>8. ASSUME h = 0
          PROVE  /\ m.names = {}
                 /\ \A r \in Posted' : r.ser = s => r.op = "OPENDIR" /\ r.arg = d
                 /\ \A a \in Told' : a.ser = s =>
                       /\ a.type \in {"HANDLE", "STATUS"} /\ ~ Says(a, "EOF")
                       /\ a.type = "HANDLE" => s \in DOMAIN handles' /\ Lists(d, handles[s].left)'
        <3>1. /\ m.names = {}
              /\ \A r \in Posted : r.ser = s => r.op = "OPENDIR" /\ r.arg = d
              /\ \A a \in Told : a.ser = s =>
                    /\ a.type \in {"HANDLE", "STATUS"} /\ ~ Says(a, "EOF")
                    /\ a.type = "HANDLE" => s \in DOMAIN handles /\ Lists(d, handles[s].left)
            BY <2>3, <2>4, <2>8 DEF Listed
        <3>2. ASSUME NEW a \in Told', a.ser = s
              PROVE  /\ a.type \in {"HANDLE", "STATUS"} /\ ~ Says(a, "EOF")
                     /\ a.type = "HANDLE" => s \in DOMAIN handles' /\ Lists(d, handles[s].left)'
            <4>1. CASE a \in Told
                <5>1. /\ a.type \in {"HANDLE", "STATUS"} /\ ~ Says(a, "EOF")
                      /\ a.type = "HANDLE" => s \in DOMAIN handles /\ Lists(d, handles[s].left)
                    BY <3>1, <3>2, <4>1
                <5>2. ASSUME a.type = "HANDLE"
                      PROVE  s \in DOMAIN handles' /\ handles'[s] = handles[s]
                    <6>1. CASE Still
                        BY <5>1, <5>2, <6>1 DEF Still
                    <6>2. ASSUME NEW r, NEW type, NEW val, Serving(r, type, val)
                          PROVE  s \in DOMAIN handles' /\ handles'[s] = handles[s]
                        <7>1. r \in Posted /\ r.ser # s
                            BY <3>2, <4>1, <6>2 DEF Serving
                        <7>2. r.op = "CLOSE" => Settled(r.arg)
                            BY <7>1 DEF Before, HandleInv
                        <7>3. r.op = "CLOSE" => r.arg # s
                            BY <3>2, <4>1, <7>2 DEF Settled, Told
                        <7> QED
                            BY <2>7, <5>1, <5>2, <6>2, <7>1, <7>3
                    <6> QED
                        BY <6>1, <6>2
                <5>3. a.type = "HANDLE" => Lists(d, handles[s].left)'
                    <6>1. PICK l : l = handles[s].left
                        OBVIOUS
                    <6>2. a.type = "HANDLE" => Lists(d, l)' /\ handles'[s].left = l
                        BY <1>3, <5>1, <5>2, <6>1
                    <6> QED
                        BY <6>2 DEF Lists
                <5> QED
                    BY <5>1, <5>2, <5>3
            <4>2. CASE a \notin Told
                <5>1. PICK r, type, val : Serving(r, type, val)
                    BY <3>2, <4>2 DEF Still
                <5>2. r.ser = s /\ a.type = type /\ a.val = val /\ r \in Posted /\ Gives(r, type, val)
                    BY <3>2, <4>2, <5>1 DEF Serving
                <5>3. r.op = "OPENDIR" /\ r.arg = d
                    BY <3>1, <5>2
                <5>4. /\ type \in {"HANDLE", "STATUS"} /\ (type = "STATUS" => val # "EOF")
                      /\ type = "HANDLE" => s \in DOMAIN handles' /\ Lists(d, handles[r.ser].left)'
                    BY <5>2, <5>3 DEF Gives, Lists
                <5>5. Lists(d, handles[r.ser].left)' => Lists(d, handles[s].left)'
                    BY <5>2 DEF Lists
                <5> QED
                    BY <5>2, <5>4, <5>5 DEF Says
            <4> QED
                BY <4>1, <4>2
        <3> QED
            BY <1>2, <3>1, <3>2
    <2>9. ASSUME h # 0
          PROVE  /\ h \in DOMAIN handles' /\ h < s
                 /\ \A r \in Posted' : r.op = "CLOSE" => r.arg # h
                 /\ \A r \in Posted' : r.ser = s =>
                       /\ r.op = "READDIR" /\ r.arg = h
                       /\ Lists(d, m.names \cup handles[h].left)'
                 /\ \A a \in Told' : a.ser = s =>
                       /\ a.type \in {"NAME", "STATUS"}
                       /\ a.type = "NAME" => Lists(d, m.names \cup a.val \cup handles[h].left)'
                       /\ Says(a, "EOF") => Lists(d, m.names)'
        <3>1. /\ h \in DOMAIN handles /\ h < s
              /\ \A r \in Posted : r.op = "CLOSE" => r.arg # h
              /\ \A r \in Posted : r.ser = s =>
                    /\ r.op = "READDIR" /\ r.arg = h
                    /\ Lists(d, m.names \cup handles[h].left)
              /\ \A a \in Told : a.ser = s =>
                    /\ a.type \in {"NAME", "STATUS"}
                    /\ a.type = "NAME" => Lists(d, m.names \cup a.val \cup handles[h].left)
                    /\ Says(a, "EOF") => Lists(d, m.names)
            BY <2>3, <2>4, <2>9 DEF Listed
        <3>2. ASSUME NEW r, NEW type, NEW val, Serving(r, type, val), r.ser # s
              PROVE  handles'[h] = handles[h]
            <4>1. r \in Posted /\ r.ser # h
                BY <2>5, <3>2 DEF Serving, Settled
            <4> QED
                BY <2>7, <3>1, <3>2, <4>1
        <3>3. h \in DOMAIN handles'
            <4>1. CASE Still
                BY <3>1, <4>1 DEF Still
            <4>2. ASSUME NEW r, NEW type, NEW val, Serving(r, type, val)
                  PROVE  h \in DOMAIN handles'
                <5>1. r \in Posted /\ Gives(r, type, val)
                    BY <4>2 DEF Serving
                <5> QED
                    BY <3>1, <5>1 DEF Gives
            <4> QED
                BY <4>1, <4>2
        <3>4. PICK l, n : l = handles[h].left /\ n = m.names
            OBVIOUS
        <3>5. ASSUME NEW r \in Posted', r.ser = s
              PROVE  /\ r.op = "READDIR" /\ r.arg = h
                     /\ Lists(d, m.names \cup handles[h].left)'
            <4>1. r.op = "READDIR" /\ r.arg = h /\ Lists(d, n \cup l)
                BY <1>2, <3>1, <3>4, <3>5
            <4>2. handles'[h] = handles[h]
                <5>1. CASE Still
                    BY <5>1 DEF Still
                <5>2. ASSUME NEW x, NEW type, NEW val, Serving(x, type, val)
                      PROVE  handles'[h] = handles[h]
                    <6>1. x.ser # s
                        BY <3>5, <5>2 DEF Serving
                    <6> QED
                        BY <3>2, <5>2, <6>1
                <5> QED
                    BY <5>1, <5>2
            <4>3. Lists(d, n \cup l)' /\ n \cup l = m.names \cup handles'[h].left
                BY <1>3, <3>4, <4>1, <4>2
            <4> QED
                BY <4>1, <4>3 DEF Lists
        <3>6. ASSUME NEW a \in Told', a.ser = s
              PROVE  /\ a.type \in {"NAME", "STATUS"}
                     /\ a.type = "NAME" => Lists(d, m.names \cup a.val \cup handles[h].left)'
                     /\ Says(a, "EOF") => Lists(d, m.names)'
            <4>0. PICK v : v = a.val
                OBVIOUS
            <4>1. CASE a \in Told
                <5>1. /\ a.type \in {"NAME", "STATUS"}
                      /\ a.type = "NAME" => Lists(d, n \cup v \cup l)
                      /\ Says(a, "EOF") => Lists(d, n)
                    BY <3>1, <3>4, <3>6, <4>0, <4>1
                <5>2. handles'[h] = handles[h]
                    <6>1. CASE Still
                        BY <6>1 DEF Still
                    <6>2. ASSUME NEW x, NEW type, NEW val, Serving(x, type, val)
                          PROVE  handles'[h] = handles[h]
                        <7>1. x.ser # s
                            BY <3>6, <4>1, <6>2 DEF Serving
                        <7> QED
                            BY <3>2, <6>2, <7>1
                    <6> QED
                        BY <6>1, <6>2
                <5>3. a.type = "NAME" => Lists(d, n \cup v \cup l)'
                    BY <1>3, <5>1
                <5>4. Says(a, "EOF") => Lists(d, n)'
                    BY <1>3, <5>1
                <5>5. n \cup v \cup l = m.names \cup a.val \cup handles'[h].left /\ n = m.names
                    BY <3>4, <4>0, <5>2
                <5> QED
                    BY <5>1, <5>3, <5>4, <5>5 DEF Lists
            <4>2. CASE a \notin Told
                <5>1. PICK r, type, val : Serving(r, type, val)
                    BY <3>6, <4>2 DEF Still
                <5>2. r.ser = s /\ a.type = type /\ a.val = val /\ r \in Posted /\ Gives(r, type, val)
                    BY <3>6, <4>2, <5>1 DEF Serving
                <5>3. r.op = "READDIR" /\ r.arg = h /\ Lists(d, n \cup l)
                    BY <3>1, <3>4, <5>2
                <5>4. /\ type \in {"NAME", "STATUS"}
                      /\ type = "NAME" => val \cup handles'[h].left = handles[h].left
                      /\ type = "STATUS" => (val = "EOF" => handles[h].left = {})
                    BY <3>1, <5>2, <5>3 DEF Gives
                <5>5. Lists(d, n \cup l)'
                    BY <1>3, <5>3
                <5>6. ASSUME a.type = "NAME" PROVE Lists(d, m.names \cup a.val \cup handles[h].left)'
                    <6>1. n \cup l = m.names \cup a.val \cup handles'[h].left
                        BY <3>4, <5>2, <5>4, <5>6
                    <6> QED
                        BY <5>5, <6>1 DEF Lists
                <5>7. ASSUME Says(a, "EOF") PROVE Lists(d, m.names)'
                    <6>1. n \cup l = m.names
                        BY <3>4, <5>2, <5>4, <5>7 DEF Says
                    <6> QED
                        BY <5>5, <6>1 DEF Lists
                <5> QED
                    BY <5>2, <5>4, <5>6, <5>7
            <4> QED
                BY <4>1, <4>2
        <3> QED
            BY <1>2, <3>1, <3>3, <3>5, <3>6
    <2>10. Listed(s, d, m)'
        BY <2>4, <2>6, <2>8, <2>9 DEF Listed
    <2>11. d = call'.path /\ m = call'.more /\ s \in 1 .. serial'
        BY <1>2, <2>1, <2>2, <2>3
    <2> QED
        BY <2>10, <2>11 DEF Listed, Lists
<1>5. call'.op # "contents" => \A r \in Posted' : r.op # "READDIR"
    BY <1>2 DEF ListInv
<1>6. ASSUME result'.op = "contents", result'.status = "OK" PROVE Lists(result.path, result.val)'
    <2>1. PICK d, S : d = result.path /\ S = result.val
        OBVIOUS
    <2>2. Lists(d, S)'
        BY <1>2, <1>3, <1>6, <2>1 DEF ListInv
    <2>3. d = result'.path /\ S = result'.val
        BY <1>2, <2>1
    <2> QED
        BY <2>2, <2>3 DEF Lists
<1> QED
    BY <1>4, <1>5, <1>6 DEF ListInv

----------------------------------------------------------------------------
(***************************************************************************)
(* The steps that a call takes on its own: it begins, or it goes on.       *)
(***************************************************************************)
\* Which call it is that makes this request.
Poses(x) ==
    /\ TreeOp(x) => call'.op \in NameCalls \cup {"open"}
    /\ x.op = "READDIR" => call'.op = "contents"
    /\ x.op \in {"OPEN", "OPENDIR"} => Seeking' /\ Due(x)'
    /\ x.op = "CLOSE" => ~ Seeking'
AllPosed == \A x \in News' : Poses(x)

Beginning ==
    /\ AllPosed /\ call = Idle /\ call'.op \notin {"none", "return", "rmdir"}
    /\ result' = NoResult /\ got = <<>> /\ got' = <<>> /\ wait = <<>>
    /\ window' = [q \in Path |-> IF q \in asked THEN window[q] ELSE {tree[q].kind}]
    /\ refused' = refused \cap asked
    /\ UNCHANGED <<tree, handles, changes>>
    /\ call'.op \notin {"exists", "prefigure"} => UNCHANGED cache

Going ==
    /\ AllPosed /\ UNCHANGED svars /\ call.op \notin Silent
    /\ \/ result' = result /\ (call'.op = call.op \/ (call.op = "remove" /\ call'.op = "rmdir"))
       \/ result'.op = call.op /\ result'.path = call.path /\ call'.op \in {"none", "return"}
    /\ asked' = asked /\ (call.op # "exists" => UNCHANGED cache)

LEMMA OpsPose ==
    ASSUME NEW x, x.op \notin {"OPEN", "OPENDIR", "READDIR", "CLOSE"},
           x.op \in {"MKDIR", "REMOVE", "RMDIR", "RENAME", "POSIX_RENAME"} =>
               call'.op \in NameCalls
    PROVE  Poses(x)
BY DEF Poses, TreeOp

LEMMA AskPoses ==
    ASSUME NEW op, op \notin {"flush", "OPEN", "OPENDIR", "READDIR", "CLOSE"}, NEW arg, Ask(op, arg),
           op \in {"MKDIR", "REMOVE", "RMDIR", "RENAME", "POSIX_RENAME"} =>
               call'.op \in NameCalls
    PROVE  AllPosed
<1>1. \A x \in News' : x.op = op
    BY AskNews, RequestFields
<1> QED
    BY <1>1, OpsPose DEF AllPosed

\* The ways to open something.
LEMMA OpenPoses ==
    ASSUME NEW op \in {"OPEN", "OPENDIR"}, NEW arg, RPC(op, arg), Seeking',
           op = "OPEN" => call'.op = "open"
    PROVE  AllPosed
<1>1. PICK r : r = Request(1, op, arg)
    OBVIOUS
<1>2. r.op = op /\ Ticket(r).ser = r.ser
    BY <1>1, RequestFields, TicketFields
<1>3. News' = {r}
    BY <1>1, AskNews DEF RPC
<1>4. wait' = <<Ticket(r)>>
    BY <1>1 DEF RPC
<1>5. Due(r)'
    <2>1. PICK t : t = Ticket(r)
        OBVIOUS
    <2>2. wait'[1] = t /\ 1 \in DOMAIN wait'
        BY <1>4, <2>1, SmallSeqs
    <2> QED
        BY <2>1, <2>2 DEF Due, ToSet
<1>6. Poses(r)
    BY <1>2, <1>5 DEF Poses, TreeOp
<1> QED
    BY <1>3, <1>6 DEF AllPosed

LEMMA LeavePoses ==
    ASSUME NEW status, NEW val, NEW hs, IsSeq(hs), Leave(status, val, hs)
    PROVE  AllPosed /\ call'.op \in {"none", "return"} /\ UNCHANGED svars
           /\ result'.op = call.op /\ result'.path = call.path
<1>1. /\ call'.op \in {"none", "return"} /\ UNCHANGED svars
      /\ result'.op = call.op /\ result'.path = call.path
    BY OpsDiffer DEF Leave
<1>2. \A x \in News' : x.op = "CLOSE"
    BY LeaveNews
<1>3. \A x \in News' : Poses(x)
    BY <1>1, <1>2 DEF Poses, TreeOp, Seeking
<1> QED
    BY <1>1, <1>3 DEF AllPosed

LEMMA NonePosed ==
    ASSUME SftpInv, send = <<>>, send' = send
    PROVE  AllPosed
BY NoNews DEF AllPosed

LEMMA BeginIs ==
    ASSUME SftpInv, AllPosed, NEW op, op \notin {"none", "return", "rmdir"}, NEW p, NEW more,
           Begin(op, p, more), op \notin {"exists", "prefigure"} => UNCHANGED cache
    PROVE  Beginning
<1>1. call' = [op |-> op, path |-> p, more |-> more] /\ call = Idle
      /\ got = <<>> /\ got' = <<>> /\ wait = <<>>
    BY BeginDone
<1>2. call'.op = op
    BY <1>1
<1> QED
    BY <1>1, <1>2 DEF Beginning, Begin

LEMMA BeginsAre ==
    ASSUME SftpInv, StartCall
    PROVE  Beginning
<1>1. ASSUME NEW p, MkdirCall(p) PROVE Beginning
    <2>1. Begin("mkdir", p, "") /\ Ask("MKDIR", p) /\ UNCHANGED cache
        BY <1>1 DEF MkdirCall, RPC
    <2>2. call'.op = "mkdir"
        BY <2>1 DEF Begin
    <2> QED
        BY <2>1, <2>2, AskPoses, BeginIs DEF NameCalls
<1>2. ASSUME NEW p, RemoveCall(p) PROVE Beginning
    <2>1. Begin("remove", p, "") /\ Ask("REMOVE", p) /\ UNCHANGED cache
        BY <1>2 DEF RemoveCall, RPC
    <2>2. call'.op = "remove"
        BY <2>1 DEF Begin
    <2> QED
        BY <2>1, <2>2, AskPoses, BeginIs DEF NameCalls
<1>3. ASSUME NEW p, NEW q, RenameCall(p, q) PROVE Beginning
    <2>1. Begin("rename", p, q) /\ Ask(RenameOp, <<p, q>>) /\ UNCHANGED cache
        BY <1>3 DEF RenameCall, RPC
    <2>2. call'.op = "rename" /\ RenameOp \in {"RENAME", "POSIX_RENAME"}
        BY <2>1 DEF Begin, RenameOp
    <2> QED
        BY <2>1, <2>2, AskPoses, BeginIs DEF NameCalls
<1>4. ASSUME NEW p, PrefigureCall(p) PROVE Beginning
    <2>1. Begin("prefigure", p, "") /\ Ask("STAT", p)
        BY <1>4 DEF PrefigureCall
    <2> QED
        BY <2>1, AskPoses, BeginIs
<1>5. ASSUME NEW p, ExistsCall(p) PROVE Beginning
    <2>1. Begin("exists", p, "") /\ send' = send
        BY <1>5 DEF ExistsCall
    <2>2. send = <<>>
        BY <2>1, BeginDone
    <2> QED
        BY <2>1, <2>2, NonePosed, BeginIs
<1>6. ASSUME NEW p, NEW mode, OpenCall(p, mode) PROVE Beginning
    <2>1. Begin("open", p, mode) /\ RPC("OPEN", <<p, mode>>) /\ UNCHANGED cache
        BY <1>6 DEF OpenCall
    <2>2. call'.op = "open"
        BY <2>1 DEF Begin
    <2> QED
        BY <2>1, <2>2, OpenPoses, BeginIs DEF Seeking
<1>7. ASSUME NEW d, ContentsCall(d) PROVE Beginning
    <2>1. /\ Begin("contents", d, [id |-> NewId(1), handle |-> 0, names |-> {}])
          /\ RPC("OPENDIR", d) /\ UNCHANGED cache
        BY <1>7 DEF ContentsCall
    <2>2. PICK more : more = [id |-> NewId(1), handle |-> 0, names |-> {}]
        OBVIOUS
    <2>3. Begin("contents", d, more) /\ more.handle = 0
        BY <2>1, <2>2
    <2>4. call'.op = "contents" /\ call'.more.handle = 0
        BY <2>3 DEF Begin
    <2> QED
        BY <2>1, <2>3, <2>4, OpenPoses, BeginIs DEF Seeking
<1>8. ASSUME NEW n \in Space, ReadCall(n) PROVE Beginning
    <2>1. Begin("read", file.handle, n) /\ UNCHANGED cache
        BY <1>8, ZenonT(60) DEF ReadCall
    <2>2. PICK k : send' = [j \in 1..2*k |-> IF j % 2 = 1 THEN ReadAhead((j + 1) \div 2, n)
                                                          ELSE Flush]
        BY <1>8, ZenonT(60) DEF ReadCall
    <2>3. \A i : ReadAhead(i, n).op = "READ"
        BY RequestFields DEF ReadAhead
    <2>4. \A x \in News' : x.op = "READ"
        <3>1. Flush.op = "flush"
            BY DEF Flush
        <3> HIDE DEF ReadAhead
        <3>2. \A j \in DOMAIN send' : send'[j].op \in {"READ", "flush"}
            BY <2>2, <2>3, <3>1
        <3> QED
            BY <3>2 DEF News, Asking, Posed
    <2>5. AllPosed
        BY <2>4, OpsPose DEF AllPosed
    <2> QED
        BY <2>1, <2>5, BeginIs
<1>9. ASSUME NEW b, WriteCall(b) PROVE Beginning
    <2>1. Begin("write", file.handle, b) /\ UNCHANGED cache
          /\ Ask("WRITE", <<file.handle, file.offset, b>>)
        BY <1>9 DEF WriteCall, RPC
    <2> QED
        BY <2>1, AskPoses, BeginIs
<1>10. CASE CloseCall
    <2>1. /\ Begin("close", file.handle, "") /\ UNCHANGED cache
          /\ send' = <<Request(1, "CLOSE", file.handle)>>
        BY <1>10 DEF CloseCall
    <2>2. PICK r : r = Request(1, "CLOSE", file.handle)
        OBVIOUS
    <2>3. r.op = "CLOSE" /\ call'.op = "close"
        <3>1. r.op = "CLOSE"
            BY <2>2, RequestFields
        <3>2. call'.op = "close"
            BY <2>1 DEF Begin
        <3> QED
            BY <3>1, <3>2
    <2>4. send'[1] = r /\ DOMAIN send' = {1}
        BY <2>1, <2>2, SmallSeqs
    <2>5. News' = {r}
        BY <2>3, <2>4 DEF News, Asking, Posed
    <2>6. Poses(r)
        BY <2>3 DEF Poses, TreeOp, Seeking
    <2>7. AllPosed
        BY <2>5, <2>6 DEF AllPosed
    <2> QED
        BY <2>1, <2>7, BeginIs
<1>11. ASSUME NEW p \in Path, TypeCall(p) PROVE Beginning
    <2>1. Begin("type", p, "") /\ UNCHANGED cache
        BY <1>11, Zenon DEF TypeCall
    <2>2. call'.op = "type"
        BY <2>1 DEF Begin
    <2>3. PICK a, b, c :
             /\ a = Request(1, "OPEN", <<p, "ReadOnly">>) /\ b = Request(2, "OPENDIR", p)
             /\ c = Request(3, "READLINK", p)
        OBVIOUS
    <2>4. /\ send' = Append(<<a, b, c>>, Flush)
          /\ wait' = [i \in 1 .. 3 |-> Ticket(<<a, b, c>>[i])]
        <3> DEFINE u == Request(1, "OPEN", <<p, "ReadOnly">>)
                   v == Request(2, "OPENDIR", p)
                   w == Request(3, "READLINK", p)
        <3>1. /\ send' = Append(<<u, v, w>>, Flush)
              /\ wait' = [i \in 1 .. 3 |-> Ticket(<<u, v, w>>[i])]
            BY <1>11, Zenon DEF TypeCall
        <3>2. u = a /\ v = b /\ w = c
            BY <2>3
        <3> HIDE DEF u, v, w
        <3> QED
            BY <3>1, <3>2, Zenon
    <2>5. /\ a.op = "OPEN" /\ a.arg = <<p, "ReadOnly">> /\ b.op = "OPENDIR"
          /\ c.op = "READLINK" /\ Flush.op = "flush"
        BY <2>3, RequestFields DEF Flush
    <2>6. \A x \in News' : x \in {a, b, c}
        <3>1. send' = <<a, b, c, Flush>>
            BY <2>4, FourthElement
        <3>2. \A i \in DOMAIN send' : send'[i] \in {a, b, c, Flush}
            BY <3>1, SmallSeqs
        <3> QED
            BY <2>5, <3>2 DEF News, Asking, Posed
    <2>7. Due(a)' /\ Due(b)'
        <3>1. PICK t, u : t = Ticket(a) /\ u = Ticket(b)
            OBVIOUS
        <3>2. DOMAIN wait' = 1 .. 3 /\ wait'[1] = t /\ wait'[2] = u
            BY <2>4, <3>1
        <3>3. 1 \in DOMAIN wait' /\ 2 \in DOMAIN wait'
            BY <3>2
        <3> QED
            BY <3>1, <3>2, <3>3 DEF Due, ToSet
    <2>8. Poses(a) /\ Poses(b) /\ Poses(c)
        BY <2>2, <2>5, <2>7 DEF Poses, TreeOp, Seeking
    <2>9. AllPosed
        BY <2>6, <2>8 DEF AllPosed
    <2> QED
        BY <2>1, <2>9, BeginIs
<1> QED
    BY <1>1, <1>2, <1>3, <1>4, <1>5, <1>6, <1>7, <1>8, <1>9, <1>10, <1>11 DEF StartCall

LEMMA GoesOnAre ==
    ASSUME SftpInv, CallStep, ~ Rest
    PROVE  Going
<1>1. ASSUME NEW status, NEW val, NEW hs, IsSeq(hs), Leave(status, val, hs),
             call.op \notin Silent, asked' = asked, call.op # "exists" => UNCHANGED cache
      PROVE  Going
    BY <1>1, LeavePoses DEF Going
<1>2. ASSUME NEW status, NEW val, Leave(status, val, <<>>),
             call.op \notin Silent, asked' = asked, call.op # "exists" => UNCHANGED cache
      PROVE  Going
    BY <1>1, <1>2, SmallSeqs
<1>3. UNCHANGED cache => asked' = asked
    BY DEF cache
<1>4. CASE RenameFallback
    <2>1. /\ call.op = "rename" /\ call' = call /\ Ask("RENAME", <<call.path, call.more>>)
          /\ UNCHANGED <<svars, result>> /\ UNCHANGED cache
        BY <1>4 DEF RenameFallback, Replied, Again, RPC
    <2>2. AllPosed
        BY <2>1, AskPoses DEF NameCalls
    <2> QED
        BY <1>3, <2>1, <2>2 DEF Going, Silent
<1>5. CASE RemoveDir
    <2>1. /\ call.op = "remove" /\ call' = [call EXCEPT !.op = "rmdir"] /\ Ask("RMDIR", call.path)
          /\ UNCHANGED <<svars, result>> /\ UNCHANGED cache
        BY <1>5 DEF RemoveDir, Replied, Again, RPC
    <2>2. call'.op = "rmdir"
        BY <2>1 DEF SftpInv, Progress
    <2>3. AllPosed
        BY <2>1, <2>2, AskPoses DEF NameCalls
    <2> QED
        BY <1>3, <2>1, <2>2, <2>3 DEF Going, Silent
<1>6. CASE StatusReply
    <2>1. /\ call.op \in {"mkdir", "rename", "remove", "rmdir"} /\ UNCHANGED cache
          /\ Leave(Outcome, "", <<>>)
        BY <1>6 DEF StatusReply, Replied
    <2> QED
        BY <1>2, <1>3, <2>1 DEF Silent
<1>7. CASE ExistsReap \/ ExistsStore
    <2>1. /\ call.op = "exists" /\ call' = call /\ result' = result /\ asked' = asked
          /\ UNCHANGED svars /\ send = <<>> /\ send' = send
        BY <1>7 DEF ExistsReap, ExistsStore, Replied, Finished, cache
    <2> QED
        BY <2>1, NonePosed DEF Going, Silent
<1>8. CASE ExistsAnswer
    <2>1. call.op = "exists" /\ asked' = asked /\ Leave("OK", existence[call.path], <<>>)
        BY <1>8 DEF ExistsAnswer, ExistsLookup
    <2> QED
        BY <1>2, <2>1 DEF Silent
<1>9. CASE ExistsUncached
    <2>1. /\ call.op = "exists" /\ call' = call /\ result' = result /\ asked' = asked
          /\ UNCHANGED svars /\ Ask("STAT", call.path)
        BY <1>9 DEF ExistsUncached, ExistsLookup
    <2> QED
        BY <2>1, AskPoses DEF Going, Silent
<1>10. CASE ContentsReply
    <2>1. call.op = "contents" /\ UNCHANGED cache /\ DOMAIN call = {"op", "path", "more"}
        BY <1>10 DEF ContentsReply, Replied, SftpInv, Progress
    <2>2. ASSUME NEW more, NextBatch(more) PROVE Going
        <3> DEFINE q == [id |-> more.id, ser |-> serial + 1, op |-> "READDIR", arg |-> more.handle]
        <3>1. /\ send' = <<q, Flush>> /\ call' = [call EXCEPT !.more = more]
              /\ UNCHANGED <<svars, result>>
            BY <2>2 DEF NextBatch
        <3>2. q.op = "READDIR" /\ Flush.op = "flush"
            BY DEF Flush
        <3> HIDE DEF q
        <3>3. \A i \in DOMAIN send' : send'[i].op \in {"READDIR", "flush"}
            <4>1. DOMAIN send' = 1 .. 2 /\ send'[1] = q /\ send'[2] = Flush
                BY <3>1, SmallSeqs
            <4>2. \A i \in 1 .. 2 : i = 1 \/ i = 2
                OBVIOUS
            <4> QED
                BY <3>2, <4>1, <4>2
        <3>4. call'.op = "contents"
            BY <2>1, <3>1
        <3>5. \A x \in News' : Poses(x)
            BY <3>3, <3>4 DEF News, Asking, Posed, Poses, TreeOp
        <3> QED
            BY <1>3, <2>1, <3>1, <3>4, <3>5 DEF Going, AllPosed, Silent
    <2>3. \/ \E more : NextBatch(more)
          \/ \E status, val, hs : IsSeq(hs) /\ Leave(status, val, hs)
        BY <1>10, SmallSeqs DEF ContentsReply
    <2> QED
        BY <1>1, <1>3, <2>1, <2>2, <2>3 DEF Silent
<1>11. CASE TypeReply
    <2>1. call.op = "type" /\ UNCHANGED cache
        BY <1>11 DEF TypeReply, Replied
    <2>2. IsSeq(TypeHandles)
        <3> DEFINE h(i) == IF Answer(i).type = "HANDLE" THEN <<Answer(i).val>> ELSE <<>>
                   S == {Answer(1).val, Answer(2).val}
        <3>1. Answer(1).val \in S /\ Answer(2).val \in S
            OBVIOUS
        <3> HIDE DEF S
        <3>2. h(1) \in Seq(S) /\ h(2) \in Seq(S)
            BY <3>1, EmptySeq
        <3>3. h(1) \o h(2) \in Seq(S)
            BY <3>2, ConcatProperties
        <3>4. TypeHandles = h(1) \o h(2)
            BY DEF TypeHandles
        <3> QED
            BY <3>3, <3>4 DEF IsSeq
    <2> QED
        BY <1>1, <1>2, <1>3, <1>11, <2>1, <2>2 DEF TypeReply, Silent
<1>12. CASE OpenReply
    <2>1. call.op = "open" /\ UNCHANGED cache /\ \E status : Leave(status, "", <<>>)
        BY <1>12 DEF OpenReply, Replied
    <2> QED
        BY <1>2, <1>3, <2>1 DEF Silent
<1>13. CASE ReadBuffered \/ ReadReply
    <2>1. call.op = "read" /\ UNCHANGED cache /\ \E status, val : Leave(status, val, <<>>)
        BY <1>13 DEF ReadBuffered, ReadReply, Replied, Deliver
    <2> QED
        BY <1>2, <1>3, <2>1 DEF Silent
<1>14. CASE WriteReply
    <2>1. call.op = "write" /\ UNCHANGED cache /\ send = <<>>
        BY <1>14 DEF WriteReply, Replied, Finished
    <2>2. CASE \E status, val : Leave(status, val, <<>>)
        BY <1>2, <1>3, <2>1, <2>2 DEF Silent
    <2>3. CASE UNCHANGED <<svars, round, call, result>>
        <3>1. send' = send /\ call' = call /\ result' = result /\ UNCHANGED svars
            BY <2>3 DEF round
        <3> QED
            BY <1>3, <2>1, <3>1, NonePosed DEF Going, Silent
    <2> QED
        BY <1>14, <2>2, <2>3 DEF WriteReply
<1> QED
    BY <1>4, <1>5, <1>6, <1>7, <1>8, <1>9, <1>10, <1>11, <1>12, <1>13, <1>14 DEF CallStep, Rest

----------------------------------------------------------------------------
(***************************************************************************)
(* What calls do to what is known.                                         *)
(***************************************************************************)
LEMMA HandledTold ==
    ASSUME Before, Handled
    PROVE  /\ Posted' \subseteq Posted \cup News' /\ Told' \subseteq Told
           /\ serial \in Nat /\ serial' \in Nat /\ serial <= serial'
           /\ \A x \in News' : x.ser > serial /\ x.ser <= serial' /\ x.ser \in Nat
           /\ \A x \in Posted \cup Told : x.ser \in 1 .. serial
<1>1. SftpInv /\ HandleInv
    BY DEF Before
<1>2. \A x \in Posted \cup Told : x.ser \in 1 .. serial
    BY <1>1, PostedApart DEF HandleInv, Told
<1>3. serial \in Nat
    BY <1>1 DEF SftpInv, TypeOK
<1> QED
    BY <1>1, <1>2, <1>3, HandledPosted DEF Told

LEMMA WindowCalled ==
    ASSUME WindowInv, Beginning \/ Going
    PROVE  WindowInv'
<1>1. CASE Beginning
    BY <1>1 DEF WindowInv, Beginning
<1>2. CASE Going
    BY <1>2 DEF WindowInv, Going, svars
<1> QED
    BY <1>1, <1>2

LEMMA StandsGoing ==
    ASSUME Before, Handled, Going
    PROVE  Grows /\ \A s, op, arg : Stands(s, op, arg) => Stands(s, op, arg)'
<1>1. Grows
    BY DEF Going, Grows, Recorded, svars
<1>2. /\ serial \in Nat /\ serial' \in Nat /\ serial <= serial' /\ Told' \subseteq Told
      /\ \A x \in Posted' : x \in Posted \/ x.ser > serial
    BY HandledTold
<1> QED
    BY <1>1, <1>2, StandsStays

\* Of names that have been asked about, what is known is kept.
LEMMA StandsBegin ==
    ASSUME Before, Handled, Beginning, NEW p \in Path, p \in asked
    PROVE  /\ window'[p] = window[p] /\ (p \in refused => p \in refused')
           /\ \A s : Stands(s, "STAT", p) => Stands(s, "STAT", p)'
<1>1. window'[p] = window[p] /\ (p \in refused => p \in refused')
    BY DEF Beginning
<1>2. ASSUME NEW s, Stands(s, "STAT", p) PROVE Stands(s, "STAT", p)'
    <2>1. /\ serial \in Nat /\ serial' \in Nat /\ serial <= serial' /\ Told' \subseteq Told
          /\ \A x \in Posted' : x \in Posted \/ x.ser > serial
        BY HandledTold
    <2>2. s \in 1 .. serial' /\ s \in Int /\ s <= serial
        BY <1>2, <2>1 DEF Stands
    <2>3. \A r \in Posted' : r.ser = s => r.op = "STAT" /\ r.arg = p
        BY <1>2, <2>1, <2>2 DEF Stands
    <2>4. ASSUME NEW a \in Told', a.ser = s PROVE Truth("STAT", p, a)'
        <3>1. Truth("STAT", p, a)
            BY <1>2, <2>1, <2>4 DEF Stands
        <3>2. PICK v : v = (a.type = "ATTRS")
            OBVIOUS
        <3>3. StatTrue(p, v)
            BY <3>1, <3>2 DEF Truth
        <3>4. StatTrue(p, v)'
            BY <1>1, <3>3 DEF StatTrue, Was, WasNot
        <3>5. StatTrue(p, a.type = "ATTRS")'
            BY <3>2, <3>4 DEF StatTrue
        <3> QED
            BY <3>5 DEF Truth
    <2> QED
        BY <2>2, <2>3, <2>4 DEF Stands
<1> QED
    BY <1>1, <1>2

\* A new request: nobody has answered it.
LEMMA NewStands ==
    ASSUME Before, Handled, NEW r \in News'
    PROVE  /\ \A x \in Posted : x.ser # r.ser
           /\ \A x \in Told \cup Told' : x.ser # r.ser
           /\ (\A x \in News' : x.ser = r.ser => x = r) => Stands(r.ser, r.op, r.arg)'
<1>1. /\ Posted' \subseteq Posted \cup News' /\ Told' \subseteq Told
      /\ serial \in Nat /\ serial' \in Nat /\ r.ser > serial /\ r.ser <= serial' /\ r.ser \in Nat
      /\ \A x \in Posted \cup Told : x.ser \in 1 .. serial
    BY HandledTold
<1>2. /\ \A x \in Posted : x.ser # r.ser
      /\ \A x \in Told \cup Told' : x.ser # r.ser
    BY <1>1
<1>3. ASSUME \A x \in News' : x.ser = r.ser => x = r PROVE Stands(r.ser, r.op, r.arg)'
    <2>1. \A x \in Posted' : x.ser = r.ser => x.op = r.op /\ x.arg = r.arg
        BY <1>1, <1>2, <1>3
    <2>2. r.ser \in 1 .. serial'
        BY <1>1
    <2> QED
        BY <1>2, <2>1, <2>2 DEF Stands
<1> QED
    BY <1>2, <1>3

LEMMA AskStands ==
    ASSUME Before, Handled, NEW op, op # "flush", NEW arg, Ask(op, arg), NEW r, r = Request(1, op, arg)
    PROVE  /\ Stands(r.ser, op, arg)' /\ Ticket(r).ser = r.ser
           /\ \A x \in Posted : x.ser # r.ser
           /\ \A x \in Told' : x.ser # r.ser
<1>1. News' = {r} /\ r.op = op /\ r.arg = arg /\ Ticket(r).ser = r.ser
    BY AskNews, RequestFields, TicketFields
<1>2. Stands(r.ser, r.op, r.arg)' /\ \A x \in Posted \cup Told' : x.ser # r.ser
    BY <1>1, NewStands
<1>3. Stands(r.ser, op, arg)'
    BY <1>1, <1>2 DEF Stands
<1> QED
    BY <1>1, <1>2, <1>3

----------------------------------------------------------------------------
(***************************************************************************)
(* exists(), from step to step.                                            *)
(***************************************************************************)
\* What the cache is to tell of the names that its parts are about.
Inflight(e) == Stands(e.ticket.ser, "STAT", e.path) /\ Lately(e.path)

LEMMA ExistsBegins ==
    ASSUME Before, ExistsInv, Handled, StartCall, Beginning
    PROVE  ExistsInv'
<1>0. /\ SftpInv /\ call = Idle /\ call.op = "none" /\ result' = NoResult /\ wait = <<>> /\ got' = <<>>
      /\ \A p : Lately(p) => p \in asked
    BY OpsDiffer DEF Before, Beginning, Lately
<1>1. \A p \in Path : \A s : p \in asked /\ Stands(s, "STAT", p) => Stands(s, "STAT", p)'
    BY StandsBegin
<1>2. \A p \in Path : \A v : p \in asked /\ StatTrue(p, v) => StatTrue(p, v)'
    BY StandsBegin DEF StatTrue, Was, WasNot
<1>3. \A i \in DOMAIN inflight : inflight[i].path \in Path
    BY <1>0 DEF SftpInv, TypeOK
<1>4. DOMAIN existence \subseteq Path
    BY <1>0 DEF SftpInv, TypeOK
<1>5. NoResult.op = "none"
    BY DEF NoResult
<1>6. ASSUME UNCHANGED <<inflight, existence>>, \A p \in asked : Lately(p)',
             call'.op # "exists" \/ wait' = <<>>
      PROVE  ExistsInv'
    <2>1. ASSUME NEW i \in DOMAIN inflight
          PROVE  Stands(inflight[i].ticket.ser, "STAT", inflight[i].path)' /\ Lately(inflight[i].path)'
        <3>1. PICK s, p : s = inflight[i].ticket.ser /\ p = inflight[i].path
            OBVIOUS
        <3>2. Stands(s, "STAT", p) /\ p \in asked /\ p \in Path
            BY <1>0, <1>3, <3>1 DEF ExistsInv
        <3>3. Stands(s, "STAT", p)' /\ Lately(p)'
            BY <1>1, <1>6, <3>2
        <3>4. s = inflight'[i].ticket.ser /\ p = inflight'[i].path
            BY <1>6, <3>1
        <3> QED
            BY <3>3, <3>4 DEF Stands, Lately
    <2>2. ASSUME NEW p \in DOMAIN existence
          PROVE  StatTrue(p, existence[p])' /\ Lately(p)'
        <3>1. PICK v : v = existence[p]
            OBVIOUS
        <3>2. StatTrue(p, v)' /\ Lately(p)'
            BY <1>0, <1>2, <1>4, <1>6, <3>1 DEF ExistsInv
        <3> QED
            BY <1>6, <3>1, <3>2 DEF StatTrue
    <2> QED
        BY <1>0, <1>5, <1>6, <2>1, <2>2 DEF ExistsInv
<1>7. ASSUME call'.op \notin {"exists", "prefigure"}
      PROVE  ExistsInv'
    <2>1. UNCHANGED <<inflight, existence, asked>>
        BY <1>7 DEF Beginning, cache
    <2> QED
        BY <1>6, <1>7, <2>1 DEF Lately
<1>8. ASSUME NEW p \in Path, ExistsCall(p)
      PROVE  ExistsInv'
    <2>1. /\ asked' = asked \ {p} /\ UNCHANGED <<inflight, existence>> /\ wait' = wait
          /\ call' = [op |-> "exists", path |-> p, more |-> ""]
        BY <1>8 DEF ExistsCall, Begin
    <2>2. call'.op = "exists" /\ call'.path = p
        BY <2>1
    <2> QED
        BY <1>0, <1>6, <2>1, <2>2 DEF Lately
<1>9. ASSUME NEW p \in Path, PrefigureCall(p)
      PROVE  ExistsInv'
    <2>0. PICK r : r = Request(1, "STAT", p)
        OBVIOUS
    <2>1. /\ asked' = asked \cup {p} /\ existence' = existence /\ Ask("STAT", p)
          /\ inflight' = Append(inflight, [ticket |-> Ticket(r), path |-> p])
          /\ call' = [op |-> "prefigure", path |-> p, more |-> ""]
        BY <1>9, <2>0 DEF PrefigureCall, Begin
    <2>2. Stands(r.ser, "STAT", p)' /\ Ticket(r).ser = r.ser
        <3>1. PICK op, arg : op = "STAT" /\ arg = p
            OBVIOUS
        <3>2. op # "flush" /\ Ask(op, arg) /\ r = Request(1, op, arg)
            BY <2>0, <2>1, <3>1
        <3>3. Stands(r.ser, op, arg)'
            BY <3>2, AskStands
        <3>4. Ticket(r).ser = r.ser
            BY <3>2, AskStands
        <3> QED
            BY <3>1, <3>3, <3>4
    <2>3. PICK e : e = [ticket |-> Ticket(r), path |-> p]
        OBVIOUS
    <2>4. e.ticket.ser = r.ser /\ e.path = p
        BY <2>2, <2>3
    <2>5. /\ DOMAIN inflight' = DOMAIN inflight \cup {Len(inflight) + 1}
          /\ \A i \in DOMAIN inflight : inflight'[i] = inflight[i]
          /\ inflight'[Len(inflight) + 1] = e
        <3>1. IsSeq(inflight) /\ inflight' = Append(inflight, e)
            BY <1>0, <2>1, <2>3 DEF SftpInv, Shape
        <3> QED
            BY <3>1, AppendSeq
    <2>6. \A q \in asked \cup {p} : Lately(q)'
        BY <2>1 DEF Lately
    <2>7. ASSUME NEW i \in DOMAIN inflight'
          PROVE  Stands(inflight[i].ticket.ser, "STAT", inflight[i].path)' /\ Lately(inflight[i].path)'
        <3>1. PICK s, q : s = inflight'[i].ticket.ser /\ q = inflight'[i].path
            OBVIOUS
        <3>2. CASE i \in DOMAIN inflight
            <4>1. s = inflight[i].ticket.ser /\ q = inflight[i].path
                BY <2>5, <3>1, <3>2
            <4>2. Stands(s, "STAT", q) /\ q \in asked /\ q \in Path
                BY <1>0, <1>3, <3>2, <4>1 DEF ExistsInv
            <4>3. Stands(s, "STAT", q)' /\ Lately(q)'
                BY <1>1, <2>6, <4>2
            <4> QED
                BY <3>1, <4>3 DEF Stands, Lately
        <3>3. CASE i = Len(inflight) + 1
            <4>1. s = r.ser /\ q = p
                BY <2>4, <2>5, <3>1, <3>3
            <4>2. Stands(s, "STAT", q)' /\ Lately(q)'
                BY <2>2, <2>6, <4>1 DEF Stands
            <4> QED
                BY <3>1, <4>2 DEF Stands, Lately
        <3> QED
            BY <2>5, <3>2, <3>3
    <2>8. ASSUME NEW q \in DOMAIN existence
          PROVE  StatTrue(q, existence[q])' /\ Lately(q)'
        <3>1. PICK v : v = existence[q]
            OBVIOUS
        <3>2. StatTrue(q, v)' /\ Lately(q)'
            BY <1>0, <1>2, <1>4, <2>6, <3>1 DEF ExistsInv
        <3> QED
            BY <2>1, <3>1, <3>2 DEF StatTrue
    <2>9. call'.op # "exists"
        BY <2>1
    <2> QED
        BY <1>0, <1>5, <2>1, <2>7, <2>8, <2>9 DEF ExistsInv
<1>10. ASSUME ~ \E p \in Path : ExistsCall(p) \/ PrefigureCall(p)
       PROVE  call'.op \notin {"exists", "prefigure"}
    <2>1. \E op, p, more : op \notin {"exists", "prefigure"} /\ Begin(op, p, more)
        <3>1. ASSUME NEW p \in Path, TypeCall(p) PROVE Begin("type", p, "")
            BY <3>1, Zenon DEF TypeCall
        <3>2. ASSUME NEW n \in Space, ReadCall(n) PROVE Begin("read", file.handle, n)
            BY <3>2, ZenonT(60) DEF ReadCall
        <3>3. ASSUME \E p \in Path : MkdirCall(p) \/ RemoveCall(p) \/ \E q \in Path : RenameCall(p, q)
              PROVE  \E op, p, more : op \notin {"exists", "prefigure"} /\ Begin(op, p, more)
            BY <3>3 DEF MkdirCall, RemoveCall, RenameCall
        <3>4. ASSUME \/ \E p, mode : OpenCall(p, mode)
                     \/ \E d : ContentsCall(d)
                     \/ \E b : WriteCall(b)
                     \/ CloseCall
              PROVE  \E op, p, more : op \notin {"exists", "prefigure"} /\ Begin(op, p, more)
            BY <3>4 DEF OpenCall, ContentsCall, WriteCall, CloseCall
        <3> QED
            BY <1>10, <3>1, <3>2, <3>3, <3>4 DEF StartCall
    <2> QED
        BY <2>1 DEF Begin
<1> QED
    BY <1>7, <1>8, <1>9, <1>10

LEMMA ExistsGoes ==
    ASSUME Before, ExistsInv, NameInv, Handled, CallStep, ~ Rest, Going
    PROVE  ExistsInv'
<1>0. SftpInv /\ HandleInv /\ call.op \notin Silent /\ result.op = "none"
    BY DEF Before, Going, NameInv, Silent
<1>1. /\ Grows /\ UNCHANGED <<window, refused>> /\ asked' = asked
      /\ \A s, op, arg : Stands(s, op, arg) => Stands(s, op, arg)'
    BY StandsGoing DEF Going, svars
<1>2. \A p, v : StatTrue(p, v) => StatTrue(p, v)'
    BY <1>1 DEF StatTrue, Was, WasNot
<1>3. \A i \in DOMAIN inflight : inflight[i].path \in Path
    BY <1>0 DEF SftpInv, TypeOK
<1>4. DOMAIN existence \subseteq Path
    BY <1>0 DEF SftpInv, TypeOK
<1>5. ASSUME UNCHANGED existence, \A p : Lately(p) => Lately(p)'
      PROVE  \A p \in DOMAIN existence' : StatTrue(p, existence[p])' /\ Lately(p)'
    <2> SUFFICES ASSUME NEW p \in DOMAIN existence
                 PROVE  StatTrue(p, existence[p])' /\ Lately(p)'
        BY <1>5
    <2>1. PICK v : v = existence[p]
        OBVIOUS
    <2>2. StatTrue(p, v)' /\ Lately(p)'
        BY <1>2, <1>5, <2>1 DEF ExistsInv
    <2> QED
        BY <1>5, <2>1, <2>2 DEF StatTrue
<1>6. ASSUME UNCHANGED inflight, \A p : Lately(p) => Lately(p)'
      PROVE  \A i \in DOMAIN inflight' :
                Stands(inflight[i].ticket.ser, "STAT", inflight[i].path)' /\ Lately(inflight[i].path)'
    <2> SUFFICES ASSUME NEW i \in DOMAIN inflight
                 PROVE  Stands(inflight[i].ticket.ser, "STAT", inflight[i].path)'
                        /\ Lately(inflight[i].path)'
        BY <1>6
    <2>1. PICK s, p : s = inflight[i].ticket.ser /\ p = inflight[i].path
        OBVIOUS
    <2>2. Stands(s, "STAT", p)' /\ Lately(p)'
        BY <1>1, <1>6, <2>1 DEF ExistsInv
    <2>3. s = inflight'[i].ticket.ser /\ p = inflight'[i].path
        BY <1>6, <2>1
    <2> QED
        BY <2>2, <2>3 DEF Stands, Lately
<1>7. CASE call.op # "exists"
    <2>1. UNCHANGED <<inflight, existence>> /\ call'.op # "exists" /\ result'.op # "exists"
        BY <1>0, <1>7 DEF Going, cache
    <2>2. \A p : Lately(p) => Lately(p)'
        BY <1>1, <1>7 DEF Lately
    <2> QED
        BY <1>5, <1>6, <2>1, <2>2 DEF ExistsInv
<1>8. CASE ExistsReap
    <2>1. /\ call' = call /\ result' = result /\ UNCHANGED <<inflight, existence, serial>>
          /\ got' = <<>> /\ inflight # <<>> /\ wait' = <<Head(inflight).ticket>>
        BY <1>8 DEF ExistsReap, cache, link
    <2>2. \A p : Lately(p) => Lately(p)'
        BY <1>1, <2>1 DEF Lately
    <2>3. 1 \in DOMAIN inflight /\ Head(inflight) = inflight[1]
        BY <1>0, <2>1, TailSeq DEF SftpInv, Shape
    <2>4. PICK t : t = inflight[1].ticket
        OBVIOUS
    <2>5. t.ser \in 1 .. serial'
        BY <2>1, <2>3, <2>4 DEF ExistsInv, Stands
    <2>6. wait' = <<t>> /\ t.ser = inflight'[1].ticket.ser
        BY <2>1, <2>3, <2>4
    <2>7. \E u : wait' = <<u>> /\ u.ser = inflight'[1].ticket.ser
        BY <2>6
    <2>8. OneRequest(inflight[1].ticket.ser)'
        BY <2>1, <2>5, <2>6, <2>7 DEF OneRequest
    <2> QED
        BY <1>0, <1>5, <1>6, <2>1, <2>2, <2>8 DEF ExistsInv
<1>9. CASE ExistsStore
    <2>1. /\ call' = call /\ result' = result /\ got' = <<>> /\ wait' = <<>>
          /\ existence' = Put(existence, Head(inflight).path, Answer(1).type = "ATTRS")
          /\ inflight' = Tail(inflight) /\ call.op = "exists" /\ got # <<>>
        BY <1>9 DEF ExistsStore, Replied, Finished
    <2>2. \A p : Lately(p) => Lately(p)'
        BY <1>1, <2>1 DEF Lately
    <2>3. inflight # <<>> /\ OneRequest(inflight[1].ticket.ser)
        BY <2>1 DEF ExistsInv
    <2>4. /\ 1 \in DOMAIN inflight /\ Head(inflight) = inflight[1]
          /\ \A i \in DOMAIN inflight' : i + 1 \in DOMAIN inflight /\ inflight'[i] = inflight[i + 1]
        BY <1>0, <2>1, <2>3, TailSeq DEF SftpInv, Shape
    <2>5. PICK s, p, v : s = inflight[1].ticket.ser /\ p = inflight[1].path
                         /\ v = (Answer(1).type = "ATTRS")
        OBVIOUS
    <2>6. Answer(1) \in Taken /\ Answer(1).ser = s
        <3>1. Replied("exists") /\ OneRequest(s)
            BY <1>9, <2>3, <2>5 DEF ExistsStore
        <3> QED
            BY <1>0, <3>1, OnlyAnswer
    <2>7. Stands(s, "STAT", p) /\ Lately(p) /\ p \in Path
        BY <1>3, <2>4, <2>5 DEF ExistsInv
    <2>8. StatTrue(p, v)
        <3>1. Truth("STAT", p, Answer(1))
            BY <2>6, <2>7 DEF Stands, Told
        <3> QED
            BY <2>5, <2>7, <3>1 DEF Truth
    <2>9. /\ DOMAIN existence' = DOMAIN existence \cup {p}
          /\ \A q \in DOMAIN existence' : existence'[q] = IF q = p THEN v ELSE existence[q]
        BY <2>1, <2>4, <2>5 DEF Put
    <2>10. ASSUME NEW q \in DOMAIN existence'
           PROVE  StatTrue(q, existence[q])' /\ Lately(q)'
        <3>1. PICK w : w = existence'[q]
            OBVIOUS
        <3>2. StatTrue(q, w) /\ Lately(q)
            BY <2>7, <2>8, <2>9, <3>1 DEF ExistsInv
        <3>3. StatTrue(q, w)' /\ Lately(q)'
            BY <1>2, <2>2, <3>2
        <3> QED
            BY <3>1, <3>3 DEF StatTrue
    <2>11. ASSUME NEW i \in DOMAIN inflight'
           PROVE  Stands(inflight[i].ticket.ser, "STAT", inflight[i].path)' /\ Lately(inflight[i].path)'
        <3>1. PICK k, q : k = inflight'[i].ticket.ser /\ q = inflight'[i].path
            OBVIOUS
        <3>2. i + 1 \in DOMAIN inflight /\ inflight'[i] = inflight[i + 1]
            BY <2>4
        <3>3. Stands(k, "STAT", q) /\ Lately(q)
            BY <3>1, <3>2 DEF ExistsInv
        <3>4. Stands(k, "STAT", q)' /\ Lately(q)'
            BY <1>1, <2>2, <3>3
        <3> QED
            BY <3>1, <3>4 DEF Stands, Lately
    <2> QED
        BY <1>0, <2>1, <2>10, <2>11 DEF ExistsInv
<1>10. CASE ExistsAnswer
    <2>1. /\ existence' = RestrictDomain(existence, LAMBDA p : p # call.path)
          /\ inflight' = inflight /\ inflight = <<>> /\ call.path \in DOMAIN existence
          /\ Leave("OK", existence[call.path], <<>>) /\ call.op = "exists"
        BY <1>10 DEF ExistsAnswer, ExistsLookup, Forget
    <2>2. PICK p, v : p = call.path /\ v = existence[p]
        OBVIOUS
    <2>3. /\ result' = [op |-> call.op, path |-> p, more |-> call.more, status |-> "OK", val |-> v]
          /\ call'.op # "exists"
        BY <2>1, <2>2, LeavePoses, SmallSeqs DEF Leave
    <2>4. p \in Path /\ StatTrue(p, v)
        BY <1>4, <2>1, <2>2 DEF ExistsInv
    <2>5. result'.path = p /\ result'.val = v
        BY <2>3
    <2>6. result'.path \in Path /\ StatTrue(result.path, result.val)'
        <3>1. StatTrue(p, v)'
            BY <1>2, <2>4
        <3> QED
            BY <2>4, <2>5, <3>1 DEF StatTrue
    <2>7. /\ DOMAIN existence' = DOMAIN existence \ {p}
          /\ \A q \in DOMAIN existence' : existence'[q] = existence[q]
        BY <2>1, <2>2 DEF RestrictDomain, Restrict
    <2>8. ASSUME NEW q \in DOMAIN existence'
          PROVE  StatTrue(q, existence[q])' /\ Lately(q)'
        <3>1. PICK w : w = existence[q]
            OBVIOUS
        <3>2. StatTrue(q, w) /\ Lately(q) /\ q # p
            BY <2>7, <3>1 DEF ExistsInv
        <3>3. StatTrue(q, w)' /\ Lately(q)'
            BY <1>1, <1>2, <2>2, <3>2 DEF Lately
        <3> QED
            BY <2>7, <3>1, <3>3 DEF StatTrue
    <2>9. DOMAIN inflight' = {}
        BY <2>1, SmallSeqs
    <2> QED
        BY <2>3, <2>6, <2>8, <2>9 DEF ExistsInv
<1>11. CASE ExistsUncached
    <2>0. PICK p : p = call.path
        OBVIOUS
    <2>1. PICK r : r = Request(1, "STAT", p)
        OBVIOUS
    <2>2. /\ call' = call /\ result' = result /\ existence' = existence /\ Ask("STAT", p)
          /\ inflight' = <<[ticket |-> Ticket(r), path |-> p]>>
          /\ got' = <<>> /\ wait' = <<>> /\ call.op = "exists"
        BY <1>11, <2>0, <2>1 DEF ExistsUncached, ExistsLookup, Finished
    <2>3. Stands(r.ser, "STAT", p)' /\ Ticket(r).ser = r.ser
        <3>1. PICK op, arg : op = "STAT" /\ arg = p
            OBVIOUS
        <3>2. op # "flush" /\ Ask(op, arg) /\ r = Request(1, op, arg)
            BY <2>1, <2>2, <3>1
        <3>3. Stands(r.ser, op, arg)'
            BY <3>2, AskStands
        <3>4. Ticket(r).ser = r.ser
            BY <3>2, AskStands
        <3> QED
            BY <3>1, <3>3, <3>4
    <2>4. PICK e : e = [ticket |-> Ticket(r), path |-> p]
        OBVIOUS
    <2>5. e.ticket.ser = r.ser /\ e.path = p
        BY <2>3, <2>4
    <2>6. DOMAIN inflight' = {1} /\ inflight'[1] = e
        <3>1. inflight' = <<e>>
            BY <2>2, <2>4
        <3> QED
            BY <3>1, SmallSeqs
    <2>7. \A q : Lately(q) => Lately(q)'
        BY <1>1, <2>2 DEF Lately
    <2>8. Lately(p)'
        BY <2>0, <2>2 DEF Lately
    <2>9. ASSUME NEW i \in DOMAIN inflight'
          PROVE  Stands(inflight[i].ticket.ser, "STAT", inflight[i].path)' /\ Lately(inflight[i].path)'
        <3>1. inflight'[i].ticket.ser = r.ser /\ inflight'[i].path = p
            BY <2>5, <2>6
        <3> QED
            BY <2>3, <2>8, <3>1 DEF Stands, Lately
    <2> QED
        BY <1>0, <1>5, <2>2, <2>7, <2>9 DEF ExistsInv
<1>12. call.op = "exists" => ExistsReap \/ ExistsStore \/ ExistsAnswer \/ ExistsUncached
    BY DEF CallStep, Rest, RenameFallback, RemoveDir, StatusReply, ContentsReply, TypeReply,
           OpenReply, ReadBuffered, ReadReply, WriteReply, Replied
<1> QED
    BY <1>7, <1>8, <1>9, <1>10, <1>11, <1>12

----------------------------------------------------------------------------
(***************************************************************************)
(* Calls that change names, from step to step.                             *)
(***************************************************************************)
LEMMA RPCStands ==
    ASSUME Before, Handled, NEW op, op # "flush", NEW arg, RPC(op, arg), got' = <<>>
    PROVE  \E s \in 1 .. serial' :
              /\ OneRequest(s)' /\ Stands(s, op, arg)'
              /\ \A x \in Posted' : x \in Posted \/ (x.ser = s /\ x.op = op)
              /\ \A a \in Told' : a.ser # s
<1>1. PICK s \in 1 .. serial' :
         /\ OneRequest(s)'
         /\ \A x \in Posted' : x \in Posted \/ (x.op = op /\ x.arg = arg /\ x.ser = s)
         /\ \A x \in Posted : x.ser # s
         /\ \A x \in Received' \cup Taken' : x.ser # s
    BY FirstRequest DEF Before
<1>2. Stands(s, op, arg)'
    BY <1>1 DEF Stands, Told
<1> QED
    BY <1>1, <1>2 DEF Told

LEMMA TryingBegun ==
    ASSUME Before, Handled, NEW p, NEW ops, NEW op \in ops, op # "flush", NEW arg, RPC(op, arg),
           got' = <<>>, \A r \in Posted : ~ TreeOp(r),
           changes' = 0 /\ p \notin asked' => Steady(p)'
    PROVE  Trying(p, ops, arg)'
<1>1. PICK s \in 1 .. serial' :
         /\ OneRequest(s)' /\ Stands(s, op, arg)'
         /\ \A x \in Posted' : x \in Posted \/ (x.ser = s /\ x.op = op)
         /\ \A a \in Told' : a.ser # s
    BY RPCStands
<1>2. OnlyOwn(s)'
    BY <1>1 DEF OnlyOwn
<1> QED
    BY <1>1, <1>2 DEF Trying

LEMMA NameBegins ==
    ASSUME Before, NameInv, Handled, StartCall, Beginning
    PROVE  NameInv'
<1>0. /\ SftpInv /\ call.op = "none" /\ result' = NoResult /\ got' = <<>> /\ tree' = tree
      /\ window' = [q \in Path |-> IF q \in asked THEN window[q] ELSE {tree[q].kind}]
    BY OpsDiffer DEF Before, Beginning
<1>1. \A r \in Posted : ~ TreeOp(r)
    BY <1>0 DEF NameInv, NameCalls
<1>2. NoResult.op = "none"
    BY DEF NoResult
<1>3. \A p \in Path : p \notin asked => Steady(p)'
    BY <1>0 DEF Steady
<1>4. \A x \in Posted' : x \in Posted \/ (x \in News' /\ Poses(x))
    BY HandledTold DEF Beginning, AllPosed
<1>5. call'.op \notin NameCalls \cup {"open"} => \A r \in Posted' : ~ TreeOp(r)
    BY <1>1, <1>4 DEF Poses
<1>6. ASSUME call'.op \notin NameCalls \cup {"open"} PROVE NameInv'
    <2>2. result'.op \notin NameCalls /\ result'.op = "none" /\ call'.op \notin {"rename", "open"}
        BY <1>0, <1>2, <1>6 DEF NameCalls
    <2> QED
        BY <1>5, <1>6, <2>2 DEF NameInv
<1>7. ASSUME NEW p \in Path, NEW mode, OpenCall(p, mode) PROVE NameInv'
    <2>1. call' = [op |-> "open", path |-> p, more |-> mode] /\ RPC("OPEN", <<p, mode>>)
        BY <1>7 DEF OpenCall, Begin
    <2>2. PICK op, arg : op = "OPEN" /\ arg = <<p, mode>>
        OBVIOUS
    <2>3. op # "flush" /\ RPC(op, arg)
        BY <2>1, <2>2
    <2>4. PICK s \in 1 .. serial' :
             OneRequest(s)' /\ \A x \in Posted' : x \in Posted \/ (x.ser = s /\ x.op = op)
        BY <1>0, <2>3, RPCStands
    <2>5. OnlyOwn(s)'
        BY <1>1, <2>4 DEF OnlyOwn
    <2>6. call'.op = "open"
        BY <2>1
    <2> QED
        BY <1>0, <1>2, <2>4, <2>5, <2>6 DEF NameInv, NameCalls
<1>8. ASSUME NEW p \in Path, NEW op, NEW arg, NEW more, call' = [op |-> op, path |-> p, more |-> more],
             op \in NameCalls, op = "rename" => p # more, NEW rop, RPC(rop, arg),
             rop # "flush", UNCHANGED cache, rop \in NameOps', arg = NameArg'
      PROVE  NameInv'
    <2>1. asked' = asked
        BY <1>8 DEF cache
    <2>2. changes' = 0 /\ p \notin asked' => Steady(p)'
        BY <1>3, <2>1
    <2>3. PICK ops : ops = NameOps'
        OBVIOUS
    <2>4. Trying(p, ops, arg)'
        BY <1>0, <1>1, <1>8, <2>2, <2>3, TryingBegun
    <2>5. call'.op = op /\ call'.path = p /\ call'.more = more
        BY <1>8
    <2>6. Trying(call.path, NameOps, NameArg)'
        BY <1>8, <2>3, <2>4, <2>5 DEF Trying
    <2>7. /\ call'.op = "rename" => call'.path # call'.more
          /\ call'.op # "open" /\ call'.op \in NameCalls
          /\ result'.op = "none" /\ result'.op \notin NameCalls
        BY <1>0, <1>2, <1>8, <2>5 DEF NameCalls
    <2> QED
        BY <2>6, <2>7 DEF NameInv
<1>9. ASSUME NEW p \in Path, MkdirCall(p) PROVE NameInv'
    <2>1. /\ call' = [op |-> "mkdir", path |-> p, more |-> ""] /\ RPC("MKDIR", p) /\ UNCHANGED cache
        BY <1>9 DEF MkdirCall, Begin
    <2>2. PICK op, rop, more : op = "mkdir" /\ rop = "MKDIR" /\ more = ""
        OBVIOUS
    <2>3. /\ call' = [op |-> op, path |-> p, more |-> more] /\ RPC(rop, p)
          /\ op \in NameCalls /\ op # "rename" /\ rop # "flush"
        BY <2>1, <2>2 DEF NameCalls
    <2>4. rop \in NameOps' /\ p = NameArg'
        BY <2>1, <2>2 DEF NameOps, NameArg
    <2> QED
        BY <1>8, <2>1, <2>3, <2>4
<1>10. ASSUME NEW p \in Path, RemoveCall(p) PROVE NameInv'
    <2>1. /\ call' = [op |-> "remove", path |-> p, more |-> ""] /\ RPC("REMOVE", p) /\ UNCHANGED cache
        BY <1>10 DEF RemoveCall, Begin
    <2>2. PICK op, rop, more : op = "remove" /\ rop = "REMOVE" /\ more = ""
        OBVIOUS
    <2>3. /\ call' = [op |-> op, path |-> p, more |-> more] /\ RPC(rop, p)
          /\ op \in NameCalls /\ op # "rename" /\ rop # "flush"
        BY <2>1, <2>2 DEF NameCalls
    <2>4. rop \in NameOps' /\ p = NameArg'
        BY <2>1, <2>2 DEF NameOps, NameArg
    <2> QED
        BY <1>8, <2>1, <2>3, <2>4
<1>11. ASSUME NEW p \in Path, NEW q \in Path \ {p}, RenameCall(p, q) PROVE NameInv'
    <2>1. /\ call' = [op |-> "rename", path |-> p, more |-> q] /\ RPC(RenameOp, <<p, q>>)
          /\ UNCHANGED cache
        BY <1>11 DEF RenameCall, Begin
    <2>2. PICK rop, arg : rop = RenameOp /\ arg = <<p, q>>
        OBVIOUS
    <2>3. rop \in {"RENAME", "POSIX_RENAME"}
        BY <2>2 DEF RenameOp
    <2>4. rop \in NameOps' /\ arg = NameArg'
        BY <2>1, <2>2, <2>3 DEF NameOps, NameArg
    <2>5. RPC(rop, arg) /\ rop # "flush"
        BY <2>1, <2>2, <2>3
    <2> QED
        BY <1>8, <2>1, <2>4, <2>5 DEF NameCalls
<1>12. ASSUME /\ ~ \E p \in Path : \/ MkdirCall(p) \/ RemoveCall(p)
                                   \/ \E q \in Path \ {p} : RenameCall(p, q)
                                   \/ \E mode : OpenCall(p, mode)
       PROVE  call'.op \notin NameCalls \cup {"open"}
    <2>1. \E op, p, more : op \notin NameCalls \cup {"open"} /\ Begin(op, p, more)
        <3>1. ASSUME NEW p \in Path, TypeCall(p) PROVE Begin("type", p, "")
            BY <3>1, Zenon DEF TypeCall
        <3>2. ASSUME NEW n \in Space, ReadCall(n) PROVE Begin("read", file.handle, n)
            BY <3>2, ZenonT(60) DEF ReadCall
        <3>3. ASSUME \/ \E p : PrefigureCall(p) \/ ExistsCall(p)
                     \/ \E d : ContentsCall(d)
                     \/ \E b : WriteCall(b)
                     \/ CloseCall
              PROVE  \E op, p, more : op \notin NameCalls \cup {"open"} /\ Begin(op, p, more)
            BY <3>3 DEF PrefigureCall, ExistsCall, ContentsCall, WriteCall, CloseCall, NameCalls
        <3> QED
            BY <1>12, <3>1, <3>2, <3>3 DEF StartCall, NameCalls
    <2> QED
        BY <2>1 DEF Begin
<1> QED
    BY <1>6, <1>7, <1>9, <1>10, <1>11, <1>12

LEMMA NameGoes ==
    ASSUME Before, NameInv, Handled, CallStep, ~ Rest, Going
    PROVE  NameInv'
<1>0. SftpInv /\ HandleInv /\ call.op \notin Silent /\ result.op = "none"
    BY DEF Before, Going, NameInv, Silent
<1>1. /\ UNCHANGED <<tree, window, handles, changes>> /\ asked' = asked
      /\ \A s, op, arg : Stands(s, op, arg) => Stands(s, op, arg)'
    BY StandsGoing DEF Going, svars
<1>2. \A x \in Posted' : x \in Posted \/ (x \in News' /\ Poses(x))
    BY HandledTold DEF Going, AllPosed
<1>3. CASE call.op \notin NameCalls \cup {"open"}
    <2>1. call'.op \notin NameCalls \cup {"open"}
        BY <1>3 DEF Going, NameCalls
    <2>2. \A r \in Posted' : ~ TreeOp(r)
        BY <1>2, <1>3, <2>1 DEF NameInv, Poses
    <2>3. result'.op \notin NameCalls /\ (call'.op \notin {"none", "return"} => result'.op = "none")
        BY <1>0, <1>3 DEF Going, NameCalls
    <2> QED
        BY <2>1, <2>2, <2>3 DEF NameInv, NameCalls
<1>4. CASE OpenReply
    <2>1. Replied("open") /\ call.op = "open" /\ \E status : Leave(status, "", <<>>)
        BY <1>4 DEF OpenReply, Replied
    <2>2. News' = {} /\ call' = Idle /\ result'.op = "open"
        <3>1. PICK status : Leave(status, "", <<>>)
            BY <2>1
        <3>2. result'.op = call.op
            BY <3>1, SmallSeqs, LeavePoses
        <3> QED
            BY <2>1, <3>1, <3>2, EndedNews
    <2>3. PICK s \in 1 .. serial : OneRequest(s) /\ OnlyOwn(s)
        BY <2>1 DEF NameInv
    <2>4. \A r \in Posted : ~ TreeOp(r)
        BY <1>0, <2>1, <2>3, OnlyAnswer DEF OnlyOwn
    <2>5. \A r \in Posted' : ~ TreeOp(r)
        BY <1>2, <2>2, <2>4
    <2> QED
        BY <2>2, <2>5, OpsDiffer DEF NameInv, NameCalls
\* The answer that a call to change names has got.
<1>5. ASSUME call.op \in NameCalls, Replied(call.op)
      PROVE  \E op \in NameOps, a \in Taken :
                /\ a = Answer(1) /\ Truth(op, NameArg, a) /\ \A r \in Posted : ~ TreeOp(r)
                /\ changes = 0 /\ call.path \notin asked /\ a.val # "OK" => Steady(call.path)
    <2>1. PICK s \in 1 .. serial, op \in NameOps :
             /\ OneRequest(s) /\ OnlyOwn(s) /\ Stands(s, op, NameArg)
             /\ changes = 0 /\ call.path \notin asked =>
                   \A a \in Told : a.ser = s /\ a.val # "OK" => Steady(call.path)
        BY <1>5 DEF NameInv, Trying
    <2>2. Answer(1) \in Taken /\ Answer(1).ser = s /\ \A x \in Posted : x.ser # s
        BY <1>0, <1>5, <2>1, OnlyAnswer
    <2>3. Truth(op, NameArg, Answer(1))
        BY <2>1, <2>2 DEF Stands, Told
    <2>4. \A r \in Posted : ~ TreeOp(r)
        BY <2>1, <2>2 DEF OnlyOwn
    <2>5. changes = 0 /\ call.path \notin asked /\ Answer(1).val # "OK" => Steady(call.path)
        BY <2>1, <2>2 DEF Told
    <2> QED
        BY <2>1, <2>2, <2>3, <2>4, <2>5
<1>6. \A p : Steady(p) => Steady(p)'
    BY <1>1 DEF Steady
<1>7. CASE RenameFallback
    <2>1. /\ call.op = "rename" /\ Replied(call.op) /\ Says(Answer(1), "OP_UNSUPPORTED") /\ call' = call
          /\ RPC("RENAME", <<call.path, call.more>>) /\ got' = <<>> /\ result' = result
        BY <1>7 DEF RenameFallback, Replied, Again
    <2>2. PICK p, op, arg, ops : /\ p = call.path /\ op = "RENAME" /\ arg = <<call.path, call.more>>
                                 /\ ops = {"RENAME", "POSIX_RENAME"}
        OBVIOUS
    <2>3. /\ \A r \in Posted : ~ TreeOp(r)
          /\ changes = 0 /\ p \notin asked => Steady(p)
        <3>1. PICK a : /\ a = Answer(1) /\ \A r \in Posted : ~ TreeOp(r)
                       /\ changes = 0 /\ call.path \notin asked /\ a.val # "OK" => Steady(call.path)
            BY <1>5, <2>1 DEF NameCalls
        <3>2. a.val # "OK"
            BY <2>1, <3>1 DEF Says
        <3> QED
            BY <2>2, <3>1, <3>2
    <2>4. changes' = 0 /\ p \notin asked' => Steady(p)'
        BY <1>1, <1>6, <2>3
    <2>5. RPC(op, arg) /\ op # "flush" /\ op \in ops
        BY <2>1, <2>2
    <2>6. Trying(p, ops, arg)'
        BY <2>1, <2>3, <2>4, <2>5, TryingBegun
    <2>7. p = call'.path /\ arg = NameArg' /\ ops = NameOps'
        BY <2>1, <2>2 DEF NameArg, NameOps
    <2>8. Trying(call.path, NameOps, NameArg)'
        BY <2>6, <2>7 DEF Trying
    <2>9. call'.path # call'.more
        BY <2>1 DEF NameInv
    <2> QED
        BY <1>0, <2>1, <2>8, <2>9 DEF NameInv, NameCalls
<1>8. CASE RemoveDir
    <2>1. /\ call.op = "remove" /\ Replied(call.op) /\ Says(Answer(1), "FAILURE")
          /\ call' = [call EXCEPT !.op = "rmdir"]
          /\ RPC("RMDIR", call.path) /\ got' = <<>> /\ result' = result
        BY <1>8 DEF RemoveDir, Replied, Again
    <2>2. PICK p, op, ops : p = call.path /\ op = "RMDIR" /\ ops = {"RMDIR"}
        OBVIOUS
    <2>3. /\ \A r \in Posted : ~ TreeOp(r)
          /\ changes = 0 /\ p \notin asked => Steady(p)
        <3>1. PICK a : /\ a = Answer(1) /\ \A r \in Posted : ~ TreeOp(r)
                       /\ changes = 0 /\ call.path \notin asked /\ a.val # "OK" => Steady(call.path)
            BY <1>5, <2>1 DEF NameCalls
        <3>2. a.val # "OK"
            BY <2>1, <3>1 DEF Says
        <3> QED
            BY <2>2, <3>1, <3>2
    <2>4. changes' = 0 /\ p \notin asked' => Steady(p)'
        BY <1>1, <1>6, <2>3
    <2>5. RPC(op, p) /\ op # "flush" /\ op \in ops
        BY <2>1, <2>2
    <2>6. Trying(p, ops, p)'
        BY <2>1, <2>3, <2>4, <2>5, TryingBegun
    <2>7. call'.op = "rmdir" /\ call'.path = p
        BY <1>0, <2>1, <2>2 DEF SftpInv, Progress
    <2>8. p = NameArg' /\ ops = NameOps'
        BY <2>2, <2>7 DEF NameArg, NameOps
    <2>9. Trying(call.path, NameOps, NameArg)'
        BY <2>6, <2>7, <2>8 DEF Trying
    <2> QED
        BY <1>0, <2>1, <2>7, <2>9 DEF NameInv, NameCalls
<1>9. CASE StatusReply
    <2>1. /\ call.op \in NameCalls /\ Replied(call.op) /\ Leave(Outcome, "", <<>>)
        BY <1>9 DEF StatusReply, Replied, NameCalls
    <2>2. PICK op \in NameOps, a \in Taken :
             /\ a = Answer(1) /\ Truth(op, NameArg, a) /\ \A r \in Posted : ~ TreeOp(r)
             /\ changes = 0 /\ call.path \notin asked /\ a.val # "OK" => Steady(call.path)
        BY <1>5, <2>1
    <2>3. News' = {} /\ call' = Idle
        BY <2>1, EndedNews
    <2>4. \A r \in Posted' : ~ TreeOp(r)
        BY <1>2, <2>2, <2>3
    <2>5. PICK p, q, o : p = call.path /\ q = call.more /\ o = call.op
        OBVIOUS
    <2>6. /\ result'.op = o /\ result'.path = p /\ result'.more = q /\ result'.status = a.val
        BY <2>1, <2>2, <2>5 DEF Leave, Outcome
    <2>7. p \in Path /\ (o = "rename" => q \in Path /\ p # q)
        BY <1>0, <2>1, <2>5 DEF SftpInv, Progress, NameCalls, NameInv
    <2>8. ASSUME a.val = "OK"
          PROVE  /\ o = "mkdir" => Was(p, "dir")
                 /\ o # "mkdir" => Was(p, "none") /\ WasNot(p, "none")
                 /\ o = "rename" => \E k \in window[p] \cap window[q] : k # "none"
        <3>1. CASE o = "mkdir"
            BY <2>2, <2>5, <2>7, <2>8, <3>1 DEF NameOps, NameArg, Truth
        <3>2. CASE o \in {"remove", "rmdir"}
            BY <2>2, <2>5, <2>7, <2>8, <3>2 DEF NameOps, NameArg, Truth
        <3>3. CASE o = "rename"
            <4>1. NameArg[1] = p /\ NameArg[2] = q /\ op \in {"RENAME", "POSIX_RENAME"}
                BY <2>2, <2>5, <3>3 DEF NameArg, NameOps
            <4>2. Was(p, "none") /\ \E k \in window[p] \cap window[q] : k # "none"
                BY <2>2, <2>7, <2>8, <3>3, <4>1 DEF Truth
            <4>3. WasNot(p, "none")
                BY <4>2 DEF WasNot
            <4> QED
                BY <3>3, <4>2, <4>3
        <3> QED
            BY <2>1, <2>5, <3>1, <3>2, <3>3 DEF NameCalls
    <2>9. /\ a.val = "OK" =>
                /\ o = "mkdir" => Was(p, "dir")'
                /\ o # "mkdir" => Was(p, "none")' /\ WasNot(p, "none")'
                /\ o = "rename" => \E k \in window'[p] \cap window'[q] : k # "none"
          /\ changes' = 0 /\ p \notin asked' /\ a.val # "OK" => Steady(p)'
        BY <1>1, <1>6, <2>2, <2>5, <2>8 DEF Was, WasNot
    <2>10. result'.op \in NameCalls =>
              /\ result'.path \in Path /\ (result'.op = "rename" => result'.more \in Path)
              /\ result'.status = "OK" =>
                    /\ result'.op = "mkdir" => Was(result.path, "dir")'
                    /\ result'.op # "mkdir" =>
                          Was(result.path, "none")' /\ WasNot(result.path, "none")'
                    /\ result'.op = "rename" =>
                          \E k \in window'[result'.path] \cap window'[result'.more] : k # "none"
              /\ result'.status # "OK" /\ changes' = 0 /\ result'.path \notin asked' =>
                    Steady(result.path)'
        BY <2>6, <2>7, <2>9 DEF Was, WasNot, Steady
    <2>11. call'.op = "none"
        BY <2>3, OpsDiffer
    <2> QED
        BY <2>4, <2>10, <2>11 DEF NameInv, NameCalls
<1>10. call.op \in NameCalls \cup {"open"} => RenameFallback \/ RemoveDir \/ StatusReply \/ OpenReply
    BY DEF CallStep, Rest, ExistsReap, ExistsStore, ExistsAnswer, ExistsUncached, ExistsLookup,
           ContentsReply, TypeReply, ReadBuffered, ReadReply, WriteReply, Replied, NameCalls
<1> QED
    BY <1>3, <1>4, <1>7, <1>8, <1>9, <1>10

----------------------------------------------------------------------------
(***************************************************************************)
(* type(), from step to step.                                              *)
(***************************************************************************)
LEMMA TypeBegins ==
    ASSUME Before, TypeInv, Handled, StartCall, Beginning
    PROVE  TypeInv'
<1>1. result'.op = "none"
    BY DEF Beginning, NoResult
<1>2. ASSUME call'.op # "type" PROVE TypeInv'
    BY <1>1, <1>2 DEF TypeInv
<1>3. ASSUME ~ \E p \in Path : TypeCall(p) PROVE call'.op # "type"
    <2>1. \E op, p, more : op # "type" /\ Begin(op, p, more)
        <3>2. ASSUME NEW n \in Space, ReadCall(n) PROVE Begin("read", file.handle, n)
            BY <3>2, ZenonT(60) DEF ReadCall
        <3>3. ASSUME \/ \E p : \/ MkdirCall(p) \/ RemoveCall(p) \/ PrefigureCall(p) \/ ExistsCall(p)
                               \/ \E q : RenameCall(p, q)
                               \/ \E mode : OpenCall(p, mode)
                     \/ \E d : ContentsCall(d)
                     \/ \E b : WriteCall(b)
                     \/ CloseCall
              PROVE  \E op, p, more : op # "type" /\ Begin(op, p, more)
            BY <3>3 DEF MkdirCall, RemoveCall, RenameCall, OpenCall, PrefigureCall, ExistsCall,
                        ContentsCall, WriteCall, CloseCall
        <3> QED
            BY <1>3, <3>2, <3>3 DEF StartCall
    <2> QED
        BY <2>1 DEF Begin
<1>4. ASSUME NEW p \in Path, TypeCall(p) PROVE TypeInv'
    <2>1. Begin("type", p, "")
        BY <1>4, Zenon DEF TypeCall
    <2>2. call'.op = "type" /\ call'.path = p /\ got' = <<>>
        BY <2>1 DEF Begin, Beginning
    <2>3. PICK a, b, c :
             /\ a = Request(1, "OPEN", <<p, "ReadOnly">>) /\ b = Request(2, "OPENDIR", p)
             /\ c = Request(3, "READLINK", p)
        OBVIOUS
    <2>4. /\ send' = Append(<<a, b, c>>, Flush)
          /\ wait' = [i \in 1 .. 3 |-> Ticket(<<a, b, c>>[i])]
        <3> DEFINE u == Request(1, "OPEN", <<p, "ReadOnly">>)
                   v == Request(2, "OPENDIR", p)
                   w == Request(3, "READLINK", p)
        <3>1. /\ send' = Append(<<u, v, w>>, Flush)
              /\ wait' = [i \in 1 .. 3 |-> Ticket(<<u, v, w>>[i])]
            BY <1>4, Zenon DEF TypeCall
        <3>2. u = a /\ v = b /\ w = c
            BY <2>3
        <3> HIDE DEF u, v, w
        <3> QED
            BY <3>1, <3>2, Zenon
    <2>5. PICK s : s = serial
        OBVIOUS
    <2>6. /\ a.op = "OPEN" /\ a.arg = <<p, "ReadOnly">> /\ a.ser = s + 1
          /\ b.op = "OPENDIR" /\ b.arg = p /\ b.ser = s + 2
          /\ c.op = "READLINK" /\ c.arg = p /\ c.ser = s + 3
          /\ Flush.op = "flush"
        <3>1. a.op = "OPEN" /\ a.arg = <<p, "ReadOnly">> /\ a.ser = s + 1
            BY <2>3, <2>5, RequestFields
        <3>2. b.op = "OPENDIR" /\ b.arg = p /\ b.ser = s + 2
            BY <2>3, <2>5, RequestFields
        <3>3. c.op = "READLINK" /\ c.arg = p /\ c.ser = s + 3
            BY <2>3, <2>5, RequestFields
        <3> QED
            BY <3>1, <3>2, <3>3 DEF Flush
    <2>7. /\ send' = <<a, b, c, Flush>>
        BY <2>4, FourthElement
    <2>8. /\ DOMAIN send' = 1 .. 4 /\ send'[1] = a /\ send'[2] = b /\ send'[3] = c /\ send'[4] = Flush
        BY <2>7, SmallSeqs
    <2>9. News' = {a, b, c}
        <3>1. 1 \in DOMAIN send' /\ 2 \in DOMAIN send' /\ 3 \in DOMAIN send'
            BY <2>8
        <3>2. \A i \in DOMAIN send' : send'[i] \in {a, b, c, Flush}
            BY <2>7, SmallSeqs
        <3> QED
            BY <2>6, <2>8, <3>1, <3>2 DEF News, Asking, Posed
    <2>10. s \in Nat /\ s \in 0 .. serial' /\ \A x \in Told' : x.ser \in 1 .. s
        BY <2>5, HandledTold
    <2>11. Stands(a.ser, a.op, a.arg)' /\ Stands(b.ser, b.op, b.arg)' /\ Stands(c.ser, c.op, c.arg)'
        <3>1. \A x, y \in News' : x.ser = y.ser => x = y
            BY <2>6, <2>9, <2>10
        <3> QED
            BY <2>9, <3>1, NewStands
    <2>12. /\ Stands(s + 1, "OPEN", <<call.path, "ReadOnly">>)'
           /\ Stands(s + 2, "OPENDIR", call.path)'
           /\ Stands(s + 3, "READLINK", call.path)'
        BY <2>2, <2>6, <2>11 DEF Stands
    <2>13. Three(s)'
        <3>1. DOMAIN got' = {} /\ Len(got') = 0
            BY <2>2, SmallSeqs, SeqLength
        <3>2. PICK t, u, v : t = Ticket(a) /\ u = Ticket(b) /\ v = Ticket(c)
            OBVIOUS
        <3>3. t.ser = s + 1 /\ u.ser = s + 2 /\ v.ser = s + 3
            BY <2>6, <3>2, TicketFields
        <3>4. DOMAIN wait' = 1 .. 3 /\ wait'[1] = t /\ wait'[2] = u /\ wait'[3] = v
            BY <2>4, <3>2
        <3>5. ASSUME NEW i \in DOMAIN wait' PROVE wait'[i].ser = s + Len(got') + i
            <4>1. i = 1 \/ i = 2 \/ i = 3
                BY <3>4
            <4> QED
                BY <2>10, <3>1, <3>3, <3>4, <4>1
        <3> QED
            BY <3>1, <3>5 DEF Three
    <2>14. Unmoved(s, call.path)'
        <3>1. \A x \in Told' : x.ser # s + 1 /\ x.ser # s + 2
            BY <2>10
        <3> QED
            BY <3>1 DEF Unmoved
    <2> QED
        BY <1>1, <2>2, <2>10, <2>12, <2>13, <2>14 DEF TypeInv
<1> QED
    BY <1>2, <1>3, <1>4

LEMMA TypeGoes ==
    ASSUME Before, TypeInv, NameInv, Handled, CallStep, ~ Rest, Going
    PROVE  TypeInv'
<1>0. SftpInv /\ HandleInv /\ call.op \notin Silent /\ result.op = "none"
    BY DEF Before, Going, NameInv, Silent
<1>1. UNCHANGED window
    BY DEF Going, svars
<1>2. CASE call.op # "type"
    BY <1>0, <1>2 DEF Going, TypeInv
<1>3. CASE TypeReply
    <2>1. call.op = "type" /\ wait = <<>> /\ IsSeq(got)
        BY <1>0, <1>3 DEF TypeReply, Replied, Finished, SftpInv, Shape
    <2>2. 1 \in DOMAIN got /\ 2 \in DOMAIN got /\ 3 \in DOMAIN got
        <3>1. Len(wait) = 0 /\ Len(got) \in Nat /\ Len(wait) + Len(got) = 3
            BY <1>0, <2>1, SmallSeqs, SeqLength DEF HandleInv
        <3> QED
            BY <2>1, <3>1, SeqLength
    <2>3. PICK p : p = call.path /\ p \in Path
        BY <1>0, <2>1 DEF SftpInv, Progress
    <2>4. PICK s \in 0 .. serial :
             /\ Three(s)
             /\ Stands(s + 1, "OPEN", <<p, "ReadOnly">>)
             /\ Stands(s + 2, "OPENDIR", p)
             /\ Stands(s + 3, "READLINK", p)
        BY <2>1, <2>3 DEF TypeInv
    <2>5. PICK a, b, c : a = Answer(1) /\ b = Answer(2) /\ c = Answer(3)
        OBVIOUS
    <2>6. /\ a \in Told /\ a.ser = s + 1 /\ b \in Told /\ b.ser = s + 2 /\ c \in Told /\ c.ser = s + 3
        BY <2>2, <2>4, <2>5 DEF Answer, Three, Told, Taken
    <2>7. Truth("OPEN", <<p, "ReadOnly">>, a) /\ Truth("OPENDIR", p, b) /\ Truth("READLINK", p, c)
        BY <2>4, <2>6 DEF Stands
    <2>8. /\ Says(a, "NO_SUCH_FILE") => Was(p, "none") \/ Was(p, "link")
          /\ "OPEN" \notin Faults /\ ~ Says(a, "NO_SUCH_FILE") => WasNot(p, "none")
          /\ "OPEN" \notin Faults /\ a.type # "HANDLE" => WasNot(p, "file")
        <3>1. PICK arg : arg = <<p, "ReadOnly">>
            OBVIOUS
        <3>2. arg[1] = p /\ arg[2] = "ReadOnly" /\ Truth("OPEN", arg, a)
            BY <2>7, <3>1
        <3> QED
            BY <2>3, <3>2 DEF Truth
    <2>9. /\ b.type = "HANDLE" => Was(p, "dir")
          /\ "OPENDIR" \notin Faults /\ b.type # "HANDLE" => WasNot(p, "dir")
        BY <2>3, <2>7 DEF Truth
    <2>10. /\ c.type = "NAME" => Was(p, "link")
           /\ "READLINK" \notin Faults /\ c.type # "NAME" => WasNot(p, "link")
        BY <2>3, <2>7 DEF Truth
    <2>11. \A k, l : Was(p, k) /\ l # k => WasNot(p, l)
        BY DEF Was, WasNot
    <2>12. ASSUME Deducible, ~ Says(a, "NO_SUCH_FILE"), NEW k \in Kind
           PROVE  TypeDeduced = k \/ WasNot(p, k)
        <3>1. "OPEN" \notin Faults /\ "OPENDIR" \notin Faults /\ "READLINK" \notin Faults
            BY <2>12 DEF Deducible
        <3>2. k \in {"none", "file", "dir", "link"}
            BY ServerAssumption
        <3> QED
            BY <2>5, <2>8, <2>9, <2>10, <2>11, <2>12, <3>1, <3>2 DEF TypeDeduced
    <2>13. ASSUME NEW status, NEW val, NEW hs, IsSeq(hs), Leave(status, val, hs)
           PROVE  /\ result'.op = "type" /\ result'.path = p /\ result'.status = status
                  /\ result'.val = val /\ call'.op # "type"
        <3>1. call'.op \in {"none", "return"}
            BY <2>13, LeavePoses
        <3> QED
            BY <2>1, <2>3, <2>13, <3>1 DEF Leave
    <2>14. CASE Says(a, "NO_SUCH_FILE") /\ Leave("NO_SUCH_FILE", "", <<>>)
        <3>1. /\ result'.op = "type" /\ result'.path = p /\ result'.status = "NO_SUCH_FILE"
              /\ call'.op # "type"
            BY <2>13, <2>14, SmallSeqs
        <3>2. Was(result.path, "none")' \/ Was(result.path, "link")'
            BY <1>1, <2>8, <2>14, <3>1 DEF Was
        <3> QED
            BY <2>3, <3>1, <3>2 DEF TypeInv
    <2>15. CASE ~ Says(a, "NO_SUCH_FILE") /\ Leave("OK", TypeDeduced, TypeHandles)
        <3>0. IsSeq(TypeHandles)
            <4> DEFINE h(i) == IF Answer(i).type = "HANDLE" THEN <<Answer(i).val>> ELSE <<>>
                       S == {Answer(1).val, Answer(2).val}
            <4>1. Answer(1).val \in S /\ Answer(2).val \in S
                OBVIOUS
            <4> HIDE DEF S
            <4>2. h(1) \in Seq(S) /\ h(2) \in Seq(S)
                BY <4>1, EmptySeq
            <4>3. h(1) \o h(2) \in Seq(S)
                BY <4>2, ConcatProperties
            <4>4. TypeHandles = h(1) \o h(2)
                BY DEF TypeHandles
            <4> QED
                BY <4>3, <4>4 DEF IsSeq
        <3>1. PICK v : v = TypeDeduced
            OBVIOUS
        <3>2. /\ result'.op = "type" /\ result'.path = p /\ result'.status = "OK"
              /\ result'.val = v /\ call'.op # "type"
            BY <2>13, <2>15, <3>0, <3>1
        <3>3. Deducible => \A k \in Kind : v = k \/ WasNot(p, k)
            BY <2>12, <2>15, <3>1
        <3>4. Deducible => \A k \in Kind : result'.val = k \/ WasNot(result.path, k)'
            BY <1>1, <3>2, <3>3 DEF WasNot
        <3> QED
            BY <2>3, <3>2, <3>4 DEF TypeInv, Deducible
    <2> QED
        BY <1>3, <2>5, <2>14, <2>15 DEF TypeReply
<1>4. call.op = "type" => TypeReply
    BY DEF CallStep, Rest, ExistsReap, ExistsStore, ExistsAnswer, ExistsUncached, ExistsLookup,
           ContentsReply, RenameFallback, RemoveDir, StatusReply, OpenReply, ReadBuffered,
           ReadReply, WriteReply, Replied
<1> QED
    BY <1>2, <1>3, <1>4

----------------------------------------------------------------------------
(***************************************************************************)
(* contents(), from step to step.                                          *)
(***************************************************************************)
LEMMA ListBegins ==
    ASSUME Before, ListInv, Handled, StartCall, Beginning
    PROVE  ListInv'
<1>1. call.op = "none" /\ got' = <<>> /\ result'.op = "none"
    BY OpsDiffer DEF Beginning, NoResult
<1>2. \A r \in Posted : r.op # "READDIR"
    BY <1>1 DEF ListInv
<1>3. \A x \in Posted' : x \in Posted \/ (x \in News' /\ Poses(x))
    BY HandledTold DEF Beginning, AllPosed
<1>4. ASSUME call'.op # "contents" PROVE ListInv'
    BY <1>1, <1>2, <1>3, <1>4 DEF ListInv, Poses
<1>5. ASSUME NEW d, ContentsCall(d) PROVE ListInv'
    <2>1. PICK m : m = [id |-> NewId(1), handle |-> 0, names |-> {}]
        OBVIOUS
    <2>2. call' = [op |-> "contents", path |-> d, more |-> m] /\ RPC("OPENDIR", d)
        BY <1>5, <2>1 DEF ContentsCall, Begin
    <2>3. call'.op = "contents" /\ call'.path = d /\ call'.more = m
        BY <2>2
    <2>4. m.handle = 0 /\ m.names = {}
        BY <2>1
    <2>5. PICK op : op = "OPENDIR"
        OBVIOUS
    <2>6. PICK s \in 1 .. serial' :
             /\ OneRequest(s)' /\ Stands(s, op, d)'
             /\ \A x \in Posted' : x \in Posted \/ (x.ser = s /\ x.op = op)
             /\ \A a \in Told' : a.ser # s
        BY <1>1, <2>2, <2>5, RPCStands
    <2>7. Listed(s, d, m)'
        BY <1>2, <2>4, <2>5, <2>6 DEF Listed, Stands
    <2>8. \E t \in 1 .. serial' : Listed(t, call.path, call.more)'
        BY <2>3, <2>6, <2>7 DEF Listed, Lists, Was, WasNot
    <2> QED
        BY <1>1, <2>3, <2>8 DEF ListInv
<1>6. ASSUME ~ \E d : ContentsCall(d) PROVE call'.op # "contents"
    <2>1. \E op, p, more : op # "contents" /\ Begin(op, p, more)
        <3>1. ASSUME NEW p \in Path, TypeCall(p) PROVE Begin("type", p, "")
            BY <3>1, Zenon DEF TypeCall
        <3>2. ASSUME NEW n \in Space, ReadCall(n) PROVE Begin("read", file.handle, n)
            BY <3>2, ZenonT(60) DEF ReadCall
        <3>3. ASSUME \/ \E p : \/ MkdirCall(p) \/ RemoveCall(p) \/ PrefigureCall(p) \/ ExistsCall(p)
                               \/ \E q : RenameCall(p, q)
                               \/ \E mode : OpenCall(p, mode)
                     \/ \E b : WriteCall(b)
                     \/ CloseCall
              PROVE  \E op, p, more : op # "contents" /\ Begin(op, p, more)
            BY <3>3 DEF MkdirCall, RemoveCall, RenameCall, OpenCall, PrefigureCall, ExistsCall,
                        WriteCall, CloseCall
        <3> QED
            BY <1>6, <3>1, <3>2, <3>3 DEF StartCall
    <2> QED
        BY <2>1 DEF Begin
<1> QED
    BY <1>4, <1>5, <1>6

LEMMA ListGoes ==
    ASSUME Before, ListInv, NameInv, Handled, CallStep, ~ Rest, Going
    PROVE  ListInv'
<1>0. SftpInv /\ HandleInv /\ call.op \notin Silent /\ result.op = "none"
    BY DEF Before, Going, NameInv, Silent
<1>1. /\ UNCHANGED <<tree, window, handles>>
      /\ \A d, S : Lists(d, S) => Lists(d, S)'
    BY DEF Going, svars, Lists, Was, WasNot
<1>2. \A x \in Posted' : x \in Posted \/ (x \in News' /\ Poses(x))
    BY HandledTold DEF Going, AllPosed
<1>3. CASE call.op # "contents"
    <2>1. call'.op # "contents" /\ result'.op # "contents"
        BY <1>0, <1>3 DEF Going
    <2>2. \A r \in Posted' : r.op # "READDIR"
        BY <1>2, <1>3, <2>1 DEF ListInv, Poses
    <2> QED
        BY <2>1, <2>2 DEF ListInv
<1>4. CASE ContentsReply
    <2>1. /\ call.op = "contents" /\ Replied("contents")
          /\ DOMAIN call = {"op", "path", "more"}
          /\ DOMAIN call.more = {"id", "handle", "names"}
        BY <1>0, <1>4 DEF ContentsReply, Replied, SftpInv, Progress
    <2>2. PICK d, m, a : d = call.path /\ m = call.more /\ a = Answer(1)
        OBVIOUS
    <2>3. PICK s \in 1 .. serial : Listed(s, d, m)
        BY <2>1, <2>2 DEF ListInv
    <2>4. a \in Taken /\ a \in Told /\ a.ser = s /\ \A x \in Posted : x.ser # s
        BY <1>0, <2>1, <2>2, <2>3, OnlyAnswer DEF Listed, Told
    <2>5. \A r \in Posted : r.op # "READDIR"
        BY <2>3, <2>4 DEF Listed
    <2>6. serial \in Nat /\ s \in Nat /\ s <= serial
        BY <1>0, <2>3 DEF SftpInv, TypeOK
    <2>7. ASSUME NEW more, DOMAIN more = {"id", "handle", "names"}, NextBatch(more),
                 more.handle # 0, more.handle \in DOMAIN handles, more.handle \in Int, more.handle <= s,
                 \A r \in Posted : r.op = "CLOSE" => r.arg # more.handle,
                 Lists(d, more.names \cup handles[more.handle].left)
          PROVE  ListInv'
        <3>1. PICK r : r = [id |-> more.id, ser |-> serial + 1, op |-> "READDIR", arg |-> more.handle]
            OBVIOUS
        <3>2. r.op = "READDIR" /\ r.arg = more.handle /\ r.ser = serial + 1
            BY <3>1
        <3>3. /\ send' = <<r, Flush>> /\ wait' = <<Ticket(r)>> /\ got' = <<>>
              /\ serial' = serial + 1 /\ call' = [call EXCEPT !.more = more] /\ result' = result
            BY <2>7, <3>1 DEF NextBatch
        <3>4. call'.op = "contents" /\ call'.path = d /\ call'.more = more
            BY <2>1, <2>2, <3>3
        <3>5. News' = {r}
            <4>1. DOMAIN send' = 1 .. 2 /\ send'[1] = r /\ send'[2] = Flush /\ Flush.op = "flush"
                BY <3>3, SmallSeqs DEF Flush
            <4> QED
                BY <3>2, <4>1 DEF News, Asking, Posed
        <3>6. PICK n : n = serial + 1
            OBVIOUS
        <3>7. OneRequest(n)'
            <4>1. PICK t : t = Ticket(r)
                OBVIOUS
            <4>2. wait' = <<t>> /\ t.ser = n /\ n \in 1 .. serial'
                BY <2>6, <3>2, <3>3, <3>6, <4>1, TicketFields
            <4> QED
                BY <3>3, <4>2 DEF OneRequest
        <3>8. /\ \A x \in Posted' : x \in Posted \/ x = r
              /\ \A x \in Posted : x.ser # n
              /\ \A x \in Told' : x.ser # n
            BY <2>6, <3>5, <3>6, HandledTold
        <3>9. PICK S : S = more.names \cup handles[more.handle].left
            OBVIOUS
        <3>10. handles' = handles /\ Lists(d, S)'
            BY <1>1, <2>7, <3>9
        <3>11. Lists(d, more.names \cup handles[more.handle].left)'
            BY <3>9, <3>10 DEF Lists, Was, WasNot
        <3>12. \A x \in Posted' : x.op = "READDIR" => x.ser = n
            BY <2>5, <3>2, <3>6, <3>8
        <3>13. \A x \in Posted' : x.op = "CLOSE" => x.arg # more.handle
            BY <2>7, <3>2, <3>8
        <3>14. \A x \in Posted' : x.ser = n => x.op = "READDIR" /\ x.arg = more.handle
            BY <3>2, <3>8
        <3>15. more.handle \in DOMAIN handles' /\ more.handle < n
            BY <2>6, <2>7, <3>6, <3>10
        <3>16. Listed(n, d, more)'
            BY <2>7, <3>7, <3>8, <3>11, <3>12, <3>13, <3>14, <3>15 DEF Listed
        <3>17. n \in 1 .. serial'
            BY <2>6, <3>3, <3>6
        <3>18. Listed(n, call.path, call.more)'
            BY <3>4, <3>16 DEF Listed, Lists, Was, WasNot
        <3> QED
            BY <1>0, <3>3, <3>4, <3>17, <3>18 DEF ListInv
    <2>8. ASSUME NEW status, NEW val, NEW hs, IsSeq(hs), Leave(status, val, hs),
                 status = "OK" => Lists(d, val)
          PROVE  ListInv'
        <3>1. call'.op \in {"none", "return"}
            BY <2>8, LeavePoses
        <3>2. \A x \in Posted' : x.op # "READDIR"
            BY <1>2, <2>5, <3>1 DEF Poses
        <3>3. result'.path = d /\ result'.status = status /\ result'.val = val
            BY <2>2, <2>8 DEF Leave
        <3>4. status = "OK" => Lists(d, val)'
            BY <1>1, <2>8
        <3>5. result'.status = "OK" => Lists(result.path, result.val)'
            BY <3>3, <3>4 DEF Lists, Was, WasNot
        <3> QED
            BY <3>1, <3>2, <3>5 DEF ListInv
    <2>9. CASE a.type = "HANDLE" /\ NextBatch([m EXCEPT !.handle = a.val])
        <3>1. m.handle = 0 /\ m.names = {}
            BY <2>3, <2>4, <2>9 DEF Listed
        <3>2. a.val = s /\ s \in DOMAIN handles /\ Lists(d, handles[s].left)
            BY <1>0, <2>3, <2>4, <2>9, <3>1 DEF Listed, HandleInv
        <3>3. PICK more : more = [m EXCEPT !.handle = a.val]
            OBVIOUS
        <3>4. DOMAIN more = {"id", "handle", "names"} /\ more.handle = s /\ more.names = {}
            BY <2>1, <2>2, <3>1, <3>2, <3>3
        <3>5. NextBatch(more)
            BY <2>9, <3>3
        <3>6. \A r \in Posted : r.op = "CLOSE" => r.arg # s
            BY <1>0, <2>4 DEF HandleInv, Settled
        <3>7. Lists(d, more.names \cup handles[more.handle].left)
            <4>1. more.names \cup handles[more.handle].left = handles[s].left
                BY <3>4
            <4> QED
                BY <3>2, <4>1
        <3> QED
            BY <2>3, <2>6, <2>7, <3>2, <3>4, <3>5, <3>6, <3>7
    <2>10. CASE a.type = "NAME" /\ NextBatch([m EXCEPT !.names = AddBatch(@, a.val)])
        <3>1. m.handle # 0
            BY <2>3, <2>4, <2>10 DEF Listed
        <3>2. /\ m.handle \in DOMAIN handles /\ m.handle < s
              /\ \A r \in Posted : r.op = "CLOSE" => r.arg # m.handle
              /\ Lists(d, m.names \cup a.val \cup handles[m.handle].left)
            BY <2>3, <2>4, <2>10, <3>1 DEF Listed
        <3>3. PICK more : more = [m EXCEPT !.names = AddBatch(@, a.val)]
            OBVIOUS
        <3>4. /\ DOMAIN more = {"id", "handle", "names"} /\ more.handle = m.handle
              /\ more.names = m.names \cup a.val
            BY <2>1, <2>2, <3>3 DEF AddBatch
        <3>5. NextBatch(more)
            BY <2>10, <3>3
        <3>6. m.handle \in Int
            BY <1>0, <2>1, <2>2, <2>6 DEF HandleInv, Settled
        <3> QED
            BY <2>6, <2>7, <3>1, <3>2, <3>4, <3>5, <3>6
    <2>11. CASE Says(a, "EOF") /\ Leave("OK", m.names, <<m.handle>>)
        <3>1. m.handle # 0
            BY <2>3, <2>4, <2>11 DEF Listed
        <3>2. Lists(d, m.names)
            BY <2>3, <2>4, <2>11, <3>1 DEF Listed
        <3> QED
            BY <2>8, <2>11, <3>2, SmallSeqs
    <2>12. CASE Failed(a) /\ Leave(a.val, "", IF m.handle = 0 THEN <<>> ELSE <<m.handle>>)
        <3>1. IsSeq(IF m.handle = 0 THEN <<>> ELSE <<m.handle>>)
            BY SmallSeqs
        <3> QED
            BY <2>8, <2>12, <3>1 DEF Failed
    <2> QED
        BY <1>4, <2>2, <2>9, <2>10, <2>11, <2>12 DEF ContentsReply
<1>5. call.op = "contents" => ContentsReply
    BY DEF CallStep, Rest, ExistsReap, ExistsStore, ExistsAnswer, ExistsUncached, ExistsLookup,
           TypeReply, RenameFallback, RemoveDir, StatusReply, OpenReply, ReadBuffered,
           ReadReply, WriteReply, Replied
<1> QED
    BY <1>3, <1>4, <1>5

----------------------------------------------------------------------------
(***************************************************************************)
(* Answers and effects, at all times.                                      *)
(***************************************************************************)
LEMMA InitAnswers ==
    ASSUME Init
    PROVE  AnswerInv
<1>1. /\ send = <<>> /\ outbuf = <<>> /\ req = <<>> /\ rep = <<>> /\ replies = <<>>
      /\ wait = <<>> /\ got = <<>> /\ file = NoFile /\ call = Idle /\ result = NoResult
      /\ inflight = <<>> /\ existence = <<>> /\ window = [p \in Path |-> {tree[p].kind}]
    BY DEF Init, ServerInit, ClientInit
<1>2. DOMAIN <<>> = {}
    BY SmallSeqs
<1>3. Posted = {}
    BY <1>1, <1>2 DEF Posted, Asking, Posed
<1>4. call.op = "none" /\ result.op = "none"
    BY <1>1, OpsDiffer DEF NoResult
<1>5. WindowInv
    BY <1>1 DEF WindowInv
<1>6. ExistsInv
    BY <1>1, <1>2, <1>4 DEF ExistsInv
<1>7. NameInv
    BY <1>3, <1>4 DEF NameInv, NameCalls
<1>8. TypeInv
    BY <1>4 DEF TypeInv
<1>9. ListInv
    BY <1>3, <1>4 DEF ListInv
<1> QED
    BY <1>5, <1>6, <1>7, <1>8, <1>9 DEF AnswerInv

LEMMA NextAnswers ==
    ASSUME SftpInv, MatchInv, StoredInv, AnswerInv, [Next]_vars
    PROVE  AnswerInv'
<1>1. FewRequests' => FewRequests
    BY FewerBefore
<1>2. CASE FewRequests
    <2>1. Before /\ WindowInv /\ ExistsInv /\ NameInv /\ TypeInv /\ ListInv
        BY <1>2 DEF Before, StoredInv, AnswerInv
    <2>2. CASE StartCall /\ ~ Rest
        <3>1. Beginning /\ Handled
            BY <2>2, BeginsAre, StepsHandled
        <3>2. WindowInv' /\ ExistsInv'
            BY <2>1, <2>2, <3>1, WindowCalled, ExistsBegins
        <3>3. NameInv' /\ TypeInv' /\ ListInv'
            BY <2>1, <2>2, <3>1, NameBegins, TypeBegins, ListBegins
        <3> QED
            BY <3>2, <3>3 DEF AnswerInv
    <2>3. CASE CallStep /\ ~ Rest
        <3>1. Going /\ Handled
            BY <2>3, GoesOnAre, StepsHandled
        <3>2. WindowInv' /\ ExistsInv'
            BY <2>1, <2>3, <3>1, WindowCalled, ExistsGoes
        <3>3. NameInv' /\ TypeInv' /\ ListInv'
            BY <2>1, <2>3, <3>1, NameGoes, TypeGoes, ListGoes
        <3> QED
            BY <3>2, <3>3 DEF AnswerInv
    <2>4. CASE Around
        <3>1. Still \/ \E r, type, val : Serving(r, type, val)
            BY <2>1, <2>4, AroundIs
        <3>2. WindowInv' /\ ExistsInv' /\ NameInv' /\ TypeInv' /\ ListInv'
            BY <2>1, <3>1, AroundStands, ExistsAround, NameAround, TypeAround, ListAround
        <3> QED
            BY <3>2 DEF AnswerInv
    <2> QED
        BY <2>2, <2>3, <2>4, StepsAre DEF Around
<1> QED
    BY <1>1, <1>2 DEF AnswerInv

LEMMA AlwaysAnswers == Spec => []AnswerInv
<1>1. SftpInv /\ MatchInv /\ StoredInv /\ AnswerInv /\ [Next]_vars
      => SftpInv' /\ MatchInv' /\ StoredInv' /\ AnswerInv'
    BY NextInv, NextMatch, NextStored, NextAnswers
<1>2. Init => SftpInv /\ MatchInv /\ StoredInv /\ AnswerInv
    BY InitInv, InitMatch, InitStored, InitAnswers
<1> QED
    BY <1>1, <1>2, PTL DEF Spec

LEMMA ExistsIs ==
    ASSUME AnswerInv, FewRequests
    PROVE  ExistsCurrent
<1> SUFFICES ASSUME result.op = "exists"
             PROVE  /\ result.val => window[result.path] # {"none"}
                    /\ ~ result.val => "none" \in window[result.path] \/ result.path \in refused
    BY DEF ExistsCurrent, Over
<1>1. StatTrue(result.path, result.val)
    BY DEF AnswerInv, ExistsInv
<1> QED
    BY <1>1 DEF StatTrue, Was, WasNot

LEMMA ListingIs ==
    ASSUME AnswerInv, FewRequests
    PROVE  ListingCurrent
<1> SUFFICES ASSUME result.op = "contents", result.status = "OK",
                    NEW p \in Path, Under[p] = result.path
             PROVE  /\ "none" \notin window[p] => p \in result.val
                    /\ p \in result.val => window[p] # {"none"}
    BY DEF ListingCurrent, Over
<1>1. Lists(result.path, result.val)
    BY DEF AnswerInv, ListInv
<1> QED
    BY <1>1 DEF Lists, Was, WasNot

LEMMA TypeIs ==
    ASSUME AnswerInv, FewRequests, Deducible
    PROVE  TypeRight
<1> SUFFICES ASSUME result.op = "type"
             PROVE  LET seen == window[result.path] IN
                    /\ result.status = "OK" => \A k \in Kind : seen = {k} => result.val = k
                    /\ result.status = "NO_SUCH_FILE" => seen \cap {"none", "link"} # {}
    BY DEF TypeRight
<1>1. /\ result.status = "OK" => \A k \in Kind : result.val = k \/ WasNot(result.path, k)
      /\ result.status = "NO_SUCH_FILE" => Was(result.path, "none") \/ Was(result.path, "link")
    BY DEF AnswerInv, TypeInv
<1> QED
    BY <1>1 DEF Was, WasNot

LEMMA EffectIs ==
    ASSUME AnswerInv, FewRequests
    PROVE  EffectExact
<1>1. SUFFICES ASSUME result.op \in {"mkdir", "rename", "remove", "rmdir"},
                      result.path \notin asked
               PROVE  LET was == window[result.path]  op == result.op IN
                      /\ result.status = "OK" /\ op = "mkdir" => "dir" \in was
                      /\ result.status = "OK" /\ op # "mkdir" => "none" \in was /\ was # {"none"}
                      /\ result.status = "OK" /\ op = "rename" =>
                            window[result.more] \cap was # {"none"}
                      /\ result.status # "OK" /\ changes = 0 => Cardinality(was) = 1
    BY DEF EffectExact
<1>2. result.op \in NameCalls
    BY <1>1 DEF NameCalls
<1>3. /\ result.status = "OK" =>
            /\ result.op = "mkdir" => Was(result.path, "dir")
            /\ result.op # "mkdir" => Was(result.path, "none") /\ WasNot(result.path, "none")
            /\ result.op = "rename" =>
                  \E k \in window[result.path] \cap window[result.more] : k # "none"
      /\ result.status # "OK" /\ changes = 0 => Steady(result.path)
    BY <1>1, <1>2 DEF AnswerInv, NameInv
<1>4. ASSUME Steady(result.path) PROVE Cardinality(window[result.path]) = 1
    BY <1>4, FS_Singleton DEF Steady
<1> QED
    BY <1>3, <1>4 DEF Was, WasNot

\* exists() answers what was true at some moment since the caller first asked
\* about the name, through the cache, through a STAT sent ahead or through one
\* of its own.  It takes any reply but attributes for a no, so there is one
\* exception, name by name: one at which the server has failed a STAT since
\* then may be called missing while it is there (sftp.cc:657).  contents()
\* lists every name that was in the directory all the time, and none that was
\* never there.  Whatever other users do to the names meanwhile, in whatever
\* order the replies come, and whichever other requests fail, until newid()
\* has given out every id once (exists and contents, sftp.cc:649-733).
THEOREM AnswersTrue ==
    Spec => [](serial < IdMod - 1 => ExistsCurrent /\ ListingCurrent)
<1>1. AnswerInv => (serial < IdMod - 1 => ExistsCurrent /\ ListingCurrent)
    BY ExistsIs, ListingIs DEF FewRequests
<1> QED
    BY <1>1, AlwaysAnswers, PTL

\* So does type(), as long as its three questions are not refused for a reason
\* that has nothing to do with what the name is: it deduces the type from which
\* of them fail.  A name that stays what it is gets the right type, and one
\* that is reported as missing was so, or is a link that leads nowhere (exists,
\* contents and type, sftp.cc:649-798).
THEOREM TypesTrue ==
    Spec => [](serial < IdMod - 1 /\ {"OPEN", "OPENDIR", "READLINK"} \cap Faults = {}
                 => AnswerCurrent)
<1>1. AnswerInv => (serial < IdMod - 1 /\ {"OPEN", "OPENDIR", "READLINK"} \cap Faults = {}
                      => AnswerCurrent)
    BY ExistsIs, ListingIs, TypeIs DEF FewRequests, AnswerCurrent, Deducible
<1> QED
    BY <1>1, AlwaysAnswers, PTL

\* A call that changes names and returns has had its effect, also through the
\* second request that remove() and rename() may need; one that throws has had
\* none, until newid() has given out every id once (rename, remove, unlink,
\* rmdir and mkdir, sftp.cc:489-572, 629-647).
THEOREM EffectsExact == Spec => [](serial < IdMod - 1 => EffectExact)
<1>1. AnswerInv => (serial < IdMod - 1 => EffectExact)
    BY EffectIs DEF FewRequests
<1> QED
    BY <1>1, AlwaysAnswers, PTL

----------------------------------------------------------------------------
(***************************************************************************)
(* No handle is lost.                                                      *)
(***************************************************************************)
KeptSame == UNCHANGED <<handles, file, call, changes, id>>

LEMMA HeldSame ==
    ASSUME NEW h, Held(h), UNCHANGED <<file, call>>, Posted \subseteq Posted',
           \A a \in Received : Seeking /\ Due(a) => (a \in Received' /\ Due(a)') \/ a \in Taken',
           Taken \subseteq Taken'
    PROVE  Held(h)'
<1>1. Seeking' = Seeking
    BY DEF Seeking
<1>2. CASE \/ file # NoFile /\ h = file.handle
           \/ \E r \in Posted : r.op = "CLOSE" /\ r.arg = h
           \/ call.op = "contents" /\ h # 0 /\ h = call.more.handle
    BY <1>2 DEF Held
<1>3. CASE Seeking /\ \E a \in Received : a.ser = h /\ a.type = "HANDLE" /\ Due(a)
    BY <1>1, <1>3 DEF Held
<1>4. CASE Seeking /\ \E a \in Taken : a.ser = h /\ a.type = "HANDLE"
    BY <1>1, <1>4 DEF Held
<1> QED
    BY <1>2, <1>3, <1>4 DEF Held

\* Nothing of this changes but where a reply is.
LEMMA HeldQuietly ==
    ASSUME HeldInv, KeptSame, Posted' = Posted, Taken' = Taken,
           \A a \in Received : Seeking /\ Due(a) => a \in Received',
           UNCHANGED wait, ignored' \subseteq ignored,
           \A i \in Asking' : \E j \in Asking : send'[i] = send[j]
    PROVE  HeldInv'
<1>1. Seeking' = Seeking /\ \A a : Due(a)' = Due(a)
    BY DEF Seeking, Due, KeptSame
<1>2. \A h : Held(h) => Held(h)'
    BY <1>1, HeldSame DEF KeptSame
<1>3. \A r \in Posted' : r.op \in {"OPEN", "OPENDIR"} => Seeking' /\ Due(r)'
    BY <1>1 DEF HeldInv
<1>4. Seeking' => \A i \in Asking' : send'[i].op # "CLOSE"
    BY <1>1 DEF HeldInv
<1>5. Seeking' => \A i \in DOMAIN wait' : wait'[i].id \notin ignored'
    BY <1>1 DEF HeldInv
<1>6. \A i \in ignored' : i < id'
    BY DEF HeldInv, KeptSame
<1>7. changes' = 0 => \A h \in DOMAIN handles' : Held(h)'
    BY <1>2 DEF HeldInv, KeptSame
<1> QED
    BY <1>3, <1>4, <1>5, <1>6, <1>7 DEF HeldInv

\* A reply that a call waits for is not thrown away.
LEMMA PollHeld ==
    ASSUME Before, HeldInv, Poll
    PROVE  HeldInv'
<1>0. SftpInv /\ SameSer /\ Basic /\ OnePlace
    BY PartsOfInv DEF Before, MatchInv
<1>1. /\ KeptSame /\ UNCHANGED <<wait, send>> /\ Posted' = Posted /\ Taken' = Taken
    <2>1. Posted' = Posted
        BY <1>0, PollPosted
    <2> QED
        BY <2>1 DEF Poll, round, KeptSame, Taken
<1>2. PICK i \in DOMAIN rep :
        /\ rep' = RemoveAt(rep, i)
        /\ \/ /\ rep[i].id \in ignored
              /\ ignored' = ignored \ {rep[i].id} /\ replies' = replies
           \/ /\ rep[i].id \notin ignored
              /\ replies' = Put(replies, rep[i].id, rep[i]) /\ ignored' = ignored
    <2>1. IsSeq(rep) /\ rep # <<>>
        BY <1>0 DEF Basic, PipeTypes, Poll
    <2>2. 1 \in DOMAIN rep
        BY <2>1, TailSeq
    <2> QED
        BY <2>2 DEF Poll
<1>3. ASSUME NEW k \in DOMAIN rep, k # i PROVE rep[k] \in Received'
    <2>1. IsSeq(rep) /\ Len(rep) \in Nat /\ DOMAIN rep = 1 .. Len(rep)
        BY <1>0, SeqLength DEF Basic, PipeTypes
    <2>2. /\ IsSeq(rep') /\ Len(rep') = Len(rep) - 1
        BY <1>2, <2>1, RemoveAtSeq
    <2>5. \A m \in DOMAIN rep' : /\ m < i => rep'[m] = rep[m]
                                 /\ ~ (m < i) => rep'[m] = rep[m + 1]
        BY <1>2, <2>1, RemoveAtSeq
    <2>3. DOMAIN rep' = 1 .. Len(rep')
        BY <2>2, SeqLength
    <2> DEFINE m == IF k < i THEN k ELSE k - 1
    <2>4. m \in DOMAIN rep' /\ (m < i => m = k) /\ (~ (m < i) => m + 1 = k)
        BY <1>3, <2>1, <2>2, <2>3
    <2> HIDE DEF m
    <2> QED
        BY <2>4, <2>5 DEF Received
<1>4. ASSUME Seeking, NEW a \in Received, Due(a) PROVE a \in Received'
    <2>1. PICK j \in DOMAIN wait : wait[j] = Ticket(a)
        BY <1>4 DEF Due, ToSet
    <2>2. a.id \notin ignored
        BY <1>4, <2>1, TicketFields DEF HeldInv
    <2>3. CASE \E k \in DOMAIN rep : k # i /\ a = rep[k]
        BY <1>3, <2>3
    <2>4. CASE a = rep[i]
        <3>1. replies' = Put(replies, a.id, a)
            BY <1>2, <2>2, <2>4
        <3>2. a.id \in DOMAIN replies' /\ replies'[a.id] = a
            BY <3>1 DEF Put
        <3> QED
            BY <3>2 DEF Received
    <2>5. ASSUME NEW k \in DOMAIN replies, a = replies[k] PROVE a \in Received'
        <3>1. CASE replies' = replies
            BY <2>5, <3>1 DEF Received
        <3>2. CASE replies' = Put(replies, rep[i].id, rep[i])
            <4>1. k # rep[i].id
                <5> SUFFICES ASSUME k = rep[i].id PROVE FALSE
                    OBVIOUS
                <5>1. a.id = rep[i].id
                    BY <1>0, <2>5 DEF Basic, ReplyTypes
                <5>2. /\ Ticket(a) \in Of(replies) /\ Ticket(rep[i]) \in Of(rep)
                      /\ Ticket(a).id = a.id /\ Ticket(a).ser = a.ser
                      /\ Ticket(rep[i]).id = rep[i].id /\ Ticket(rep[i]).ser = rep[i].ser
                    BY <2>5, TicketFields DEF Of
                <5>3. a.ser = rep[i].ser
                    BY <1>0, <5>1, <5>2 DEF SameSer, Travelling
                <5> QED
                    BY <1>0, <5>2, <5>3 DEF OnePlace, Apart
            <4>2. k \in DOMAIN replies' /\ replies'[k] = a
                BY <2>5, <3>2, <4>1 DEF Put
            <4> QED
                BY <4>2 DEF Received
        <3> QED
            BY <1>2, <3>1, <3>2
    <2> QED
        BY <2>3, <2>4, <2>5 DEF Received
<1>5. ignored' \subseteq ignored
    BY <1>2
<1>6. \A j \in Asking' : \E k \in Asking : send'[j] = send[k]
    BY <1>1 DEF Asking
<1> QED
    BY <1>1, <1>4, <1>5, <1>6, HeldQuietly

\* A request that is put or flushed is still on its way.
LEMMA PutSame ==
    ASSUME SftpInv, PutRequest
    PROVE  /\ Posted' = Posted /\ Head(send) \in Posted
           /\ \E i \in Asking : Head(send) = send[i]
           /\ \A i \in Asking' : \E j \in Asking : send'[i] = send[j]
<1>1. /\ req' = req /\ send # <<>> /\ Head(send).op # "flush"
      /\ outbuf' = Append(outbuf, Head(send)) /\ send' = Tail(send)
    BY DEF PutRequest, MayPut, Sending, svars
<1>2. IsSeq(send) /\ IsSeq(outbuf)
    BY DEF SftpInv, Shape
<1>3. /\ 1 \in DOMAIN send /\ Head(send) = send[1]
      /\ \A i \in DOMAIN send' : i + 1 \in DOMAIN send /\ send'[i] = send[i + 1]
      /\ \A j \in DOMAIN send : j = 1 \/ \E i \in DOMAIN send' : send'[i] = send[j]
    BY <1>1, <1>2, TailSeq
<1>4. /\ \A i \in DOMAIN outbuf : i \in DOMAIN outbuf' /\ outbuf'[i] = outbuf[i]
      /\ \E i \in DOMAIN outbuf' : outbuf'[i] = Head(send)
    BY <1>1, <1>2, AppendSeq
<1>5. 1 \in Asking
    BY <1>1, <1>3 DEF Asking, Posed
<1>6. \A i \in Asking' : \E j \in Asking : send'[i] = send[j]
    BY <1>3 DEF Asking, Posed
<1>7. \A j \in Asking : j = 1 \/ \E i \in Asking' : send'[i] = send[j]
    BY <1>3 DEF Asking, Posed
<1>8. Posted' \subseteq Posted
    BY PutPosted
<1>9. \A x \in Posted : x \in Posted'
    <2>1. ASSUME NEW j \in Asking PROVE send[j] \in Posted'
        <3>1. CASE j = 1
            BY <1>3, <1>4, <3>1 DEF Posted
        <3>2. CASE j # 1
            BY <1>7, <3>2 DEF Posted
        <3> QED
            BY <3>1, <3>2
    <2>2. \A i \in DOMAIN outbuf : outbuf[i] \in Posted'
        BY <1>4 DEF Posted
    <2>3. \A i \in DOMAIN req : req[i] \in Posted'
        BY <1>1 DEF Posted
    <2> QED
        BY <2>1, <2>2, <2>3 DEF Posted
<1> QED
    BY <1>3, <1>5, <1>6, <1>8, <1>9 DEF Posted

LEMMA FlushSame ==
    ASSUME SftpInv, FlushRequest
    PROVE  /\ Posted' = Posted
           /\ \A i \in Asking' : \E j \in Asking : send'[i] = send[j]
<1>1. /\ outbuf # <<>> /\ send # <<>> /\ Head(send).op = "flush"
      /\ req' = Append(req, Head(outbuf)) /\ outbuf' = Tail(outbuf)
      /\ send' = send \/ send' = Tail(send)
    BY DEF FlushRequest, Sending
<1>2. IsSeq(send) /\ IsSeq(outbuf) /\ IsSeq(req)
    BY DEF SftpInv, Shape
<1>3. /\ 1 \in DOMAIN send /\ Head(send) = send[1]
      /\ \A i \in DOMAIN Tail(send) : i + 1 \in DOMAIN send /\ Tail(send)[i] = send[i + 1]
      /\ \A j \in DOMAIN send : j = 1 \/ \E i \in DOMAIN Tail(send) : Tail(send)[i] = send[j]
    BY <1>1, <1>2, TailSeq
<1>4. /\ Head(outbuf) = outbuf[1]
      /\ \A j \in DOMAIN outbuf : j = 1 \/ \E i \in DOMAIN outbuf' : outbuf'[i] = outbuf[j]
    BY <1>1, <1>2, TailSeq
<1>5. /\ \A i \in DOMAIN req : i \in DOMAIN req' /\ req'[i] = req[i]
      /\ \E i \in DOMAIN req' : req'[i] = Head(outbuf)
    BY <1>1, <1>2, AppendSeq
<1>6. \A i \in Asking' : \E j \in Asking : send'[i] = send[j]
    <2>1. CASE send' = send
        BY <2>1 DEF Asking
    <2>2. CASE send' = Tail(send)
        BY <1>3, <2>2 DEF Asking, Posed
    <2> QED
        BY <1>1, <2>1, <2>2
<1>7. \A j \in Asking : \E i \in Asking' : send'[i] = send[j]
    <2>1. CASE send' = send
        BY <2>1 DEF Asking
    <2>2. CASE send' = Tail(send)
        <3>1. \A j \in Asking : j \in DOMAIN send /\ j # 1 /\ send[j].op # "flush"
            BY <1>1, <1>3 DEF Asking, Posed
        <3> QED
            BY <1>3, <2>2, <3>1 DEF Asking, Posed
    <2> QED
        BY <1>1, <2>1, <2>2
<1>8. Posted' \subseteq Posted
    BY FlushPosted
<1>9. \A x \in Posted : x \in Posted'
    BY <1>4, <1>5, <1>7 DEF Posted
<1> QED
    BY <1>6, <1>8, <1>9

\* Only a CLOSE makes that its reply is ignored, and no call waits for a handle
\* then.
LEMMA PutHeld ==
    ASSUME Before, HeldInv, PutRequest
    PROVE  HeldInv'
<1>0. SftpInv /\ Known
    BY DEF Before, MatchInv
<1>1. /\ KeptSame /\ UNCHANGED <<wait, got, rep>>
      /\ \/ Head(send).op = "CLOSE" /\ Ignore({Head(send).id})
         \/ UNCHANGED <<replies, ignored>>
    BY DEF PutRequest, KeptSame, svars
<1>2. /\ Posted' = Posted /\ Head(send) \in Posted
      /\ \E i \in Asking : Head(send) = send[i]
      /\ \A i \in Asking' : \E j \in Asking : send'[i] = send[j]
    BY <1>0, PutSame
<1>3. Taken' = Taken
    BY <1>1 DEF Taken
<1>4. CASE UNCHANGED <<replies, ignored>>
    <2>1. Received' = Received
        BY <1>1, <1>4 DEF Received
    <2> QED
        BY <1>1, <1>2, <1>3, <1>4, <2>1, HeldQuietly
<1>5. CASE Head(send).op = "CLOSE" /\ Ignore({Head(send).id})
    <2>1. ~ Seeking /\ ~ Seeking'
        BY <1>1, <1>2, <1>5 DEF HeldInv, Seeking, KeptSame
    <2>2. ignored' = ignored \cup {Head(send).id}
        BY <1>5 DEF Ignore
    <2>3. Head(send).id < id
        BY <1>0, <1>2, PostedTickets, TicketFields DEF Known
    <2>4. \A h : Held(h) => Held(h)'
        BY <1>1, <1>2, <1>3, <2>1, HeldSame DEF KeptSame
    <2>5. \A r \in Posted' : r.op \notin {"OPEN", "OPENDIR"}
        BY <1>2, <2>1 DEF HeldInv
    <2>6. \A i \in ignored' : i < id'
        BY <1>1, <2>2, <2>3 DEF HeldInv, KeptSame
    <2>7. changes' = 0 => \A h \in DOMAIN handles' : Held(h)'
        BY <1>1, <2>4 DEF HeldInv, KeptSame
    <2> QED
        BY <2>1, <2>5, <2>6, <2>7 DEF HeldInv
<1> QED
    BY <1>1, <1>4, <1>5

LEMMA FlushHeld ==
    ASSUME Before, HeldInv, FlushRequest
    PROVE  HeldInv'
<1>1. KeptSame /\ UNCHANGED <<wait, got, rep, replies, ignored>>
    BY DEF FlushRequest, KeptSame, link
<1>2. Posted' = Posted /\ \A i \in Asking' : \E j \in Asking : send'[i] = send[j]
    BY FlushSame DEF Before
<1>3. Received' = Received /\ Taken' = Taken
    BY <1>1 DEF Received, Taken
<1> QED
    BY <1>1, <1>2, <1>3, HeldQuietly

LEMMA AwaitHeld ==
    ASSUME Before, HeldInv, Await
    PROVE  HeldInv'
<1>0. SftpInv /\ MatchInv /\ FewRequests
    BY DEF Before
<1>1. /\ KeptSame /\ UNCHANGED <<send, outbuf, req, rep, ignored>>
      /\ got' = Append(got, [reply |-> replies[wait[1].id], ser |-> wait[1].ser])
      /\ replies' = RestrictDomain(replies, LAMBDA i : i # wait[1].id)
      /\ wait # <<>> /\ wait' = Tail(wait) /\ IsSeq(wait) /\ IsSeq(got)
    <2>1. IsSeq(wait) /\ IsSeq(got)
        BY <1>0 DEF SftpInv, TypeOK, Shape, IsSeq
    <2> QED
        BY <2>1 DEF Await, KeptSame, svars
<1>2. PICK b, g : b = replies[wait[1].id] /\ g = [reply |-> b, ser |-> wait[1].ser]
    OBVIOUS
<1>3. got' = Append(got, g) /\ g.reply = b
    BY <1>1, <1>2
<1>4. Taken \subseteq Taken' /\ b \in Taken'
    <2>1. /\ \A i \in DOMAIN got : i \in DOMAIN got' /\ got'[i] = got[i]
          /\ \E i \in DOMAIN got' : got'[i] = g
        BY <1>1, <1>3, AppendSeq
    <2> QED
        BY <1>3, <2>1 DEF Taken
<1>5. \A x \in Received : x \in Received' \/ x = b
    <2>1. DOMAIN replies' = DOMAIN replies \ {wait[1].id} /\ \A i \in DOMAIN replies' : replies'[i] = replies[i]
        BY <1>1 DEF RestrictDomain, Restrict
    <2>2. \A i \in DOMAIN replies : replies[i] \in Received' \/ replies[i] = b
        BY <1>2, <2>1 DEF Received
    <2>3. \A i \in DOMAIN rep : rep[i] \in Received'
        BY <1>1 DEF Received
    <2> QED
        BY <2>2, <2>3 DEF Received
<1>6. PICK a \in Received : a.ser = wait[1].ser /\ \A x \in Posted' \cup Received' : x.ser # a.ser
    BY <1>0, AwaitPosted
<1>7. \A x \in Posted' \cup Received' : Due(x) => Due(x)'
    <2> SUFFICES ASSUME NEW x \in Posted' \cup Received', Due(x) PROVE Due(x)'
        OBVIOUS
    <2>1. PICK i \in DOMAIN wait : wait[i] = Ticket(x)
        BY DEF Due, ToSet
    <2>2. i # 1
        BY <1>6, <2>1, TicketFields
    <2>3. i - 1 \in DOMAIN wait' /\ wait'[i - 1] = Ticket(x)
        BY <1>1, <2>1, <2>2, TailSeq
    <2> QED
        BY <2>3 DEF Due, ToSet
<1>8. Posted' = Posted /\ Seeking' = Seeking
    BY <1>1 DEF Posted, Asking, Seeking, KeptSame
<1>9. \A h : Held(h) => Held(h)'
    BY <1>1, <1>4, <1>5, <1>7, <1>8, HeldSame DEF KeptSame
<1>10. \A r \in Posted' : r.op \in {"OPEN", "OPENDIR"} => Seeking' /\ Due(r)'
    BY <1>7, <1>8 DEF HeldInv
<1>11. Seeking' => \A i \in Asking' : send'[i].op # "CLOSE"
    BY <1>1, <1>8 DEF HeldInv, Asking
<1>12. Seeking' => \A i \in DOMAIN wait' : wait'[i].id \notin ignored'
    BY <1>1, <1>8, TailSeq DEF HeldInv
<1>13. \A i \in ignored' : i < id'
    BY <1>1 DEF HeldInv, KeptSame
<1>14. changes' = 0 => \A h \in DOMAIN handles' : Held(h)'
    BY <1>1, <1>9 DEF HeldInv, KeptSame
<1> QED
    BY <1>10, <1>11, <1>12, <1>13, <1>14 DEF HeldInv

\* Calls that return, and other users.
LEMMA EndHeld ==
    ASSUME Before, HeldInv, Die \/ Return \/ UNCHANGED vars
                            \/ (UNCHANGED cvars /\ (HangUp \/ \E p \in Path : Change(p)))
    PROVE  HeldInv'
<1>1. /\ UNCHANGED <<handles, file, id, wait, got, rep, replies, send, outbuf, req, ignored>>
      /\ \/ changes' = changes
         \/ \E p \in Path : Change(p)
      /\ \/ call' = call
         \/ call.op \in {"return", "prefigure", "close"} /\ call' = Idle
    BY DEF Die, Return, HangUp, Change, vars, cvars, svars, link, round
<1>2. changes' = 0 => changes = 0
    <2>1. changes \in Nat
        BY ServerAssumption DEF Before, SftpInv, TypeOK
    <2>2. ASSUME NEW p \in Path, Change(p) PROVE changes' # 0
        BY <2>1, <2>2 DEF Change
    <2> QED
        BY <1>1, <2>2
<1>3. Posted' = Posted /\ Received' = Received /\ Taken' = Taken /\ Asking' = Asking
    BY <1>1 DEF Posted, Received, Taken, Asking
<1>4. Seeking' = Seeking /\ \A a : Due(a)' = Due(a)
    BY <1>1 DEF Seeking, Due, Idle
<1>5. \A h : Held(h) => Held(h)'
    BY <1>1, <1>3, <1>4 DEF Held, Idle
<1>6. \A r \in Posted' : r.op \in {"OPEN", "OPENDIR"} => Seeking' /\ Due(r)'
    BY <1>3, <1>4 DEF HeldInv
<1>7. changes' = 0 => \A h \in DOMAIN handles' : Held(h)'
    BY <1>1, <1>2, <1>5 DEF HeldInv
<1> QED
    BY <1>1, <1>3, <1>4, <1>6, <1>7 DEF HeldInv

\* The server gives a handle only for a request whose reply is awaited.
LEMMA ServeHeld ==
    ASSUME Before, HeldInv, "CLOSE" \notin Faults, Serve \/ Fail, UNCHANGED cvars
    PROVE  HeldInv'
<1>0. SftpInv /\ ServerData /\ WindowInv
    BY DEF Before
<1>1. PICK r : r = Head(req)
    OBVIOUS
<1>2. PICK t0, v0 : Reply(t0, v0)
    BY ServerReplies
<1>3. r \in Posted /\ r.op \in Op /\ ArgsRight(r)
    BY <1>0, <1>1, <1>2, ServePosted
<1>4. PICK type, val : Reply(type, val) /\ Gives(r, type, val)
    BY <1>0, <1>1, <1>3, ServeGives
<1>5. /\ Posted' \subseteq Posted /\ \A x \in Posted' : x.ser # r.ser
      /\ UNCHANGED <<file, wait, call>> /\ Taken' = Taken
    BY <1>0, <1>1, <1>4, ServePosted
<1>6. /\ UNCHANGED <<id, send, outbuf, ignored, changes>>
    BY ServerReplies DEF cvars, link, round
<1>7. PICK a : a = [id |-> r.id, ser |-> r.ser, type |-> type, val |-> val]
    OBVIOUS
<1>8. a \in Received' /\ \A x \in Received : x \in Received'
    <2>1. rep' = Append(rep, a) /\ replies' = replies /\ IsSeq(rep)
        BY <1>0, <1>1, <1>4, <1>7 DEF Reply, cvars, link, SftpInv, Shape
    <2>2. /\ \A i \in DOMAIN rep : i \in DOMAIN rep' /\ rep'[i] = rep[i]
          /\ \E i \in DOMAIN rep' : rep'[i] = a
        BY <2>1, AppendSeq
    <2> QED
        BY <2>1, <2>2 DEF Received
<1>9. \A x \in Posted : x = r \/ x \in Posted'
    <2>1. req # <<>> /\ IsSeq(req) /\ req' = Tail(req)
        BY <1>0, <1>4, ServerReplies DEF Reply, SftpInv, Shape
    <2>2. \A i \in DOMAIN req : req[i] = r \/ \E j \in DOMAIN req' : req'[j] = req[i]
        BY <1>1, <2>1, TailSeq
    <2> QED
        BY <1>6, <2>2 DEF Posted, Asking
<1>10. Seeking' = Seeking /\ \A x : Due(x)' = Due(x)
    BY <1>5 DEF Seeking, Due
<1>11. ASSUME NEW h \in DOMAIN handles', h \in DOMAIN handles, Held(h) PROVE Held(h)'
    <2>1. CASE \E x \in Posted : x.op = "CLOSE" /\ x.arg = h
        <3>1. PICK x \in Posted : x.op = "CLOSE" /\ x.arg = h
            BY <2>1
        <3>2. x # r
            BY <1>4, <1>11, <3>1 DEF Gives
        <3> QED
            BY <1>9, <3>1, <3>2 DEF Held
    <2>2. CASE ~ \E x \in Posted : x.op = "CLOSE" /\ x.arg = h
        BY <1>5, <1>8, <1>10, <1>11, <2>2 DEF Held
    <2> QED
        BY <2>1, <2>2
<1>12. ASSUME NEW h \in DOMAIN handles', h \notin DOMAIN handles PROVE Held(h)'
    <2>1. h = r.ser /\ type = "HANDLE" /\ r.op \in {"OPEN", "OPENDIR"}
        BY <1>4, <1>12 DEF Gives
    <2>2. Seeking /\ Due(r)
        BY <1>3, <2>1 DEF HeldInv
    <2>3. a.ser = h /\ a.type = "HANDLE" /\ Ticket(a) = Ticket(r)
        BY <1>7, <2>1 DEF Ticket
    <2> QED
        BY <1>8, <1>10, <2>2, <2>3 DEF Held, Due
<1>13. changes' = 0 => \A h \in DOMAIN handles' : Held(h)'
    BY <1>6, <1>11, <1>12 DEF HeldInv
<1>14. \A x \in Posted' : x.op \in {"OPEN", "OPENDIR"} => Seeking' /\ Due(x)'
    BY <1>5, <1>10 DEF HeldInv
<1> QED
    BY <1>5, <1>6, <1>10, <1>13, <1>14 DEF HeldInv, Asking

LEMMA AroundHeld ==
    ASSUME Before, HeldInv, "CLOSE" \notin Faults, Around
    PROVE  HeldInv'
BY PollHeld, PutHeld, FlushHeld, AwaitHeld, EndHeld, ServeHeld DEF Around, Move, Environment

----------------------------------------------------------------------------
(***************************************************************************)
(* Handles when a call begins or goes on.                                  *)
(***************************************************************************)
\* What was on its way still is.
LEMMA CallPosted ==
    ASSUME Handled
    PROVE  /\ send = <<>> /\ UNCHANGED <<req, rep, outbuf, changes>>
           /\ \A x \in Posted : x \in Posted'
           /\ \A x \in News' : x \in Posted'
<1>1. send = <<>> /\ UNCHANGED <<req, rep, outbuf, changes>>
    BY DEF Handled, Asks, Fresh, ServerAlone
<1>2. Asking = {}
    BY <1>1, SmallSeqs DEF Asking, Posed
<1>3. \A x \in Posted : x \in Posted'
    BY <1>1, <1>2 DEF Posted
<1> QED
    BY <1>1, <1>3 DEF Posted, News

\* Ids only grow.
LEMMA IdGrows ==
    ASSUME Before, Handled, FewRequests'
    PROVE  /\ id \in Nat /\ id' \in Nat /\ id <= id'
           /\ \A n \in Nat : Draw(n) => \A k \in 1 .. n : id <= NewId(k)
<1>0. SftpInv /\ Known
    BY DEF Before, MatchInv
<1>1. id \in Nat /\ serial \in Nat /\ id <= serial + 1 /\ IdMod \in Nat
    BY <1>0, ClientAssumption DEF SftpInv, TypeOK, Known
<1>2. ASSUME NEW n \in Nat, serial' = serial + n
      PROVE  /\ \A k \in 1 .. n : id <= NewId(k)
             /\ n > 0 => (NewId(n) + 1) % IdMod \in Nat /\ id <= (NewId(n) + 1) % IdMod
    <2>1. serial + n < IdMod - 1
        BY <1>2 DEF FewRequests
    <2>2. PICK b \in Nat :
              /\ id <= b + 1 /\ b <= serial
              /\ \A k \in 1 .. n : NewId(k) = b + k
              /\ n > 0 => (NewId(n) + 1) % IdMod = b + n + 1
        BY <1>1, <2>1, NewIds
    <2> QED
        BY <1>1, <2>2
<1>3. PICK n \in Nat : Asks(n)
    BY DEF Handled
<1>4. serial' = serial + n /\ (Drawn(n) \/ id' = id)
    BY <1>3 DEF Asks, Fresh
<1>5. id' \in Nat /\ id <= id'
    <2>1. n = 0 \/ n > 0
        OBVIOUS
    <2> QED
        BY <1>1, <1>2, <1>4, <2>1 DEF Drawn
<1> QED
    BY <1>1, <1>2, <1>5 DEF Draw

\* What is ignored has been asked for.
LEMMA IgnoredBefore ==
    ASSUME Before, HeldInv, (StartCall \/ CallStep) /\ ~ Rest
    PROVE  \A i \in ignored' : i < id
<1>0. SftpInv /\ Known
    BY DEF Before, MatchInv
<1>1. CASE ignored' = ignored
    BY <1>1 DEF HeldInv
<1>2. CASE ReadReply /\ Ignore({t.id : t \in ToSet(file.queue)})
    <2>1. ignored' = ignored \cup {t.id : t \in ToSet(file.queue)}
        BY <1>2 DEF Ignore
    <2>2. file # NoFile
        BY <1>0, <1>2 DEF ReadReply, Replied, SftpInv, Progress
    <2>3. \A t \in ToSet(file.queue) : t.id < id
        BY <1>0, <2>2 DEF Known, Expected, Kept
    <2> QED
        BY <2>1, <2>3 DEF HeldInv
<1>3. ReadReply => UNCHANGED ignored \/ Ignore({t.id : t \in ToSet(file.queue)})
    BY DEF ReadReply
<1>4. ASSUME NEW n \in Space, ReadCall(n) PROVE ignored' = ignored
    BY <1>4, ZenonT(60) DEF ReadCall
<1>5. ASSUME NEW p \in Path, TypeCall(p) PROVE ignored' = ignored
    BY <1>5, Zenon DEF TypeCall
<1>6. ASSUME StartCall PROVE ignored' = ignored
    BY <1>4, <1>5, <1>6 DEF StartCall, MkdirCall, RemoveCall, PrefigureCall, ExistsCall, RenameCall,
        OpenCall, ContentsCall, WriteCall, CloseCall, link
<1>7. ASSUME CallStep, ~ Rest, ~ ReadReply PROVE ignored' = ignored
    BY <1>7 DEF CallStep, Rest, RenameFallback, RemoveDir, StatusReply, ExistsReap, ExistsStore,
        ExistsAnswer, ExistsUncached, ContentsReply, TypeReply, OpenReply, ReadBuffered, WriteReply,
        link
<1> QED
    BY <1>1, <1>2, <1>3, <1>6, <1>7

\* A call that is to wait for a handle has new ids.
LEMMA BeginSeeks ==
    ASSUME Before, Handled, StartCall, Seeking', FewRequests'
    PROVE  \A i \in DOMAIN wait' : id <= wait'[i].id
<1>0. SftpInv
    BY DEF Before
<1>1. ASSUME NEW op \in Op, NEW arg, RPC(op, arg) PROVE \A i \in DOMAIN wait' : id <= wait'[i].id
    <2>1. PICK r : r = Request(1, op, arg)
        OBVIOUS
    <2>2. r.id = NewId(1)
        BY <2>1, RequestFields
    <2>3. PICK t : t = Ticket(r)
        OBVIOUS
    <2>4. t.id = NewId(1) /\ wait' = <<t>>
        BY <1>1, <2>1, <2>2, <2>3, TicketFields DEF RPC
    <2>5. id <= NewId(1)
        BY <1>1, IdGrows DEF RPC, Ask
    <2> QED
        BY <2>4, <2>5, SmallSeqs
<1>2. ASSUME NEW p \in Path, TypeCall(p) PROVE \A i \in DOMAIN wait' : id <= wait'[i].id
    <2>1. PICK a, b, c :
             /\ a = Request(1, "OPEN", <<p, "ReadOnly">>) /\ b = Request(2, "OPENDIR", p)
             /\ c = Request(3, "READLINK", p)
        OBVIOUS
    <2>2. Draw(3) /\ wait' = [i \in 1 .. 3 |-> Ticket(<<a, b, c>>[i])]
        <3> DEFINE u == Request(1, "OPEN", <<p, "ReadOnly">>)
                   v == Request(2, "OPENDIR", p)
                   w == Request(3, "READLINK", p)
        <3>1. Draw(3) /\ wait' = [i \in 1 .. 3 |-> Ticket(<<u, v, w>>[i])]
            BY <1>2, Zenon DEF TypeCall
        <3>2. u = a /\ v = b /\ w = c
            BY <2>1
        <3> HIDE DEF u, v, w
        <3> QED
            BY <3>1, <3>2, Zenon
    <2>3. a.id = NewId(1) /\ b.id = NewId(2) /\ c.id = NewId(3)
        BY <2>1, RequestFields
    <2>4. id <= a.id /\ id <= b.id /\ id <= c.id
        BY <2>2, <2>3, IdGrows
    <2>5. PICK t, u, v : t = Ticket(a) /\ u = Ticket(b) /\ v = Ticket(c)
        OBVIOUS
    <2>6. id <= t.id /\ id <= u.id /\ id <= v.id
        BY <2>4, <2>5, TicketFields
    <2>7. DOMAIN wait' = 1 .. 3 /\ wait'[1] = t /\ wait'[2] = u /\ wait'[3] = v
        BY <2>2, <2>5
    <2>8. \A i \in DOMAIN wait' : i = 1 \/ i = 2 \/ i = 3
        BY <2>7
    <2> QED
        BY <2>6, <2>7, <2>8
<1>3. ASSUME NEW p, NEW mode, OpenCall(p, mode) PROVE \A i \in DOMAIN wait' : id <= wait'[i].id
    BY <1>1, <1>3 DEF OpenCall, Op
<1>4. ASSUME NEW d, ContentsCall(d) PROVE \A i \in DOMAIN wait' : id <= wait'[i].id
    BY <1>1, <1>4 DEF ContentsCall, Op
<1>5. ASSUME ~ \E p \in Path : TypeCall(p), ~ \E p, mode : OpenCall(p, mode),
             ~ \E d : ContentsCall(d)
      PROVE  FALSE
    <2>1. \E op, p, more : op \notin {"type", "open", "contents"} /\ Begin(op, p, more)
        <3>1. ASSUME NEW n \in Space, ReadCall(n) PROVE Begin("read", file.handle, n)
            BY <3>1, ZenonT(60) DEF ReadCall
        <3>2. ASSUME \/ \E p : \/ MkdirCall(p) \/ RemoveCall(p) \/ PrefigureCall(p) \/ ExistsCall(p)
                               \/ \E q : RenameCall(p, q)
                     \/ \E b : WriteCall(b)
                     \/ CloseCall
              PROVE  \E op, p, more : op \notin {"type", "open", "contents"} /\ Begin(op, p, more)
            BY <3>2 DEF MkdirCall, RemoveCall, RenameCall, PrefigureCall, ExistsCall, WriteCall,
                        CloseCall
        <3> QED
            BY <1>5, <3>1, <3>2 DEF StartCall
    <2> QED
        BY <2>1 DEF Begin, Seeking
<1> QED
    BY <1>2, <1>3, <1>4, <1>5

\* The file that is open stays so until it is closed, and its CLOSE is sent.
LEMMA FileGoes ==
    ASSUME SftpInv, HandleInv, FileInv, Handled, (StartCall \/ CallStep) /\ ~ Rest, file # NoFile
    PROVE  \/ file' # NoFile /\ file'.handle = file.handle
           \/ \E x \in News' : x.op = "CLOSE" /\ x.arg = file.handle
<1>1. file.handle # 0 /\ DOMAIN file = FileFields
    BY DEF HandleInv, SftpInv, Shape
<1>2. ASSUME file'.handle = file.handle PROVE file' # NoFile
    BY <1>1, <1>2 DEF NoFile
<1>3. CASE CloseCall
    <2>1. PICK r : r = Request(1, "CLOSE", file.handle)
        OBVIOUS
    <2>2. r.op = "CLOSE" /\ r.arg = file.handle
        BY <2>1, RequestFields
    <2>3. send' = <<r>>
        BY <1>3, <2>1 DEF CloseCall
    <2>4. 1 \in DOMAIN send' /\ send'[1] = r
        BY <2>3, SmallSeqs
    <2>5. r \in News'
        BY <2>2, <2>4 DEF News, Asking, Posed
    <2> QED
        BY <2>2, <2>5
<1>4. CASE (\E n \in Space : ReadCall(n)) \/ ReadBuffered \/ ReadReply
    <2>1. FileStays
        BY <1>4, ReadHarmless DEF Harmless
    <2> QED
        BY <1>2, <1>3, <2>1 DEF FileStays
<1>5. CASE \E b \in Content \ {<<>>} : WriteCall(b)
    <2>1. \E o : file' = [file EXCEPT !.offset = o]
        BY <1>5 DEF WriteCall
    <2> QED
        BY <1>1, <1>2, <2>1 DEF FileFields
<1>6. CASE WriteReply
    <2>1. file' = file \/ \E o : file' = [file EXCEPT !.done = o]
        BY <1>6 DEF WriteReply
    <2> QED
        BY <1>1, <1>2, <2>1 DEF FileFields
<1>7. CASE OpenReply
    <2>1. call.op = "open"
        BY <1>7 DEF OpenReply, Replied
    <2>2. file = NoFile
        BY <2>1 DEF FileInv, Opening
    <2> QED
        BY <2>2
<1>8. CASE StartCall
    <2>1. ASSUME NEW p \in Path, TypeCall(p) PROVE file' = file
        BY <2>1, Zenon DEF TypeCall
    <2>2. \/ file' = file \/ CloseCall
          \/ \E n \in Space : ReadCall(n)
          \/ \E b \in Content \ {<<>>} : WriteCall(b)
        BY <1>8, <2>1 DEF StartCall, MkdirCall, RemoveCall, PrefigureCall, ExistsCall, RenameCall,
            OpenCall, ContentsCall
    <2> QED
        BY <1>3, <1>4, <1>5, <2>2
<1>9. CASE CallStep /\ ~ Rest
    <2>1. file' = file \/ OpenReply \/ ReadBuffered \/ ReadReply \/ WriteReply
        BY <1>9 DEF CallStep, Rest, RenameFallback, RemoveDir, StatusReply, ExistsReap, ExistsStore,
            ExistsAnswer, ExistsUncached, ContentsReply, TypeReply
    <2> QED
        BY <1>4, <1>6, <1>7, <2>1
<1> QED
    BY <1>8, <1>9

\* Files and the handles that are being closed are not lost.
LEMMA HeldOn ==
    ASSUME SftpInv, HandleInv, FileInv, Handled, (StartCall \/ CallStep) /\ ~ Rest,
           NEW h, \/ file # NoFile /\ h = file.handle
                  \/ \E r \in Posted : r.op = "CLOSE" /\ r.arg = h
    PROVE  Held(h)'
<1>1. \A x : x \in Posted \/ x \in News' => x \in Posted'
    BY CallPosted
<1>2. CASE file # NoFile /\ h = file.handle
    <2>1. \/ file' # NoFile /\ file'.handle = h
          \/ \E x \in News' : x.op = "CLOSE" /\ x.arg = h
        BY <1>2, FileGoes
    <2> QED
        BY <1>1, <2>1 DEF Held
<1>3. CASE \E r \in Posted : r.op = "CLOSE" /\ r.arg = h
    BY <1>1, <1>3 DEF Held
<1> QED
    BY <1>2, <1>3

LEMMA BeginsHeld ==
    ASSUME Before, HeldInv, FileInv, Handled, StartCall, ~ Rest, Beginning, FewRequests'
    PROVE  HeldInv'
<1>0. SftpInv /\ HandleInv
    BY DEF Before
<1>1. ~ Seeking /\ call.op = "none" /\ changes' = changes /\ handles' = handles
    BY OpsDiffer DEF Beginning, Seeking
<1>2. \A r \in Posted' : r \in Posted \/ (r \in News' /\ Poses(r))
    BY HandledTold DEF Beginning, AllPosed
<1>3. \A r \in Posted' : r.op \in {"OPEN", "OPENDIR"} => Seeking' /\ Due(r)'
    BY <1>1, <1>2 DEF HeldInv, Poses
<1>4. Seeking' => \A i \in Asking' : send'[i].op # "CLOSE"
    BY DEF Beginning, AllPosed, Poses, News
<1>5. id \in Nat /\ id' \in Nat /\ id <= id' /\ ignored' \subseteq Id
    BY IdGrows DEF Handled, Lets
<1>6. \A i \in ignored' : i < id /\ i \in Nat
    BY <1>5, IgnoredBefore, ClientAssumption DEF Id
<1>7. \A i \in ignored' : i < id'
    BY <1>5, <1>6
<1>8. Seeking' => \A i \in DOMAIN wait' : wait'[i].id \notin ignored'
    <2> SUFFICES ASSUME Seeking', NEW i \in DOMAIN wait', wait'[i].id \in ignored' PROVE FALSE
        OBVIOUS
    <2>1. id <= wait'[i].id
        BY BeginSeeks
    <2> QED
        BY <1>5, <1>6, <2>1
<1>9. ASSUME NEW h, Held(h) PROVE Held(h)'
    <2>1. \/ file # NoFile /\ h = file.handle
          \/ \E r \in Posted : r.op = "CLOSE" /\ r.arg = h
        BY <1>1, <1>9 DEF Held
    <2> QED
        BY <1>0, <2>1, HeldOn
<1>10. changes' = 0 => \A h \in DOMAIN handles' : Held(h)'
    BY <1>1, <1>9 DEF HeldInv
<1> QED
    BY <1>3, <1>4, <1>7, <1>8, <1>10 DEF HeldInv

\* Each handle that a call leaves gets its CLOSE.
LEMMA LeaveCloses ==
    ASSUME NEW status, NEW val, NEW hs, Leave(status, val, hs), NEW i \in DOMAIN hs
    PROVE  \E x \in News' : x.op = "CLOSE" /\ x.arg = hs[i]
<1>1. send' = [j \in DOMAIN hs |-> Request(j, "CLOSE", hs[j])]
    BY DEF Leave
<1>2. PICK r : r = Request(i, "CLOSE", hs[i])
    OBVIOUS
<1>3. r.op = "CLOSE" /\ r.arg = hs[i]
    BY <1>2, RequestFields
<1>4. i \in DOMAIN send' /\ send'[i] = r
    BY <1>1, <1>2
<1>5. r \in News'
    BY <1>3, <1>4 DEF News, Asking, Posed
<1> QED
    BY <1>3, <1>5

\* contents() keeps the handle it gets, and closes it.
LEMMA ContentsHolds ==
    ASSUME Before, ListInv, Handled, CallStep, ~ Rest, call.op = "contents"
    PROVE  /\ ~ Seeking'
           /\ \A h : h # 0 /\ h = call.more.handle => Held(h)'
           /\ call.more.handle = 0 => \A a \in Taken : a.type = "HANDLE" => Held(a.ser)'
<1>0. SftpInv /\ HandleInv
    BY DEF Before
<1>1. ContentsReply
    BY DEF CallStep, Rest, ExistsReap, ExistsStore, ExistsAnswer, ExistsUncached, ExistsLookup,
           TypeReply, RenameFallback, RemoveDir, StatusReply, OpenReply, ReadBuffered,
           ReadReply, WriteReply, Replied
<1>2. /\ Replied("contents") /\ DOMAIN call = {"op", "path", "more"}
      /\ DOMAIN call.more = {"id", "handle", "names"}
    BY <1>0, <1>1 DEF ContentsReply, SftpInv, Progress
<1>3. PICK m, a : m = call.more /\ a = Answer(1)
    OBVIOUS
<1>4. PICK s \in 1 .. serial : Listed(s, call.path, m)
    BY <1>3 DEF ListInv
<1>5. a \in Taken /\ a \in Told /\ a.ser = s
    BY <1>0, <1>2, <1>3, <1>4, OnlyAnswer DEF Listed, Told
<1>6. \A x \in Taken : x = a
    <2>1. got # <<>>
        BY <1>2 DEF Replied
    <2>2. PICK g : got = <<g>>
        BY <1>4, <2>1 DEF Listed, OneRequest
    <2>3. DOMAIN got = {1} /\ a = got[1].reply
        BY <1>3, <2>2, SmallSeqs DEF Answer
    <2> QED
        BY <2>3 DEF Taken
<1>7. serial \in Nat /\ s # 0
    BY <1>0 DEF SftpInv, TypeOK
<1>8. ASSUME NEW more, DOMAIN more = {"id", "handle", "names"}, NextBatch(more), more.handle # 0
      PROVE  ~ Seeking' /\ Held(more.handle)'
    <2>1. call' = [call EXCEPT !.more = more]
        BY <1>8 DEF NextBatch
    <2>2. call'.op = "contents" /\ call'.more = more
        BY <1>2, <2>1
    <2> QED
        BY <1>8, <2>2 DEF Seeking, Held
<1>9. ASSUME NEW status, NEW val, NEW hs, IsSeq(hs), Leave(status, val, hs),
             m.handle # 0 => \E i \in DOMAIN hs : hs[i] = m.handle
      PROVE  ~ Seeking' /\ (m.handle # 0 => Held(m.handle)')
    <2>1. ~ Seeking'
        BY <1>9, LeavePoses DEF Seeking
    <2>2. m.handle # 0 => \E x \in News' : x.op = "CLOSE" /\ x.arg = m.handle
        BY <1>9, LeaveCloses
    <2> QED
        BY <2>1, <2>2, CallPosted DEF Held
<1>10. CASE a.type = "HANDLE" /\ NextBatch([m EXCEPT !.handle = a.val])
    <2>1. m.handle = 0 /\ a.val = s
        BY <1>0, <1>4, <1>5, <1>10 DEF Listed, HandleInv
    <2>2. PICK more : more = [m EXCEPT !.handle = a.val]
        OBVIOUS
    <2>3. DOMAIN more = {"id", "handle", "names"} /\ more.handle = s
        BY <1>2, <1>3, <2>1, <2>2
    <2>4. ~ Seeking' /\ Held(s)'
        BY <1>7, <1>8, <1>10, <2>2, <2>3
    <2> QED
        BY <1>3, <1>5, <1>6, <2>1, <2>4
<1>11. CASE a.type = "NAME" /\ NextBatch([m EXCEPT !.names = AddBatch(@, a.val)])
    <2>1. m.handle # 0
        BY <1>4, <1>5, <1>11 DEF Listed
    <2>2. PICK more : more = [m EXCEPT !.names = AddBatch(@, a.val)]
        OBVIOUS
    <2>3. DOMAIN more = {"id", "handle", "names"} /\ more.handle = m.handle
        BY <1>2, <1>3, <2>2
    <2>4. ~ Seeking' /\ Held(m.handle)'
        BY <1>8, <1>11, <2>1, <2>2, <2>3
    <2> QED
        BY <1>3, <2>1, <2>4
<1>12. CASE Says(a, "EOF") /\ Leave("OK", m.names, <<m.handle>>)
    <2>1. m.handle # 0
        BY <1>4, <1>5, <1>12 DEF Listed
    <2>2. PICK hs : hs = <<m.handle>>
        OBVIOUS
    <2>3. IsSeq(hs) /\ 1 \in DOMAIN hs /\ hs[1] = m.handle
        BY <2>2, SmallSeqs
    <2> QED
        BY <1>3, <1>9, <1>12, <2>1, <2>2, <2>3
<1>13. CASE Failed(a) /\ Leave(a.val, "", IF m.handle = 0 THEN <<>> ELSE <<m.handle>>)
    <2>1. PICK hs : hs = IF m.handle = 0 THEN <<>> ELSE <<m.handle>>
        OBVIOUS
    <2>2. IsSeq(hs) /\ (m.handle # 0 => 1 \in DOMAIN hs /\ hs[1] = m.handle)
        BY <2>1, SmallSeqs
    <2>3. ~ Seeking' /\ (m.handle # 0 => Held(m.handle)')
        BY <1>9, <1>13, <2>1, <2>2
    <2>4. a.type # "HANDLE"
        BY <1>13 DEF Failed
    <2> QED
        BY <1>3, <1>6, <2>3, <2>4
<1> QED
    BY <1>1, <1>3, <1>10, <1>11, <1>12, <1>13 DEF ContentsReply

\* type() closes what it has opened: if names stay, its first request cannot
\* say that there is nothing when the second has opened a directory.
LEMMA TypeCloses ==
    ASSUME Before, TypeInv, Handled, CallStep, ~ Rest, call.op = "type"
    PROVE  /\ ~ Seeking'
           /\ changes = 0 => \A a \in Taken : a.type = "HANDLE" => Held(a.ser)'
<1>0. SftpInv /\ HandleInv
    BY DEF Before
<1>1. TypeReply
    BY DEF CallStep, Rest, ExistsReap, ExistsStore, ExistsAnswer, ExistsUncached, ExistsLookup,
           ContentsReply, RenameFallback, RemoveDir, StatusReply, OpenReply, ReadBuffered,
           ReadReply, WriteReply, Replied
<1>2. wait = <<>> /\ IsSeq(got)
    BY <1>0, <1>1 DEF TypeReply, Replied, Finished, SftpInv, Shape
<1>3. DOMAIN got = 1 .. 3
    <2>1. Len(wait) = 0 /\ Len(got) \in Nat /\ Len(wait) + Len(got) = 3
        BY <1>0, <1>2, SmallSeqs, SeqLength DEF HandleInv
    <2> QED
        BY <1>2, <2>1, SeqLength
<1>4. PICK p : p = call.path /\ p \in Path
    BY <1>0 DEF SftpInv, Progress
<1>5. PICK s \in 0 .. serial :
         Three(s) /\ Unmoved(s, p) /\ Stands(s + 3, "READLINK", p)
    BY <1>4 DEF TypeInv
<1>6. PICK a, b, c : a = Answer(1) /\ b = Answer(2) /\ c = Answer(3)
    OBVIOUS
<1>7. /\ a \in Taken /\ a.ser = s + 1 /\ b \in Taken /\ b.ser = s + 2 /\ c \in Taken /\ c.ser = s + 3
      /\ \A x \in Taken : x = a \/ x = b \/ x = c
    <2>1. 1 \in DOMAIN got /\ 2 \in DOMAIN got /\ 3 \in DOMAIN got
          /\ \A i \in DOMAIN got : i = 1 \/ i = 2 \/ i = 3
        BY <1>3
    <2> QED
        BY <1>5, <1>6, <2>1 DEF Answer, Taken, Three
<1>8. c.type # "HANDLE"
    <2>1. Truth("READLINK", p, c)
        BY <1>5, <1>7 DEF Stands, Told
    <2> QED
        BY <1>4, <2>1 DEF Truth
<1>9. ASSUME changes = 0, Says(a, "NO_SUCH_FILE") PROVE a.type # "HANDLE" /\ b.type # "HANDLE"
    BY <1>5, <1>7, <1>9 DEF Unmoved, Told, Says
<1>10. CASE Says(a, "NO_SUCH_FILE") /\ Leave("NO_SUCH_FILE", "", <<>>)
    <2>1. ~ Seeking'
        BY <1>10, LeavePoses, SmallSeqs DEF Seeking
    <2> QED
        BY <1>7, <1>8, <1>9, <1>10, <2>1
<1>11. CASE Leave("OK", TypeDeduced, TypeHandles)
    <2> DEFINE h(i) == IF Answer(i).type = "HANDLE" THEN <<Answer(i).val>> ELSE <<>>
    <2>1. PICK u, v : u = h(1) /\ v = h(2)
        OBVIOUS
    <2>2. /\ u = IF a.type = "HANDLE" THEN <<a.val>> ELSE <<>>
          /\ v = IF b.type = "HANDLE" THEN <<b.val>> ELSE <<>>
        BY <1>6, <2>1
    <2>3. TypeHandles = u \o v
        BY <2>1 DEF TypeHandles
    <2>4. PICK hs : hs = u \o v
        OBVIOUS
    <2>5. PICK S : u \in Seq(S) /\ v \in Seq(S)
        <3>1. a.val \in {a.val, b.val} /\ b.val \in {a.val, b.val}
            OBVIOUS
        <3>2. \E S : a.val \in S /\ b.val \in S
            BY <3>1
        <3> QED
            BY <2>2, <3>2, EmptySeq
    <2>6. /\ hs \in Seq(S) /\ Len(hs) = Len(u) + Len(v)
          /\ \A i \in 1 .. Len(u) + Len(v) : hs[i] = IF i <= Len(u) THEN u[i] ELSE v[i - Len(u)]
        BY <2>4, <2>5, ConcatProperties
    <2>7. /\ Len(u) \in Nat /\ Len(v) \in Nat
          /\ DOMAIN hs = 1 .. Len(u) + Len(v) /\ IsSeq(hs)
        BY <2>5, <2>6, LenProperties DEF IsSeq
    <2>8. a.type = "HANDLE" => \E i \in DOMAIN hs : hs[i] = a.val
        <3> SUFFICES ASSUME a.type = "HANDLE" PROVE \E i \in DOMAIN hs : hs[i] = a.val
            OBVIOUS
        <3>1. Len(u) = 1 /\ u[1] = a.val
            BY <2>2
        <3>2. 1 \in DOMAIN hs /\ hs[1] = u[1]
            BY <2>6, <2>7, <3>1
        <3> QED
            BY <3>1, <3>2
    <2>9. b.type = "HANDLE" => \E i \in DOMAIN hs : hs[i] = b.val
        <3> SUFFICES ASSUME b.type = "HANDLE" PROVE \E i \in DOMAIN hs : hs[i] = b.val
            OBVIOUS
        <3>1. Len(v) = 1 /\ v[1] = b.val
            BY <2>2
        <3>2. Len(u) + 1 \in DOMAIN hs /\ hs[Len(u) + 1] = v[1]
            BY <2>6, <2>7, <3>1
        <3> QED
            BY <3>1, <3>2
    <2>10. a.type = "HANDLE" => a.val = a.ser
        BY <1>0, <1>7 DEF HandleInv
    <2>11. b.type = "HANDLE" => b.val = b.ser
        BY <1>0, <1>7 DEF HandleInv
    <2>12. PICK w : Leave("OK", w, hs)
        BY <1>11, <2>3, <2>4
    <2>13. ~ Seeking'
        BY <2>7, <2>12, LeavePoses DEF Seeking
    <2>14. \A i \in DOMAIN hs : Held(hs[i])'
        BY <2>12, LeaveCloses, CallPosted DEF Held
    <2> QED
        BY <1>7, <1>8, <2>8, <2>9, <2>10, <2>11, <2>13, <2>14
<1> QED
    BY <1>1, <1>6, <1>10, <1>11 DEF TypeReply

\* open() puts the handle into the file.
LEMMA OpenHolds ==
    ASSUME Before, FileInv, Handled, CallStep, ~ Rest, call.op = "open"
    PROVE  ~ Seeking' /\ \A a \in Taken : a.type = "HANDLE" => Held(a.ser)'
<1>0. SftpInv /\ HandleInv
    BY DEF Before
<1>1. OpenReply
    BY DEF CallStep, Rest, ExistsReap, ExistsStore, ExistsAnswer, ExistsUncached, ExistsLookup,
           ContentsReply, RenameFallback, RemoveDir, StatusReply, TypeReply, ReadBuffered,
           ReadReply, WriteReply, Replied
<1>2. Replied("open") /\ \E status : Leave(status, "", <<>>)
    BY <1>1 DEF OpenReply
<1>3. PICK s \in 1 .. serial : OneRequest(s)
    BY DEF FileInv
<1>4. PICK a : a = Answer(1)
    OBVIOUS
<1>5. a \in Taken /\ a.ser = s
    BY <1>0, <1>2, <1>3, <1>4, OnlyAnswer
<1>6. \A x \in Taken : x = a
    <2>1. got # <<>>
        BY <1>2 DEF Replied
    <2>2. PICK g : got = <<g>>
        BY <1>3, <2>1 DEF OneRequest
    <2>3. DOMAIN got = {1} /\ a = got[1].reply
        BY <1>4, <2>2, SmallSeqs DEF Answer
    <2> QED
        BY <2>3 DEF Taken
<1>7. ~ Seeking'
    BY <1>2, LeavePoses, SmallSeqs DEF Seeking
<1>8. ASSUME a.type = "HANDLE" PROVE Held(a.ser)'
    <2>1. a.val = a.ser /\ a.ser # 0
        <3>1. serial \in Nat
            BY <1>0 DEF SftpInv, TypeOK
        <3> QED
            BY <1>0, <1>5, <1>8, <3>1 DEF HandleInv
    <2>2. file'.handle = a.val
        <3>1. file' = [handle |-> Answer(1).val, mode |-> call.more, queue |-> <<>>,
                       offset |-> 0, buf |-> <<>>, eof |-> FALSE, done |-> <<>>,
                       end |-> FALSE, failed |-> FALSE]
            BY <1>1, <1>4, <1>8 DEF OpenReply
        <3> QED
            BY <1>4, <3>1
    <2> QED
        BY <2>1, <2>2 DEF Held, NoFile
<1> QED
    BY <1>6, <1>7, <1>8

\* A call goes on only when it awaits nothing more.
LEMMA GoesFinished ==
    ASSUME CallStep, ~ Rest
    PROVE  wait = <<>> /\ \A a : ~ Due(a)
<1>1. wait = <<>>
    BY DEF CallStep, Rest, ExistsReap, ExistsStore, ExistsAnswer, ExistsUncached, ExistsLookup,
           ContentsReply, TypeReply, RenameFallback, RemoveDir, StatusReply, OpenReply,
           ReadBuffered, ReadReply, WriteReply, Replied, Finished
<1>2. ToSet(wait) = {}
    BY <1>1, SmallSeqs DEF ToSet
<1> QED
    BY <1>1, <1>2 DEF Due

LEMMA GoesHeld ==
    ASSUME Before, HeldInv, FileInv, TypeInv, ListInv, Handled, CallStep, ~ Rest, Going,
           FewRequests'
    PROVE  HeldInv'
<1>0. SftpInv /\ HandleInv
    BY DEF Before
<1>1. changes' = changes /\ handles' = handles
    BY DEF Going, svars
<1>2. wait = <<>> /\ \A a : ~ Due(a)
    BY GoesFinished
<1>3. ~ Seeking'
    <2>1. CASE call.op \in {"open", "type", "contents"}
        BY <2>1, OpenHolds, TypeCloses, ContentsHolds
    <2>2. CASE call.op \notin {"open", "type", "contents"}
        BY <2>2 DEF Going, Seeking
    <2> QED
        BY <2>1, <2>2
<1>4. \A r \in Posted' : r \in Posted \/ (r \in News' /\ Poses(r))
    BY HandledTold DEF Going, AllPosed
<1>5. \A r \in Posted' : r.op \notin {"OPEN", "OPENDIR"}
    BY <1>2, <1>3, <1>4 DEF HeldInv, Poses
<1>6. id \in Nat /\ id' \in Nat /\ id <= id' /\ ignored' \subseteq Id
    BY IdGrows DEF Handled, Lets
<1>7. \A i \in ignored' : i < id'
    <2>1. \A i \in ignored' : i < id /\ i \in Nat
        BY <1>6, IgnoredBefore, ClientAssumption DEF Id
    <2> QED
        BY <1>6, <2>1
<1>8. ASSUME NEW h, Held(h), changes = 0 PROVE Held(h)'
    <2>1. CASE \/ file # NoFile /\ h = file.handle
               \/ \E r \in Posted : r.op = "CLOSE" /\ r.arg = h
        BY <1>0, <2>1, HeldOn
    <2>2. CASE call.op = "contents" /\ h # 0 /\ h = call.more.handle
        BY <2>2, ContentsHolds
    <2>3. CASE Seeking /\ \E a \in Taken : a.ser = h /\ a.type = "HANDLE"
        BY <1>8, <2>3, OpenHolds, TypeCloses, ContentsHolds DEF Seeking
    <2> QED
        BY <1>2, <1>8, <2>1, <2>2, <2>3 DEF Held
<1>9. changes' = 0 => \A h \in DOMAIN handles' : Held(h)'
    BY <1>1, <1>8 DEF HeldInv
<1> QED
    BY <1>3, <1>5, <1>7, <1>9 DEF HeldInv

----------------------------------------------------------------------------
(***************************************************************************)
(* Handles, at all times.                                                  *)
(***************************************************************************)
LEMMA InitHeld ==
    ASSUME Init
    PROVE  KeepInv
<1>1. /\ send = <<>> /\ outbuf = <<>> /\ req = <<>> /\ wait = <<>> /\ call = Idle
      /\ ignored = {} /\ handles = <<>>
    BY DEF Init, ServerInit, ClientInit
<1>2. DOMAIN <<>> = {}
    BY SmallSeqs
<1>3. Posted = {} /\ Asking = {}
    BY <1>1, <1>2 DEF Posted, Asking, Posed
<1> QED
    BY <1>1, <1>2, <1>3 DEF KeepInv, HeldInv

LEMMA NextHeld ==
    ASSUME SftpInv, MatchInv, StoredInv, AnswerInv, KeepInv, "CLOSE" \notin Faults, [Next]_vars
    PROVE  KeepInv'
<1> SUFFICES ASSUME FewRequests' PROVE HeldInv'
    BY DEF KeepInv
<1>1. FewRequests
    BY FewerBefore
<1>2. Before /\ HeldInv /\ TypeInv /\ ListInv /\ FileInv
    BY <1>1 DEF Before, StoredInv, AnswerInv, KeepInv
<1>3. CASE StartCall /\ ~ Rest
    <2>1. Beginning /\ Handled
        BY <1>2, <1>3, BeginsAre, StepsHandled
    <2> QED
        BY <1>2, <1>3, <2>1, BeginsHeld
<1>4. CASE CallStep /\ ~ Rest
    <2>1. Going /\ Handled
        BY <1>2, <1>4, GoesOnAre, StepsHandled
    <2> QED
        BY <1>2, <1>4, <2>1, GoesHeld
<1>5. CASE Around
    BY <1>2, <1>5, AroundHeld
<1> QED
    BY <1>3, <1>4, <1>5, StepsAre DEF Around

LEMMA AlwaysHeld == "CLOSE" \notin Faults /\ Spec => []KeepInv
<1> SUFFICES ASSUME "CLOSE" \notin Faults PROVE Spec => []KeepInv
    OBVIOUS
<1>1. /\ SftpInv /\ MatchInv /\ StoredInv /\ AnswerInv /\ KeepInv /\ [Next]_vars
      => SftpInv' /\ MatchInv' /\ StoredInv' /\ AnswerInv' /\ KeepInv'
    BY NextInv, NextMatch, NextStored, NextAnswers, NextHeld
<1>2. Init => SftpInv /\ MatchInv /\ StoredInv /\ AnswerInv /\ KeepInv
    BY InitInv, InitMatch, InitStored, InitAnswers, InitHeld
<1> QED
    BY <1>1, <1>2, PTL DEF Spec

LEMMA HandlesAre ==
    ASSUME SftpInv, KeepInv, FewRequests
    PROVE  HandlesReturned
<1> SUFFICES ASSUME call = Idle, changes = 0, NEW h \in DOMAIN handles
             PROVE  \/ h = file.handle
                    \/ \E r \in ToSet(outbuf) \cup ToSet(req) : r.op = "CLOSE" /\ r.arg = h
    BY DEF HandlesReturned
<1>1. call.op = "none" /\ send = <<>>
    BY OpsDiffer DEF SftpInv, Progress
<1>2. \/ file # NoFile /\ h = file.handle
      \/ \E r \in Posted : r.op = "CLOSE" /\ r.arg = h
    BY <1>1 DEF KeepInv, HeldInv, Held, Seeking
<1>3. Asking = {}
    BY <1>1, SmallSeqs DEF Asking, Posed
<1>4. Posted = ToSet(outbuf) \cup ToSet(req)
    BY <1>3 DEF Posted, ToSet
<1> QED
    BY <1>2, <1>4

\* Between two calls every handle that the server holds is that of the open
\* file, or its CLOSE is on its way: open(), type() and contents() leave no
\* handle behind, whichever of their requests fail and in whatever order the
\* replies come.  That is as long as nobody else changes names, for type()
\* does not close what OPENDIR opened when OPEN found nothing, and as long as
\* no id is given out a second time and the server closes what it is asked to
\* (~SftpFile, closehandle, contents and type, sftp.cc:246-249, 672-798).
THEOREM HandlesClosed ==
    Spec => [](serial < IdMod - 1 /\ "CLOSE" \notin Faults => HandlesReturned)
<1>1. CASE "CLOSE" \notin Faults
    <2>1. SftpInv /\ KeepInv =>
             (serial < IdMod - 1 /\ "CLOSE" \notin Faults => HandlesReturned)
        BY HandlesAre DEF FewRequests
    <2> QED
        BY <1>1, <2>1, AlwaysInv, AlwaysHeld, PTL
<1>2. CASE "CLOSE" \in Faults
    <2>1. serial < IdMod - 1 /\ "CLOSE" \notin Faults => HandlesReturned
        BY <1>2
    <2> QED
        BY <2>1, PTL
<1> QED
    BY <1>1, <1>2
=============================================================================
