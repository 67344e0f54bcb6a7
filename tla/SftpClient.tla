---------------------------- MODULE SftpClient ----------------------------
(***************************************************************************)
(* SftpFilesystem and SftpFile: the backup medium of a run with --sftp.    *)
(* The rest of the program makes one call at a time, in any order that its *)
(* own code could.  A call is a series of rounds: requests are put into    *)
(* the output buffer and flushed, then replies are awaited, and what came  *)
(* back decides what the call does next.  Connecting, and the exchange of  *)
(* versions, is over when the model begins.                                *)
(***************************************************************************)
EXTENDS SftpServer

CONSTANTS
    IdMod,      \* request ids are 1..IdMod-1: 2^32 in the code
    Reorder,    \* TRUE if replies may overtake each other
    ReadQueue,  \* readqueuesize
    Space,      \* how many bytes the caller may ask readbytes() for
    Calls,      \* the calls the program makes
    MaxCalls    \* bound: calls

ASSUME ClientAssumption ==
    /\ IdMod \in Nat /\ IdMod > 2
    /\ Reorder \in BOOLEAN
    /\ ReadQueue \in Nat \ {0} /\ Space \subseteq Nat \ {0}
    /\ MaxCalls \in Nat

VARIABLES
    id,        \* the next request id, or 0
    replies,   \* replies received and not yet awaited, by id
    ignored,   \* ids whose replies nobody will await
    inflight,  \* existence_inflight: STAT requests on their way, with paths
    existence, \* the answers to them that nobody has asked for yet
    posix_rename,
    file,      \* the SftpFile that is open, or NoFile
    call,      \* the call in progress
    send,      \* what the round still has to put into the output buffer; a
               \* flush is part of it
    outbuf,    \* requests put and not flushed
    wait,      \* the requests whose replies the round still has to await
    got,       \* the replies awaited so far in this round, each with the
               \* request it was awaited for
    result,    \* what the last call returned
    alive,     \* FALSE once an exception or fatal() has ended the program
    serial,    \* history: requests made so far
    asked,     \* history: names prefigured and not asked about since
    calls      \* calls so far

round == <<send, outbuf, wait, got>>
link == <<id, serial, replies, ignored>>
cache == <<inflight, existence, asked>>
cvars == <<link, round, cache, posix_rename, file, call, result, alive, calls>>
vars == <<svars, cvars>>

Idle == [op |-> "none"]
NoFile == [handle |-> 0]
NoResult == [op |-> "none", status |-> "none"]
Flush == [op |-> "flush"]

ClientInit ==
    /\ id = 0 /\ serial = 0 /\ replies = <<>> /\ ignored = {}
    /\ inflight = <<>> /\ existence = <<>> /\ asked = {} /\ posix_rename = TRUE
    /\ file = NoFile /\ call = Idle /\ result = NoResult /\ alive = TRUE
    /\ send = <<>> /\ outbuf = <<>> /\ wait = <<>> /\ got = <<>> /\ calls = 0

(***************************************************************************)
(* Requests and their ids.                                                 *)
(***************************************************************************)
\* Mutant: the first id is handed out again and again.
StuckId(k) == 1

\* Mutant: 0 is not skipped.
ZeroId(k) == (id + k - 1) % IdMod

\* The k-th id that newid() returns from now on: 0 is skipped when id wraps.
NewId(k) == 1 + (((IF id = 0 THEN 0 ELSE id - 1) + k - 1) % (IdMod - 1))

Draw(k) ==
    /\ serial' = serial + k
    /\ id' = IF k = 0 THEN id ELSE (NewId(k) + 1) % IdMod

Request(k, op, arg) == [id |-> NewId(k), ser |-> serial + k, op |-> op, arg |-> arg]
Ticket(r) == [id |-> r.id, ser |-> r.ser]

\* One request, flushed; RPC also awaits its reply.
Ask(op, arg) == Draw(1) /\ send' = <<Request(1, op, arg), Flush>>
RPC(op, arg) == Ask(op, arg) /\ wait' = <<Ticket(Request(1, op, arg))>>

\* ignore(): an id is marked even if its reply has been received already.
Ignore(ids) ==
    /\ replies' = RestrictDomain(replies, LAMBDA i : i \notin ids)
    /\ ignored' = ignored \cup ids

(***************************************************************************)
(* The round of requests and replies.                                      *)
(***************************************************************************)
Sending == send # <<>> /\ Head(send).op # "flush"
Awaiting == send = <<>> /\ wait # <<>> /\ wait[1].id \notin DOMAIN replies
Finished == alive /\ call # Idle /\ send = <<>> /\ wait = <<>>

\* poll(), from send() while there is something to read, and from await().
Poll ==
    /\ alive /\ (Sending \/ Awaiting) /\ rep # <<>>
    /\ \E i \in IF Reorder THEN DOMAIN rep ELSE {1} :
         LET r == rep[i] IN
         /\ rep' = RemoveAt(rep, i)
         /\ \/ /\ r.id \in ignored
               /\ ignored' = ignored \ {r.id} /\ UNCHANGED replies
            \/ /\ r.id \notin ignored
               /\ replies' = Put(replies, r.id, r) /\ UNCHANGED ignored
    /\ UNCHANGED <<up, req, tree, data, handles, window, refused, changes, faults, id,
                   serial, round, cache, posix_rename, file, call, result, alive, calls>>

\* Mutant: a request is put without looking for replies.
MayPutAlways == alive /\ up /\ Sending

MayPut == alive /\ up /\ Sending /\ rep = <<>>

\* send(): every CLOSE is then ignored.
PutRequest ==
    /\ MayPut
    /\ outbuf' = Append(outbuf, Head(send)) /\ send' = Tail(send)
    /\ \/ Head(send).op = "CLOSE" /\ Ignore({Head(send).id})
       \/ Head(send).op # "CLOSE" /\ UNCHANGED <<replies, ignored>>
    /\ UNCHANGED <<svars, id, serial, wait, got, cache, posix_rename, file, call,
                   result, alive, calls>>

\* out->flush(), one request at a time as there is room in the pipe.
FlushRequest ==
    /\ alive /\ up /\ send # <<>> /\ ~Sending /\ outbuf # <<>> /\ Len(req) < ReqCap
    /\ req' = Append(req, Head(outbuf)) /\ outbuf' = Tail(outbuf)
    /\ send' = IF Len(outbuf) = 1 THEN Tail(send) ELSE send
    /\ UNCHANGED <<up, rep, tree, data, handles, window, refused, changes, faults, link,
                   wait, got, cache, posix_rename, file, call, result, alive, calls>>

\* The rest of await(), once the reply is there.
Await ==
    /\ alive /\ send = <<>> /\ wait # <<>> /\ ~Awaiting
    /\ got' = Append(got, [reply |-> replies[wait[1].id], ser |-> wait[1].ser])
    /\ replies' = RestrictDomain(replies, LAMBDA i : i # wait[1].id)
    /\ wait' = Tail(wait)
    /\ UNCHANGED <<svars, id, serial, ignored, send, outbuf, cache, posix_rename, file,
                   call, result, alive, calls>>

\* The connection is lost: a flush fails, or recv() finds nothing to read.
Die ==
    /\ alive /\ ~up
    /\ \/ send # <<>> /\ ~Sending
       \/ (Sending \/ Awaiting) /\ rep = <<>>
    /\ alive' = FALSE
    /\ UNCHANGED <<svars, link, round, cache, posix_rename, file, call, result, calls>>

(***************************************************************************)
(* Beginning and ending a call.                                            *)
(***************************************************************************)
Begin(op, p, more) ==
    /\ alive /\ call = Idle /\ op \in Calls /\ calls < MaxCalls
    /\ call' = [op |-> op, path |-> p, more |-> more]
    /\ result' = NoResult
    /\ calls' = calls + 1
    /\ window' = [q \in Path |-> IF q \in asked THEN window[q] ELSE {tree[q].kind}]
    /\ refused' = refused \cap asked
    /\ UNCHANGED <<up, req, rep, tree, data, handles, changes, faults, outbuf, got,
                   alive>>

\* The call is over but for closing some handles.
Leave(status, val, hs) ==
    /\ Draw(Len(hs))
    /\ send' = [i \in DOMAIN hs |-> Request(i, "CLOSE", hs[i])]
    /\ call' = IF hs = <<>> THEN Idle ELSE [op |-> "return"]
    /\ result' = [op |-> call.op, path |-> call.path, more |-> call.more,
                  status |-> status, val |-> val]
    /\ got' = <<>>
    /\ UNCHANGED <<svars, wait, outbuf, alive, calls>>

\* The call goes on with another request.
Again(op, arg, c) ==
    /\ RPC(op, arg)
    /\ call' = c
    /\ got' = <<>>
    /\ UNCHANGED <<svars, outbuf, result, alive, calls>>

Return ==
    /\ Finished /\ call.op \in {"return", "prefigure", "close"}
    /\ call' = Idle
    /\ UNCHANGED <<svars, link, round, cache, posix_rename, file, result, alive, calls>>

Replied(op) == Finished /\ call.op = op /\ got # <<>>
Answer(n) == got[n].reply
Says(r, status) == r.type = "STATUS" /\ r.val = status
Failed(r) == r.type = "STATUS" /\ r.val # "OK"
MaxOf(a, b) == IF a > b THEN a ELSE b
MinOf(a, b) == IF a < b THEN a ELSE b

(***************************************************************************)
(* mkdir, rename and remove.                                               *)
(***************************************************************************)
MkdirCall(p) ==
    /\ Begin("mkdir", p, "") /\ RPC("MKDIR", p)
    /\ UNCHANGED <<replies, ignored, cache, posix_rename, file>>

RenameOp == IF posix_rename THEN "POSIX_RENAME" ELSE "RENAME"

RenameCall(p, q) ==
    /\ Begin("rename", p, q) /\ RPC(RenameOp, <<p, q>>)
    /\ UNCHANGED <<replies, ignored, cache, posix_rename, file>>

\* Without the extension every later rename is an ordinary one.
RenameFallback ==
    /\ Replied("rename") /\ posix_rename /\ Says(Answer(1), "OP_UNSUPPORTED")
    /\ posix_rename' = FALSE
    /\ Again("RENAME", <<call.path, call.more>>, call)
    /\ UNCHANGED <<replies, ignored, cache, file>>

RemoveCall(p) ==
    /\ Begin("remove", p, "") /\ RPC("REMOVE", p)
    /\ UNCHANGED <<replies, ignored, cache, posix_rename, file>>

\* unlink() failed: perhaps it is a directory.
RemoveDir ==
    /\ Replied("remove") /\ Says(Answer(1), "FAILURE")
    /\ Again("RMDIR", call.path, [call EXCEPT !.op = "rmdir"])
    /\ UNCHANGED <<replies, ignored, cache, posix_rename, file>>

\* Mutant: remove() is over once rmdir() has been tried.
RmdirIgnored == IF call.op = "rmdir" THEN "OK" ELSE Answer(1).val

\* check(): the status is the outcome of the call.
Outcome == Answer(1).val

StatusReply ==
    /\ \E op \in {"mkdir", "rename", "remove", "rmdir"} : Replied(op)
    /\ ~(call.op = "rename" /\ posix_rename /\ Says(Answer(1), "OP_UNSUPPORTED"))
    /\ ~(call.op = "remove" /\ Says(Answer(1), "FAILURE"))
    /\ Leave(Outcome, "", <<>>)
    /\ UNCHANGED <<replies, ignored, cache, posix_rename, file>>

(***************************************************************************)
(* prefigure_exists and exists.                                            *)
(***************************************************************************)
PrefigureCall(p) ==
    /\ Begin("prefigure", p, "") /\ Ask("STAT", p) /\ UNCHANGED wait
    /\ inflight' = Append(inflight, [ticket |-> Ticket(Request(1, "STAT", p)), path |-> p])
    /\ asked' = asked \cup {p}
    /\ UNCHANGED <<replies, ignored, existence, posix_rename, file>>

ExistsCall(p) ==
    /\ Begin("exists", p, "") /\ UNCHANGED <<send, wait>>
    /\ asked' = asked \ {p}
    /\ UNCHANGED <<link, inflight, existence, posix_rename, file>>

\* All answers on their way are read first, in the order they were asked for.
ExistsReap ==
    /\ Finished /\ call.op = "exists" /\ got = <<>> /\ inflight # <<>>
    /\ wait' = <<Head(inflight).ticket>>
    /\ UNCHANGED <<svars, link, cache, send, outbuf, got, posix_rename, file, call,
                   result, alive, calls>>

ExistsStore ==
    /\ Replied("exists")
    /\ existence' = Put(existence, Head(inflight).path, Answer(1).type = "ATTRS")
    /\ inflight' = Tail(inflight) /\ got' = <<>>
    /\ UNCHANGED <<svars, link, asked, send, outbuf, wait, posix_rename, file, call,
                   result, alive, calls>>

ExistsLookup == Finished /\ call.op = "exists" /\ got = <<>> /\ inflight = <<>>

\* Mutant: the answer stays in the cache.
ForgetNothing == UNCHANGED existence

\* The answer is given once.
Forget == existence' = RestrictDomain(existence, LAMBDA p : p # call.path)

ExistsAnswer ==
    /\ ExistsLookup /\ call.path \in DOMAIN existence
    /\ Forget
    /\ Leave("OK", existence[call.path], <<>>)
    /\ UNCHANGED <<replies, ignored, inflight, asked, posix_rename, file>>

ExistsUncached ==
    /\ ExistsLookup /\ call.path \notin DOMAIN existence
    /\ Ask("STAT", call.path)
    /\ inflight' = <<[ticket |-> Ticket(Request(1, "STAT", call.path)), path |-> call.path]>>
    /\ UNCHANGED <<svars, replies, ignored, existence, asked, outbuf, wait, got,
                   posix_rename, file, call, result, alive, calls>>

(***************************************************************************)
(* contents and type.                                                      *)
(***************************************************************************)
ContentsCall(d) ==
    /\ Begin("contents", d, [id |-> NewId(1), handle |-> 0, names |-> {}])
    /\ RPC("OPENDIR", d)
    /\ UNCHANGED <<replies, ignored, cache, posix_rename, file>>

\* READDIR has the id that OPENDIR had, again and again.
NextBatch(more) ==
    LET r == [id |-> more.id, ser |-> serial + 1, op |-> "READDIR", arg |-> more.handle] IN
    /\ send' = <<r, Flush>> /\ wait' = <<Ticket(r)>> /\ got' = <<>>
    /\ serial' = serial + 1
    /\ call' = [call EXCEPT !.more = more]
    /\ UNCHANGED <<svars, id, outbuf, result, alive, calls>>

AddBatch(names, batch) == names \cup batch

ContentsReply ==
    /\ Replied("contents")
    /\ LET r == Answer(1)  m == call.more IN
         \/ r.type = "HANDLE" /\ NextBatch([m EXCEPT !.handle = r.val])
         \/ r.type = "NAME" /\ NextBatch([m EXCEPT !.names = AddBatch(@, r.val)])
         \/ Says(r, "EOF") /\ Leave("OK", m.names, <<m.handle>>)
         \/ /\ Failed(r) /\ ~Says(r, "EOF")
            /\ Leave(r.val, "", IF m.handle = 0 THEN <<>> ELSE <<m.handle>>)
    /\ UNCHANGED <<replies, ignored, cache, posix_rename, file>>

\* Three questions at once; which succeed tells the type.
TypeCall(p) ==
    LET r == <<Request(1, "OPEN", <<p, "ReadOnly">>), Request(2, "OPENDIR", p),
               Request(3, "READLINK", p)>> IN
    /\ Begin("type", p, "")
    /\ Draw(3) /\ send' = Append(r, Flush) /\ wait' = [i \in 1..3 |-> Ticket(r[i])]
    /\ UNCHANGED <<replies, ignored, cache, posix_rename, file>>

TypeDeduced ==
    IF Answer(3).type = "NAME" THEN "link"
    ELSE IF Answer(2).type = "HANDLE" THEN "dir"
    ELSE IF Answer(1).type = "HANDLE" THEN "file" ELSE "unknown"

\* Mutant: only the first handle is closed.
FirstHandle == IF Answer(1).type = "HANDLE" THEN <<Answer(1).val>> ELSE <<>>

TypeHandles ==
    LET h(i) == IF Answer(i).type = "HANDLE" THEN <<Answer(i).val>> ELSE <<>>
    IN h(1) \o h(2)

TypeReply ==
    /\ Replied("type")
    /\ \/ Says(Answer(1), "NO_SUCH_FILE") /\ Leave("NO_SUCH_FILE", "", <<>>)
       \/ ~Says(Answer(1), "NO_SUCH_FILE") /\ Leave("OK", TypeDeduced, TypeHandles)
    /\ UNCHANGED <<replies, ignored, cache, posix_rename, file>>

(***************************************************************************)
(* Files: SftpFile reads ahead, and writes a block at a time, for          *)
(* File::flush() never leaves a write unanswered.                          *)
(***************************************************************************)
OpenCall(p, mode) ==
    /\ file = NoFile
    /\ Begin("open", p, mode) /\ RPC("OPEN", <<p, mode>>)
    /\ UNCHANGED <<replies, ignored, cache, posix_rename, file>>

OpenReply ==
    /\ Replied("open")
    /\ LET r == Answer(1) IN
         \/ /\ r.type = "HANDLE"
            /\ file' = [handle |-> r.val, mode |-> call.more, queue |-> <<>>, offset |-> 0,
                        buf |-> <<>>, eof |-> FALSE, done |-> <<>>, end |-> FALSE,
                        failed |-> FALSE]
            /\ Leave("OK", "", <<>>)
         \/ r.type # "HANDLE" /\ Leave(r.val, "", <<>>) /\ UNCHANGED file
    /\ UNCHANGED <<replies, ignored, cache, posix_rename>>

Usable(modes) == file # NoFile /\ file.mode \in modes /\ ~file.failed /\ ~file.end

\* The i-th read-ahead request.
\* Mutant: the offset does not move on within a refill.
ReadAheadStuck(i, space) == Request(i, "READ", <<file.handle, file.offset, space>>)

ReadAhead(i, space) ==
    Request(i, "READ", <<file.handle, file.offset + (i - 1) * space, space>>)

ReadCall(space) ==
    /\ Usable({"ReadOnly"})
    /\ Begin("read", file.handle, space)
    /\ LET k == IF file.eof THEN 0 ELSE MaxOf(0, ReadQueue - Len(file.queue))
           queue == file.queue \o [i \in 1..k |-> Ticket(ReadAhead(i, space))]
           due == file.buf = <<>> /\ queue # <<>>
       IN /\ Draw(k)
          /\ send' = [j \in 1..2*k |-> IF j % 2 = 1 THEN ReadAhead((j + 1) \div 2, space)
                                                     ELSE Flush]
          /\ wait' = IF due THEN <<Head(queue)>> ELSE <<>>
          /\ file' = [file EXCEPT !.queue = IF due THEN Tail(queue) ELSE queue,
                                  !.offset = @ + k * space]
    /\ UNCHANGED <<replies, ignored, cache, posix_rename>>

\* readbytes() returns what fits; the rest stays in the buffer.
Deliver(f, bytes) ==
    LET n == MinOf(call.more, Len(bytes)) IN
    /\ file' = [f EXCEPT !.buf = SubSeq(bytes, n + 1, Len(bytes)),
                         !.done = @ \o SubSeq(bytes, 1, n), !.end = (n = 0)]
    /\ Leave("OK", n, <<>>)

ReadBuffered ==
    /\ Finished /\ call.op = "read" /\ got = <<>>
    /\ Deliver(file, file.buf)
    /\ UNCHANGED <<replies, ignored, cache, posix_rename>>

ReadReply ==
    /\ Replied("read")
    /\ LET r == Answer(1) IN
         \/ r.type = "DATA" /\ Deliver(file, r.val) /\ UNCHANGED <<replies, ignored>>
         \/ /\ Says(r, "EOF")
            /\ Ignore({t.id : t \in ToSet(file.queue)})
            /\ Deliver([file EXCEPT !.queue = <<>>, !.eof = TRUE], <<>>)
         \/ /\ Failed(r) /\ ~Says(r, "EOF")
            /\ file' = [file EXCEPT !.failed = TRUE]
            /\ Leave(r.val, 0, <<>>) /\ UNCHANGED <<replies, ignored>>
    /\ UNCHANGED <<cache, posix_rename>>

WriteCall(b) ==
    /\ Usable({"Overwrite", "NoOverwrite"})
    /\ Begin("write", file.handle, b)
    /\ RPC("WRITE", <<file.handle, file.offset, b>>)
    /\ file' = [file EXCEPT !.offset = @ + Len(b)]
    /\ UNCHANGED <<replies, ignored, cache, posix_rename>>

\* Mutant: the status of a write is not looked at.
WriteFailedNever == FALSE

WriteFailed == Failed(Answer(1))

\* An error when writing ends the program: nothing catches it.
WriteReply ==
    /\ Replied("write")
    /\ \/ /\ ~WriteFailed
          /\ file' = [file EXCEPT !.done = @ \o call.more]
          /\ Leave("OK", "", <<>>) /\ UNCHANGED <<replies, ignored, cache, posix_rename>>
       \/ /\ WriteFailed
          /\ alive' = FALSE
          /\ UNCHANGED <<svars, link, round, cache, posix_rename, file, call, result, calls>>

\* ~SftpFile()
CloseCall ==
    /\ file # NoFile
    /\ Begin("close", file.handle, "")
    /\ Draw(1) /\ send' = <<Request(1, "CLOSE", file.handle)>> /\ UNCHANGED wait
    /\ file' = NoFile
    /\ UNCHANGED <<replies, ignored, cache, posix_rename>>

(***************************************************************************)
(* The steps of the program.                                               *)
(***************************************************************************)
StartCall ==
    \/ \E p \in Path :
         \/ MkdirCall(p)
         \/ RemoveCall(p)
         \/ PrefigureCall(p)
         \/ ExistsCall(p)
         \/ TypeCall(p)
         \/ \E q \in Path \ {p} : RenameCall(p, q)
         \/ \E mode \in {"ReadOnly", "Overwrite", "NoOverwrite"} : OpenCall(p, mode)
    \/ \E d \in Path \cup {Top} : ContentsCall(d)
    \/ \E n \in Space : ReadCall(n)
    \/ \E b \in Content \ {<<>>} : WriteCall(b)
    \/ CloseCall

CallStep ==
    \/ Poll \/ PutRequest \/ FlushRequest \/ Await \/ Die \/ Return
    \/ RenameFallback \/ RemoveDir \/ StatusReply
    \/ ExistsReap \/ ExistsStore \/ ExistsAnswer \/ ExistsUncached
    \/ ContentsReply \/ TypeReply \/ OpenReply
    \/ ReadBuffered \/ ReadReply \/ WriteReply
=============================================================================
