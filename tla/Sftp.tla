------------------------------- MODULE Sftp -------------------------------
(***************************************************************************)
(* A program that keeps its backups on an SFTP server, with other users of *)
(* the same server, and what a caller of the Filesystem may rely on.       *)
(***************************************************************************)
EXTENDS SftpClient

Init == ServerInit /\ ClientInit

\* Everything of the client is left alone by the server and by other users.
Environment ==
    /\ Serve \/ Fail \/ HangUp \/ (\E p \in Path : Change(p))
    /\ UNCHANGED cvars

Next == StartCall \/ CallStep \/ Environment

Spec == Init /\ [][Next]_vars

\* The program runs until its call returns, and a server that is up serves.
\* Nobody has to begin a call.
Fairness == WF_vars(CallStep) /\ WF_vars(Serve /\ UNCHANGED cvars)
FairSpec == Spec /\ Fairness

(***************************************************************************)
(* Types.                                                                  *)
(***************************************************************************)
Id == 1..(IdMod - 1)
Op == {"STAT", "OPEN", "OPENDIR", "READDIR", "READLINK", "MKDIR", "REMOVE", "RMDIR",
       "RENAME", "POSIX_RENAME", "READ", "WRITE", "CLOSE"}
ReplyType == {"STATUS", "HANDLE", "NAME", "DATA", "ATTRS"}
Tickets == [id : Id, ser : Nat]

IsRequest(r) == r.op \in Op /\ r.id \in Id /\ r.ser \in 1..serial
IsReply(r) == r.type \in ReplyType /\ r.id \in Id /\ r.ser \in 1..serial
NoDuplicates(s) == \A i, j \in DOMAIN s : i # j => s[i].ser # s[j].ser

\* Type invariant of the client and of the server: what a request, a reply, an
\* answer in the cache and an open SftpFile can be.
TypeOK ==
    /\ up \in BOOLEAN /\ alive \in BOOLEAN /\ posix_rename \in BOOLEAN
    /\ \A i \in DOMAIN send : send[i].op = "flush" \/ IsRequest(send[i])
    /\ \A i \in DOMAIN outbuf : IsRequest(outbuf[i])
    /\ Len(req) <= ReqCap /\ \A i \in DOMAIN req : IsRequest(req[i])
    /\ Len(rep) <= RepCap /\ \A i \in DOMAIN rep : IsReply(rep[i])
    /\ NoDuplicates(outbuf \o req)
    /\ tree \in [Path -> Node] /\ Consistent(tree)
    /\ id \in 0..(IdMod - 1) /\ serial \in Nat /\ ignored \subseteq Id
    /\ \A i \in DOMAIN replies : IsReply(replies[i]) /\ replies[i].id = i
    /\ \A i \in DOMAIN inflight : inflight[i].ticket \in Tickets /\ inflight[i].path \in Path
    /\ DOMAIN existence \subseteq Path /\ \A p \in DOMAIN existence : existence[p] \in BOOLEAN
    /\ wait \in Seq(Tickets)
    /\ file # NoFile => file.queue \in Seq(Tickets) /\ file.offset \in Nat
    /\ calls \in 0..MaxCalls /\ changes \in 0..MaxChanges /\ faults \in 0..MaxFaults

(***************************************************************************)
(* Safety.                                                                 *)
(***************************************************************************)
Over(op) == call = Idle /\ result.op = op /\ result.status = "OK"

\* Each reply that await() returns is the reply to the very request that it was
\* called for, though replies overtake each other, ids are used again for
\* READDIR, and replies that nobody wants any more come in between (newid,
\* poll, await and ignore, sftp.cc:800-841).
ReplyMatches == \A i \in DOMAIN got : got[i].reply.ser = got[i].ser

\* exists() answers what was true at some moment since the caller first asked,
\* with prefigure_exists() or with the call itself.  The code takes any reply
\* but attributes for a no: only a name at which a STAT has failed since then
\* may be called missing without having been so (exists, sftp.cc:649-670).
ExistsCurrent ==
    Over("exists") =>
        /\ result.val => window[result.path] # {"none"}
        /\ ~result.val => "none" \in window[result.path] \/ result.path \in refused

\* type() is right about a name that stays what it is while its three questions
\* travel, also if the server opens a directory as readily as a file; and it
\* reports a name as missing only if it was, or is a link that leads nowhere
\* (type, sftp.cc:735-798).
TypeRight ==
    (call = Idle /\ result.op = "type") =>
        LET seen == window[result.path] IN
        /\ result.status = "OK" => \A k \in Kind : seen = {k} => result.val = k
        /\ result.status = "NO_SUCH_FILE" => seen \cap {"none", "link"} # {}

\* contents() lists every name that was in the directory all the time, and none
\* that was never there, in however many batches the names come (contents,
\* sftp.cc:683-733).
ListingCurrent ==
    Over("contents") => \A p \in Path : Under[p] = result.path =>
        /\ "none" \notin window[p] => p \in result.val
        /\ p \in result.val => window[p] # {"none"}

\* Whatever other users do meanwhile, an answer was true at some moment since it
\* was asked for (exists, type and contents, sftp.cc:649-798).
AnswerCurrent == ExistsCurrent /\ TypeRight /\ ListingCurrent

\* A call that changes names and returns has had its effect, be it through the
\* second request that remove() and rename() may need; one that throws has had
\* none (rename, remove, unlink, rmdir and mkdir, sftp.cc:489-572, 629-647).  Of
\* a name in asked, window tells more than happened during this call.
EffectExact ==
    (/\ call = Idle /\ result.op \in {"mkdir", "rename", "remove", "rmdir"}
     /\ {result.path, result.more} \cap asked = {}) =>
        LET was == window[result.path]  op == result.op IN
        /\ result.status = "OK" /\ op = "mkdir" => "dir" \in was
        /\ result.status = "OK" /\ op # "mkdir" => "none" \in was /\ was # {"none"}
        /\ result.status = "OK" /\ op = "rename" => window[result.more] \cap was # {"none"}
        /\ result.status # "OK" /\ changes = 0 => Cardinality(was) = 1

\* The bytes that readbytes() has returned are those at the start of the file,
\* in order and none twice, and all of them when it says that there are no
\* more, whatever sizes were asked for while requests with other sizes were
\* on their way (SftpFile::readbytes, sftp.cc:253-307).
ReadInOrder ==
    (file # NoFile /\ file.mode = "ReadOnly" /\ file.handle \in DOMAIN handles) =>
        LET ino == handles[file.handle].ino IN
        ino \in DOMAIN data =>
            /\ IsPrefix(file.done, data[ino])
            /\ file.end => file.done = data[ino]

\* A write that File::flush() has returned from without an exception is in the
\* file: a rename after it publishes the whole content (writebytes,
\* synchronize and synchronize_one, sftp.cc:309-354).
FlushedIsStored ==
    (file # NoFile /\ file.mode # "ReadOnly" /\ call = Idle) =>
        data[handles[file.handle].ino] = file.done

\* Between calls the server has no handle open but that of the open SftpFile
\* and those whose CLOSE has been sent, as long as nobody changes a name
\* between two requests of type() (closehandle, sftp.cc:672-681).
HandlesReturned ==
    (call = Idle /\ alive /\ changes = 0) =>
        \A h \in DOMAIN handles :
            \/ h = file.handle
            \/ \E r \in ToSet(outbuf) \cup ToSet(req) : r.op = "CLOSE" /\ r.arg = h

(***************************************************************************)
(* Liveness.                                                               *)
(***************************************************************************)
\* Every call returns, or the program ends because the connection is lost or a
\* write failed: the pipes to and from the server are never both full with
\* each side waiting for the other (send, sftp.cc:373-380).
CallsReturn == (call # Idle) ~> (call = Idle \/ ~alive)
=============================================================================
