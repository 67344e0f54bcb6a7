----------------------------- MODULE IndexFile -----------------------------
(***************************************************************************)
(* An index file from byte to byte: backup puts its lines through a File,  *)
(* and a reader (restore, verify or cleanup) gets them with readIndexLine, *)
(* perhaps before the file is finished or after backup died.  It puts the  *)
(* hashes into a HashSet, as cleanup does.  Or hashfile reads the same     *)
(* bytes with getbytes, as it does with objects.                           *)
(***************************************************************************)
EXTENDS IndexFormat, FileBuffer, Sha1, HashSet

CONSTANTS
    Cases,      \* what is written and how it is read
    GetSizes    \* numbers of bytes that getbytes is asked for: no caller asks for 0

ASSUME CasesAssumption ==
    /\ \A c \in Cases : IndexText(c.index) \in Bytes
    /\ GetSizes \subseteq Nat \ {0}

VARIABLES
    index,      \* the lines that are written
    text,       \* the bytes that they are
    put,        \* how many of them have been put
    user,       \* what reads: readIndexLine or getbytes, or one that is over
    line,       \* getline: the line so far
    got,        \* details of the lines so far; or bytes
    needed,     \* the HashSet of cleanup
    sha         \* the SHA1Context of hashfile, and in the end the digest

fvars == <<disk, w, r, short, overrun>>
vars == <<index, text, put, fvars, user, line, got, needed, sha>>

Users == {"lines", "accepted", "failed", "hash", "hashed"}
Hashing == {"hash", "hashed"}

TypeOK ==
    /\ BufferTypeOK
    /\ put \in 0 .. Len(text)
    /\ user \in Users
    /\ line \in Bytes
    /\ user = "hash" => sha.index \in 0 .. BlockSize - 1 /\ ~ sha.corrupted
    /\ IF user \in Hashing THEN got \in Bytes
       ELSE \A i \in DOMAIN got : got[i] \in [DOMAIN got[i] -> Bytes]

Init ==
    /\ \E c \in Cases : index = c.index /\ text = IndexText(c.index) /\ user = c.user
    /\ put = 0
    /\ disk = <<>> /\ w = NewWriter /\ r = NewReader
    /\ short = 0 /\ overrun = FALSE
    /\ line = <<>> /\ got = <<>> /\ needed = NewHashSet
    /\ \E junk \in Junk : sha = SHA1Reset(junk)

----------------------------------------------------------------------------
(***************************************************************************)
(* backup                                                                  *)
(***************************************************************************)
\* put(), which flushes a full buffer first.
PutNext ==
    /\ put < Len(text)
    /\ PutByte(text[put + 1])
    /\ put' = put + 1
    /\ UNCHANGED <<index, text, user, line, got, needed, sha>>

FlushFull ==
    /\ put = Len(text) \/ Len(w.data) = BufSize
    /\ Flush
    /\ UNCHANGED <<index, text, put, user, line, got, needed, sha>>

CloseIndex ==
    /\ put = Len(text)
    /\ Close
    /\ UNCHANGED <<index, text, put, user, line, got, needed, sha>>

WriteOut ==
    /\ (\E n \in 1 .. BufSize : WriteCall(n)) \/ WriterDies
    /\ UNCHANGED <<index, text, put, user, line, got, needed, sha>>

----------------------------------------------------------------------------
(***************************************************************************)
(* readIndexLine, in a loop                                                *)
(***************************************************************************)
\* A line has been got, or what there was before the end of the file.
ProcessLine(s) ==
    IF s = EndMark THEN user' = "accepted" /\ UNCHANGED <<got, needed>>
    ELSE IF ReadLine(s) = Bad THEN user' = "failed" /\ UNCHANGED <<got, needed>>
    ELSE /\ got' = Append(got, ReadLine(s))
         /\ needed' = IF HashKey \in DOMAIN ReadLine(s)
                      THEN Insert(needed, ReadLine(s)[HashKey])
                      ELSE needed
         /\ UNCHANGED user

Getch ==
    /\ user = "lines" /\ r.data # <<>>
    /\ LET c == Head(r.data) IN
       IF c = NL THEN ProcessLine(line) /\ line' = <<>>
       ELSE line' = Append(line, c) /\ UNCHANGED <<user, got, needed>>
    /\ r' = [r EXCEPT !.data = Tail(@)]
    /\ UNCHANGED <<index, text, put, disk, w, short, overrun, sha>>

FillLine ==
    /\ user = "lines" /\ FillForGetch
    /\ UNCHANGED <<index, text, put, user, line, got, needed, sha>>

\* throw BadIndexFile("unexpected end of file")
NoMoreLines == "failed"

GetchEof ==
    /\ user = "lines" /\ r.data = <<>> /\ r.eof
    /\ IF line = <<>>
       THEN user' = NoMoreLines /\ UNCHANGED <<line, got, needed>>
       ELSE ProcessLine(line) /\ line' = <<>>
    /\ UNCHANGED <<index, text, put, fvars, sha>>

----------------------------------------------------------------------------
(***************************************************************************)
(* hashfile, with calls of getbytes for any number of bytes                *)
(***************************************************************************)
CallGetBytes ==
    /\ user = "hash"
    /\ \E n \in GetSizes, all \in BOOLEAN : GetBytes(n, all)
    /\ UNCHANGED <<index, text, put, user, line, got, needed, sha>>

\* A call that returns nothing is the last.
DoGetBytes ==
    /\ FillForGetBytes \/ Copy \/ ReadDirect
    /\ IF r'.call # "none" THEN UNCHANGED <<got, sha, user>>
       ELSE IF r'.dst # <<>>
       THEN got' = got \o r'.dst /\ sha' = SHA1Input(sha, r'.dst) /\ UNCHANGED user
       ELSE sha' = SHA1Result(sha) /\ user' = "hashed" /\ UNCHANGED got
    /\ UNCHANGED <<index, text, put, line, needed>>

Next ==
    \/ PutNext \/ FlushFull \/ CloseIndex \/ WriteOut
    \/ Getch \/ FillLine \/ GetchEof
    \/ CallGetBytes \/ DoGetBytes

Spec == Init /\ [][Next]_vars

----------------------------------------------------------------------------
\* The bytes that have been put are the file and what the buffer still holds,
\* whatever the writes did, as long as none went beyond the buffer.
NoneLost ==
    ~ overrun =>
       disk \o SubSeq(w.data, w.written + 1, Len(w.data)) = SubSeq(text, 1, put)

\* Each line that a reader works on is the line that was written, whatever is
\* in the names and wherever its reads end, but for the last one before an
\* end of the file that came too soon; and only there may it refuse a line.  If
\* it comes to [end] it has got all of them.
LinesRight ==
    user \notin Hashing /\ ~ overrun =>
       /\ user = "failed" => r.eof
       /\ user = "accepted" => Len(got) = Len(index)
       /\ \A i \in DOMAIN got :
             \/ i \in DOMAIN index /\ got[i] = Details(index[i])
             \/ i = Len(got) /\ r.eof /\ user # "accepted"

\* The hashes of the lines so far are in needed, and no others, though several
\* of them share a chain: cleanup removes no object for want of a node, and
\* keeps none that no line names (hash.cc:51-63, cleanup.cc:47-50).
NeededRight ==
    user \notin Hashing =>
       LET named == {i \in DOMAIN got : HashKey \in DOMAIN got[i]} IN
       /\ \A i \in named : Has(needed, got[i][HashKey])
       /\ \A n \in DOMAIN needed : \A j \in DOMAIN needed[n] :
             \E i \in named : got[i][HashKey] = needed[n][j]

\* getbytes gives the bytes of the file in order, and fewer than all of them
\* only where the file ended.
GetsInOrder ==
    user \in Hashing =>
       /\ IsPrefix(got, disk)
       /\ r.call = "none" /\ r.reading /\ ~ r.eof => Len(got) = r.off - Len(r.data)

\* The digest is that of the bytes as one message, in whatever pieces they came
\* and wherever its end falls in a block (sha1.c:186-211, 335-371).
HashOfWhole == user = "hashed" => sha = BlocksOf(Padded(got))

\* Without all, too, it gives nothing only at the end of the file: the loops
\* of restore, backup and hashfile end there (restore.cc:172).
NothingMeansEnd ==
    [][r.call = "getbytes" /\ r'.call = "none" =>
          /\ r'.dst = <<>> => r.off = Len(disk)
          /\ r.all /\ r'.max > 0 => r'.eof]_vars
============================================================================
