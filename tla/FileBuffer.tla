---------------------------- MODULE FileBuffer ----------------------------
(***************************************************************************)
(* The class File over LocalFile: a file that is written through a buffer  *)
(* by one File object and read through a buffer by another, while a read() *)
(* or write() may do less than it was asked for.                           *)
(***************************************************************************)
EXTENDS Octets

CONSTANTS
    BufSize,        \* sizeof buffer, 4096
    Junk,           \* what may be found in memory after the end of the data
    MaxShort        \* bound: writes that do less than they were asked for

ASSUME BufferAssumption ==
    BufSize \in Nat \ {0} /\ Junk \subseteq Byte /\ MaxShort \in Nat

VARIABLES
    disk,       \* the bytes of the file
    w,          \* the File object that writes
    r,          \* the File object that reads
    short,      \* short writes so far
    overrun     \* history: bytes from beyond the buffer were written

(***************************************************************************)
(* Writing.  data are the bytes from buffer to next.  In the loop of       *)
(* LocalFile::writebytes, written of them have gone out.                   *)
(***************************************************************************)
Writer == [pc : {"put", "write", "closed", "dead"}, data : Bytes, written : Nat]

NewWriter == [pc |-> "put", data |-> <<>>, written |-> 0]

\* put(c), with room in the buffer.  The first flush of a new File, which
\* only sets its mode, is no step of its own.
PutByte(c) ==
    /\ w.pc = "put" /\ Len(w.data) < BufSize
    /\ w' = [w EXCEPT !.data = Append(@, c)]
    /\ UNCHANGED <<disk, r, short, overrun>>

\* flush()
Flush ==
    /\ w.pc = "put" /\ w.data # <<>>
    /\ w' = [w EXCEPT !.pc = "write", !.written = 0]
    /\ UNCHANGED <<disk, r, short, overrun>>

\* Mutant: every write begins at the start of the buffer.
FromStart == 0

From == w.written

\* write(fd, buf + written, nbytes): the count is that of the whole buffer
\* also when a part of it has been written already, so that it reaches
\* beyond the data by as much.
Memory(junk) == w.data \o junk
Sent(n, junk) == SubSeq(Memory(junk), From + 1, From + n)

\* write() takes n bytes.
WriteCall(n) ==
    /\ w.pc = "write"
    /\ n \in 1 .. Len(w.data)
    /\ n < Len(w.data) => short < MaxShort
    /\ short' = IF n < Len(w.data) THEN short + 1 ELSE short
    /\ \E junk \in [1 .. From -> Junk] : disk' = disk \o Sent(n, junk)
    /\ overrun' = (overrun \/ w.written + n > Len(w.data))
    /\ w' = IF w.written + n >= Len(w.data)
            THEN NewWriter
            ELSE [w EXCEPT !.written = @ + n]
    /\ UNCHANGED r

\* write() fails and the exception ends the program, or it dies.
WriterDies ==
    /\ w.pc \in {"put", "write"}
    /\ w' = [w EXCEPT !.pc = "dead"]
    /\ UNCHANGED <<disk, r, short, overrun>>

\* delete, after a flush: ~File asserts that nothing is left.
Close ==
    /\ w.pc = "put" /\ w.data = <<>>
    /\ w' = [w EXCEPT !.pc = "closed"]
    /\ UNCHANGED <<disk, r, short, overrun>>

----------------------------------------------------------------------------
(***************************************************************************)
(* Reading.  data are the bytes from next to top, off how far the file has *)
(* been read.  A call of getbytes asks for max bytes (still), all or some; *)
(* dst is what it has got.                                                 *)
(***************************************************************************)
Reader == [call : {"none", "getbytes"}, reading : BOOLEAN, data : Bytes,
           eof : BOOLEAN, off : Nat, max : Nat, all : BOOLEAN, dst : Bytes]

NewReader == [call |-> "none", reading |-> FALSE, data |-> <<>>, eof |-> FALSE,
              off |-> 0, max |-> 0, all |-> FALSE, dst |-> <<>>]

\* read() gives n bytes: at least one, if there are any.
CanRead(n, space) ==
    LET there == Len(disk) - r.off IN
    IF there = 0 THEN n = 0 ELSE n \in 1 .. there /\ n <= space

Chunk(n) == SubSeq(disk, r.off + 1, r.off + n)

\* Mutant: the end of the file is forgotten.
FillForgets(n) == [r EXCEPT !.reading = TRUE, !.data = Chunk(n), !.off = @ + n]

\* fill(), the read giving n bytes
Fill(n) == [r EXCEPT !.reading = TRUE, !.data = Chunk(n), !.off = @ + n,
                     !.eof = (n = 0)]

\* getch() with an empty buffer.  Once the end of the file was seen the
\* answer is EOF without another read.
FillForGetch ==
    /\ r.call = "none" /\ r.data = <<>> /\ ~ r.eof
    /\ \E n \in 0 .. BufSize : CanRead(n, BufSize) /\ r' = Fill(n)
    /\ UNCHANGED <<disk, w, short, overrun>>

GetBytes(max, all) ==
    /\ r.call = "none"
    /\ r' = [r EXCEPT !.call = "getbytes", !.max = max, !.all = all, !.dst = <<>>]
    /\ UNCHANGED <<disk, w, short, overrun>>

Return(q) == [q EXCEPT !.call = "none"]

\* Mutant: large reads bypass the buffer, whatever is in it.
BypassAlways == r.max >= BufSize

\* "bypass buffering for large reads"
Bypass == r.data = <<>> /\ (r.max >= BufSize \/ r.eof)

MustFill == ~ r.reading \/ (r.data = <<>> /\ r.max < BufSize /\ ~ r.eof)

FillForGetBytes ==
    /\ r.call = "getbytes" /\ MustFill
    /\ \E n \in 0 .. BufSize :
          CanRead(n, BufSize) /\ r' = IF n = 0 THEN Return(Fill(n)) ELSE Fill(n)
    /\ UNCHANGED <<disk, w, short, overrun>>

\* The end of the loop's body: q has got n bytes more.
Took(q, n) ==
    LET p == [q EXCEPT !.max = @ - n, !.eof = @ \/ n = 0]
    IN IF p.all /\ ~ p.eof /\ p.max > 0 THEN p ELSE Return(p)

\* Mutant: what is in the buffer is copied, asked for or not.
WholeBuffer == Len(r.data)

Part == IF r.max > Len(r.data) THEN Len(r.data) ELSE r.max

Copy ==
    /\ r.call = "getbytes" /\ ~ MustFill /\ ~ Bypass
    /\ r' = Took([r EXCEPT !.dst = @ \o SubSeq(r.data, 1, Part),
                           !.data = SubSeq(@, Part + 1, Len(@))], Part)
    /\ UNCHANGED <<disk, w, short, overrun>>

ReadDirect ==
    /\ r.call = "getbytes" /\ ~ MustFill /\ Bypass
    /\ \E n \in 0 .. r.max :
          /\ CanRead(n, r.max)
          /\ r' = Took([r EXCEPT !.dst = @ \o Chunk(n), !.off = @ + n], n)
    /\ UNCHANGED <<disk, w, short, overrun>>

BufferTypeOK ==
    /\ disk \in Bytes /\ w \in Writer /\ r \in Reader
    /\ short \in Nat /\ overrun \in BOOLEAN
============================================================================
