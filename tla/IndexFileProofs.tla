-------------------------- MODULE IndexFileProofs --------------------------
(***************************************************************************)
(* Promises about an index file, for indexes, buffers, short reads and     *)
(* writes and tables of every size: the writer's buffer loses nothing      *)
(* (NoneLost), cleanup's HashSet has the hashes of the lines that were     *)
(* read (NeededRight), and getbytes returns the bytes of the file in their *)
(* order and nothing only at its end (GetsInOrder, NothingMeansEnd).       *)
(***************************************************************************)
EXTENDS IndexFile, SequenceTheorems, TLAPS

----------------------------------------------------------------------------
(***************************************************************************)
(* A HashSet is a set.                                                     *)
(***************************************************************************)
\* A table with hashes of S in its chains.
Table(S) == [0 .. TableSize - 1 -> Seq(S)]

\* A hash is in one of the chains.
InChain(t, h) == \E n \in DOMAIN t : \E i \in DOMAIN t[n] : t[n][i] = h

\* Every hash has a chain; an octet that is not there counts as 0.
LEMMA BucketExists ==
    ASSUME NEW h \in Bytes
    PROVE  Bucket(h) \in 0 .. TableSize - 1
<1>1. ASSUME NEW i
      PROVE  Octet(h, i) \in Int
    <2>1. CASE i \in DOMAIN h
        <3>1. h[i] \in Byte
            BY <2>1 DEF Bytes
        <3> QED
            BY <2>1, <3>1 DEF Octet, Byte
    <2>2. CASE i \notin DOMAIN h
        BY <2>2 DEF Octet
    <2> QED
        BY <2>1, <2>2
<1> DEFINE word == Octet(h, 1) + 256 * Octet(h, 2) + 65536 * Octet(h, 3)
<1>2. word \in Int
    BY <1>1
<1> HIDE DEF word
<1>3. word % TableSize \in 0 .. TableSize - 1
    BY <1>2, TableSizeAssumption
<1> QED
    BY <1>3 DEF Bucket, word

\* A new table has nothing in it.
LEMMA NewIsEmpty ==
    ASSUME NEW S
    PROVE  NewHashSet \in Table(S) /\ \A h : ~ InChain(NewHashSet, h)
BY TableSizeAssumption DEF NewHashSet, Table, InChain

\* The chain of a hash, after it has been put in front.
LEMMA NewNodeChain ==
    ASSUME NEW S \in SUBSET Bytes, NEW t \in Table(S), NEW h \in S
    PROVE  /\ NewNode(t, h) \in Seq(S)
           /\ NewNode(t, h)[1] = h /\ 1 \in DOMAIN NewNode(t, h)
           /\ \A i \in DOMAIN t[Bucket(h)] :
                 /\ i + 1 \in DOMAIN NewNode(t, h)
                 /\ NewNode(t, h)[i + 1] = t[Bucket(h)][i]
           /\ \A i \in DOMAIN NewNode(t, h) :
                 i = 1 \/ (i - 1 \in DOMAIN t[Bucket(h)]
                           /\ NewNode(t, h)[i] = t[Bucket(h)][i - 1])
<1>1. t[Bucket(h)] \in Seq(S)
    BY BucketExists DEF Table
<1> QED
    BY <1>1 DEF NewNode

\* insert() adds its hash and takes none away, whichever share its chain
\* (HashSet::insert, HashSet::has, hash.cc:51-91).
THEOREM InsertAdds ==
    ASSUME NEW S \in SUBSET Bytes, NEW t \in Table(S), NEW h \in S
    PROVE  /\ Insert(t, h) \in Table(S)
           /\ \A g \in S : Has(Insert(t, h), g) <=> g = h \/ Has(t, g)
           /\ \A g : InChain(Insert(t, h), g) <=> g = h \/ InChain(t, g)
<1>1. Bucket(h) \in 0 .. TableSize - 1
    BY BucketExists
<1>2. CASE Has(t, h)
    BY <1>1, <1>2 DEF Insert, Has, InChain, Table
<1>3. CASE ~ Has(t, h)
    <2> DEFINE b == Bucket(h)
               u == [t EXCEPT ![b] = NewNode(t, h)]
    <2>1. Insert(t, h) = u
        BY <1>3 DEF Insert
    <2>2. u \in Table(S) /\ u[b] = NewNode(t, h)
        BY <1>1, NewNodeChain DEF Table
    <2>3. \A n \in 0 .. TableSize - 1 : n # b => u[n] = t[n]
        BY DEF Table
    <2>4. DOMAIN u = 0 .. TableSize - 1 /\ DOMAIN t = 0 .. TableSize - 1
        BY <2>2 DEF Table
    <2> HIDE DEF u, b
    <2>5. b = Bucket(h) /\ b \in 0 .. TableSize - 1
        BY <1>1 DEF b
    <2>6. \A g : (\E i \in DOMAIN u[b] : u[b][i] = g)
                    <=> g = h \/ \E i \in DOMAIN t[b] : t[b][i] = g
        <3> SUFFICES ASSUME NEW g
                     PROVE  (\E i \in DOMAIN u[b] : u[b][i] = g)
                               <=> g = h \/ \E i \in DOMAIN t[b] : t[b][i] = g
            OBVIOUS
        <3>1. u[b] = NewNode(t, h) /\ t[b] = t[Bucket(h)]
            BY <2>2, <2>5
        <3>2. ASSUME NEW i \in DOMAIN u[b], u[b][i] = g
              PROVE  g = h \/ \E j \in DOMAIN t[b] : t[b][j] = g
            BY <3>1, <3>2, NewNodeChain
        <3>3. ASSUME g = h
              PROVE  \E i \in DOMAIN u[b] : u[b][i] = g
            BY <3>1, <3>3, NewNodeChain
        <3>4. ASSUME NEW j \in DOMAIN t[b], t[b][j] = g
              PROVE  \E i \in DOMAIN u[b] : u[b][i] = g
            BY <3>1, <3>4, NewNodeChain
        <3> QED
            BY <3>2, <3>3, <3>4
    <2>7. ASSUME NEW g \in S
          PROVE  Has(u, g) <=> g = h \/ Has(t, g)
        <3>1. CASE Bucket(g) = b
            BY <3>1, <2>6 DEF Has
        <3>2. CASE Bucket(g) # b
            <4>1. u[Bucket(g)] = t[Bucket(g)]
                BY <3>2, <2>3, BucketExists
            <4> QED
                BY <3>2, <4>1, <2>5 DEF Has
        <3> QED
            BY <3>1, <3>2
    <2>8. ASSUME NEW g
          PROVE  InChain(u, g) <=> g = h \/ InChain(t, g)
        BY <2>3, <2>4, <2>5, <2>6 DEF InChain
    <2> QED
        BY <2>1, <2>2, <2>7, <2>8
<1> QED
    BY <1>2, <1>3

----------------------------------------------------------------------------
(***************************************************************************)
(* What holds of the buffers and the calls at every step.                  *)
(***************************************************************************)
\* The bytes that have been put and not yet written.
Unwritten == SubSeq(w.data, w.written + 1, Len(w.data))

\* The place of the loop of writebytes in the buffer.
WriterInv ==
    /\ text \in Bytes /\ put \in 0 .. Len(text)
    /\ w.written \in 0 .. Len(w.data)
    /\ w.pc = "put" => w.written = 0
    /\ w.pc = "write" => w.written < Len(w.data)

\* One call of getbytes at a time, and none by readIndexLine.
ReaderInv == user \notin Hashing => r.call = "none"

LEMMA JunkBytes ==
    ASSUME NEW n \in Nat, NEW junk \in [1 .. n -> Junk]
    PROVE  junk \in Bytes /\ Len(junk) = n
<1>1. junk \in [1 .. n -> Byte]
    BY BufferAssumption
<1> QED
    BY <1>1 DEF Bytes

\* A part of a sequence of bytes is one.
LEMMA PartIsBytes ==
    ASSUME NEW s \in Bytes, NEW i \in Nat, NEW n \in Nat, i + n <= Len(s)
    PROVE  /\ SubSeq(s, i + 1, i + n) \in Bytes
           /\ Len(SubSeq(s, i + 1, i + n)) = n
<1>1. \A j \in i + 1 .. i + n : s[j] \in Byte
    BY ElementOfSeq DEF Bytes
<1> QED
    BY <1>1, SubSeqProperties DEF Bytes

LEMMA Associative ==
    ASSUME NEW s \in Bytes, NEW t \in Bytes, NEW u \in Bytes
    PROVE  (s \o t) \o u = s \o (t \o u)
BY ConcatAssociative DEF Bytes

----------------------------------------------------------------------------
(***************************************************************************)
(* Types.                                                                  *)
(***************************************************************************)
LEMMA InitTypes ==
    Init => BufferTypeOK /\ WriterInv /\ ReaderInv
<1> SUFFICES ASSUME Init PROVE BufferTypeOK /\ WriterInv /\ ReaderInv
    OBVIOUS
<1>1. text \in Bytes /\ Len(text) \in Nat
    BY CasesAssumption DEF Init, Bytes
<1>2. <<>> \in Bytes /\ Len(<<>>) = 0
    BY EmptySeq DEF Bytes
<1>3. w \in Writer /\ w.written = 0 /\ w.data = <<>> /\ w.pc = "put"
    BY <1>2 DEF Init, NewWriter, Writer
<1>4. r \in Reader /\ r.call = "none"
    BY <1>2 DEF Init, NewReader, Reader
<1>5. Len(w.data) = 0
    BY <1>2, <1>3
<1>6. BufferTypeOK
    BY <1>2, <1>3, <1>4 DEF Init, BufferTypeOK
<1>7. WriterInv
    BY <1>1, <1>3, <1>5 DEF Init, WriterInv
<1> QED
    BY <1>4, <1>6, <1>7 DEF ReaderInv

\* What the calls of the writer do to types and to the place in the buffer.
LEMMA WriterStepTypes ==
    BufferTypeOK /\ WriterInv /\ (PutNext \/ FlushFull \/ CloseIndex \/ WriteOut)
       => BufferTypeOK' /\ WriterInv'
<1> SUFFICES ASSUME BufferTypeOK, WriterInv,
                    PutNext \/ FlushFull \/ CloseIndex \/ WriteOut
             PROVE  BufferTypeOK' /\ WriterInv'
    OBVIOUS
<1>0. w.data \in Bytes /\ Len(w.data) \in Nat /\ Len(text) \in Nat /\ w \in Writer
    BY DEF BufferTypeOK, WriterInv, Writer, Bytes
<1>1. CASE PutNext
    <2>1. text[put + 1] \in Byte /\ put + 1 \in 0 .. Len(text)
        BY <1>1, <1>0, ElementOfSeq DEF PutNext, WriterInv, Bytes
    <2>2. w' = [w EXCEPT !.data = Append(@, text[put + 1])] /\ w.pc = "put"
        BY <1>1 DEF PutNext, PutByte
    <2>3. /\ Append(w.data, text[put + 1]) \in Bytes
          /\ Len(Append(w.data, text[put + 1])) = Len(w.data) + 1
        BY <2>1, <1>0, AppendProperties DEF Bytes
    <2>4. w' \in Writer /\ w'.pc = "put" /\ w'.written = 0
          /\ Len(w'.data) = Len(w.data) + 1
        BY <2>2, <2>3, <1>0 DEF Writer, WriterInv
    <2> QED
        BY <1>1, <1>0, <2>1, <2>4 DEF PutNext, PutByte, BufferTypeOK, WriterInv
<1>2. CASE FlushFull
    <2>1. w.data # <<>> /\ w' = [w EXCEPT !.pc = "write", !.written = 0]
        BY <1>2 DEF FlushFull, Flush
    <2>2. Len(w.data) > 0
        BY <2>1, <1>0, EmptySeq DEF Bytes
    <2> QED
        BY <1>2, <1>0, <2>1, <2>2 DEF FlushFull, Flush, BufferTypeOK, WriterInv, Writer
<1>3. CASE CloseIndex
    BY <1>3, <1>0 DEF CloseIndex, Close, BufferTypeOK, WriterInv, Writer
<1>4. CASE WriteOut
    <2>1. ASSUME NEW n \in 1 .. BufSize, WriteCall(n)
          PROVE  BufferTypeOK' /\ WriterInv'
        <3>1. PICK junk \in [1 .. w.written -> Junk] :
                 disk' = disk \o SubSeq(w.data \o junk, w.written + 1, w.written + n)
            BY <2>1 DEF WriteCall, Sent, Memory, From
        <3>2. w.written \in Nat /\ n \in 1 .. Len(w.data)
            BY <2>1, <1>0 DEF WriteCall, WriterInv
        <3>3. junk \in Bytes /\ Len(junk) = w.written
            BY <3>2, JunkBytes
        <3>4. w.data \o junk \in Bytes /\ Len(w.data \o junk) = Len(w.data) + w.written
            BY <3>3, <1>0, ConcatProperties DEF Bytes
        <3>5. disk' \in Bytes
            <4>1. SubSeq(w.data \o junk, w.written + 1, w.written + n) \in Bytes
                <5> DEFINE m == w.data \o junk
                <5>1. m \in Bytes /\ w.written + n <= Len(m) /\ n \in Nat
                    BY <3>2, <3>4, <1>0
                <5> HIDE DEF m
                <5>2. SubSeq(m, w.written + 1, w.written + n) \in Bytes
                    BY <3>2, <5>1, PartIsBytes
                <5> QED
                    BY <5>2 DEF m
            <4>2. disk \in Bytes
                BY DEF BufferTypeOK
            <4> QED
                BY <3>1, <4>1, <4>2, ConcatProperties DEF Bytes
        <3>6. w' \in Writer /\ w'.written \in 0 .. Len(w'.data)
              /\ (w'.pc = "put" => w'.written = 0)
              /\ (w'.pc = "write" => w'.written < Len(w'.data))
            <4>1. CASE w.written + n >= Len(w.data)
                <5>1. w' = [pc |-> "put", data |-> <<>>, written |-> 0]
                    BY <2>1, <4>1 DEF WriteCall, NewWriter
                <5> QED
                    BY <5>1, EmptySeq DEF Writer, Bytes
            <4>2. CASE ~ (w.written + n >= Len(w.data))
                <5>1. w' = [w EXCEPT !.written = @ + n] /\ w.pc = "write"
                    BY <2>1, <4>2 DEF WriteCall
                <5> QED
                    BY <5>1, <4>2, <3>2, <1>0 DEF Writer
            <4> QED
                BY <4>1, <4>2
        <3> QED
            BY <2>1, <1>4, <3>5, <3>6, <1>0
               DEF WriteCall, WriteOut, BufferTypeOK, WriterInv
    <2>2. CASE WriterDies
        BY <1>4, <2>2, <1>0 DEF WriterDies, WriteOut, BufferTypeOK, WriterInv, Writer
    <2> QED
        BY <1>4, <2>1, <2>2 DEF WriteOut
<1> QED
    BY <1>1, <1>2, <1>3, <1>4

\* What read() gives is bytes, as many as there is space for.
LEMMA ReadGivesBytes ==
    ASSUME BufferTypeOK, NEW n \in Nat, NEW space \in Nat, CanRead(n, space)
    PROVE  n <= space /\ Chunk(n) \in Bytes
<1>1. r.off \in Nat /\ disk \in Bytes /\ Len(disk) \in Nat
    BY DEF BufferTypeOK, Reader, Bytes
<1>2. CASE Len(disk) - r.off = 0
    <2>1. n = 0
        BY <1>2 DEF CanRead
    <2>2. Chunk(n) = <<>>
        BY <1>1, <2>1, SubSeqEmpty DEF Chunk
    <2>3. Chunk(n) \in Bytes
        BY <2>2, EmptySeq DEF Bytes
    <2> QED
        BY <2>1, <2>3
<1>3. CASE Len(disk) - r.off # 0
    <2>1. r.off + n <= Len(disk) /\ n <= space
        BY <1>1, <1>3 DEF CanRead
    <2> QED
        BY <1>1, <2>1, PartIsBytes DEF Chunk
<1> QED
    BY <1>2, <1>3

LEMMA FillType ==
    ASSUME BufferTypeOK, NEW n \in 0 .. BufSize, CanRead(n, BufSize)
    PROVE  Fill(n) \in Reader /\ Return(Fill(n)) \in Reader /\ Fill(n).call = r.call
<1>1. Chunk(n) \in Bytes
    BY ReadGivesBytes, BufferAssumption
<1>2. r \in Reader
    BY DEF BufferTypeOK
<1>3. PICK e \in BOOLEAN : e = (n = 0)
    OBVIOUS
<1> DEFINE q == [r EXCEPT !.reading = TRUE, !.data = Chunk(n), !.off = @ + n, !.eof = e]
<1>4. q \in Reader /\ q.call = r.call
    <2>1. r.off + n \in Nat
        BY <1>2 DEF Reader
    <2> QED
        BY <1>1, <1>2, <2>1 DEF Reader
<1>5. Fill(n) = q
    BY <1>3 DEF Fill
<1> HIDE DEF q
<1>6. Return(q) \in Reader
    BY <1>4 DEF Return, Reader
<1> QED
    BY <1>4, <1>5, <1>6

LEMMA TookType ==
    ASSUME NEW q \in Reader, NEW n \in Nat, n <= q.max
    PROVE  Took(q, n) \in Reader
<1>1. PICK e \in BOOLEAN : e = (q.eof \/ n = 0)
    OBVIOUS
<1> DEFINE p == [q EXCEPT !.max = @ - n, !.eof = e]
<1>2. p \in Reader
    <2>1. q.max - n \in Nat
        BY DEF Reader
    <2> QED
        BY <2>1 DEF Reader
<1>3. Took(q, n) = IF p.all /\ ~ p.eof /\ p.max > 0 THEN p ELSE Return(p)
    BY <1>1 DEF Took
<1> HIDE DEF p
<1>4. Return(p) \in Reader
    BY <1>2 DEF Return, Reader
<1> QED
    BY <1>2, <1>3, <1>4

\* readIndexLine and getbytes leave the file and its writer alone.
LEMMA ReaderStepTypes ==
    BufferTypeOK /\ ReaderInv
    /\ (Getch \/ FillLine \/ GetchEof \/ CallGetBytes \/ DoGetBytes)
       => BufferTypeOK' /\ ReaderInv' /\ UNCHANGED <<text, put, disk, w, overrun>>
<1> SUFFICES ASSUME BufferTypeOK, ReaderInv,
                    Getch \/ FillLine \/ GetchEof \/ CallGetBytes \/ DoGetBytes
             PROVE  BufferTypeOK' /\ ReaderInv' /\ UNCHANGED <<text, put, disk, w, overrun>>
    OBVIOUS
<1>0. r \in Reader /\ r.data \in Bytes /\ r.dst \in Bytes /\ r.max \in Nat
    BY DEF BufferTypeOK, Reader
<1>1. CASE Getch
    <2>1. Tail(r.data) \in Bytes /\ r' = [r EXCEPT !.data = Tail(r.data)]
        BY <1>1, <1>0, HeadTailProperties DEF Getch, Bytes
    <2>2. r' \in Reader /\ r'.call = r.call
        BY <1>0, <2>1 DEF Reader
    <2>3. user' \in Hashing => user \in Hashing
        BY <1>1 DEF Getch, ProcessLine, Hashing
    <2>4. user = "lines" /\ UNCHANGED <<text, put, disk, w, short, overrun>>
        BY <1>1 DEF Getch
    <2> QED
        BY <2>2, <2>3, <2>4 DEF BufferTypeOK, ReaderInv, Hashing
<1>2. CASE FillLine
    <2>1. PICK n \in 0 .. BufSize : CanRead(n, BufSize) /\ r' = Fill(n)
        BY <1>2 DEF FillLine, FillForGetch
    <2> QED
        BY <1>2, <2>1, FillType DEF FillLine, FillForGetch, BufferTypeOK, ReaderInv
<1>3. CASE GetchEof
    <2>1. user = "lines" /\ UNCHANGED <<text, put, fvars>>
        BY <1>3 DEF GetchEof
    <2> QED
        BY <2>1 DEF fvars, BufferTypeOK, ReaderInv, Hashing
<1>4. CASE CallGetBytes
    <2>1. PICK n \in GetSizes, all \in BOOLEAN : GetBytes(n, all)
        BY <1>4 DEF CallGetBytes
    <2>2. r' \in Reader
        BY <1>0, <2>1, CasesAssumption, EmptySeq DEF GetBytes, Reader, Bytes
    <2> QED
        BY <1>4, <2>1, <2>2 DEF CallGetBytes, GetBytes, BufferTypeOK, ReaderInv, Hashing
<1>5. CASE DoGetBytes
    <2>1. r.call = "getbytes" /\ UNCHANGED <<text, put, disk, w, short, overrun>>
        BY <1>5 DEF DoGetBytes, FillForGetBytes, Copy, ReadDirect
    <2>2. user \in Hashing /\ user' \in Hashing
        BY <1>5, <2>1 DEF DoGetBytes, ReaderInv, Hashing
    <2>3. r' \in Reader
        <3>1. CASE FillForGetBytes
            BY <3>1, FillType DEF FillForGetBytes
        <3>2. CASE Copy
            <4> DEFINE q == [r EXCEPT !.dst = @ \o SubSeq(r.data, 1, Part),
                                      !.data = SubSeq(@, Part + 1, Len(@))]
            <4>1. Part \in Nat /\ Part <= r.max /\ Part <= Len(r.data) /\ Len(r.data) \in Nat
                BY <1>0 DEF Part, Bytes
            <4>2. SubSeq(r.data, 1, Part) \in Bytes
                BY <1>0, <4>1, SubSeqProperties, ElementOfSeq DEF Bytes
            <4>3. SubSeq(r.data, Part + 1, Len(r.data)) \in Bytes
                BY <1>0, <4>1, SubSeqProperties, ElementOfSeq DEF Bytes
            <4>4. r.dst \o SubSeq(r.data, 1, Part) \in Bytes
                BY <1>0, <4>2, ConcatProperties DEF Bytes
            <4>5. q \in Reader /\ q.max = r.max
                BY <1>0, <4>3, <4>4 DEF Reader
            <4>6. r' = Took(q, Part)
                BY <3>2 DEF Copy
            <4> HIDE DEF q
            <4> QED
                BY <4>1, <4>5, <4>6, TookType
        <3>3. CASE ReadDirect
            <4>1. PICK n \in 0 .. r.max :
                     /\ CanRead(n, r.max)
                     /\ r' = Took([r EXCEPT !.dst = @ \o Chunk(n), !.off = @ + n], n)
                BY <3>3 DEF ReadDirect
            <4> DEFINE q == [r EXCEPT !.dst = @ \o Chunk(n), !.off = @ + n]
            <4>2. n \in Nat /\ n <= r.max
                BY <1>0, <4>1
            <4>3. r.dst \o Chunk(n) \in Bytes
                BY <1>0, <4>1, <4>2, ReadGivesBytes, ConcatProperties DEF Bytes
            <4>4. q \in Reader /\ q.max = r.max
                <5>1. r.off + n \in Nat
                    BY <1>0, <4>2 DEF Reader
                <5> QED
                    BY <1>0, <4>3, <5>1 DEF Reader
            <4>5. r' = Took(q, n)
                BY <4>1
            <4> HIDE DEF q
            <4> QED
                BY <4>2, <4>4, <4>5, TookType
        <3> QED
            BY <1>5, <3>1, <3>2, <3>3 DEF DoGetBytes
    <2> QED
        BY <2>1, <2>2, <2>3 DEF BufferTypeOK, ReaderInv
<1> QED
    BY <1>1, <1>2, <1>3, <1>4, <1>5

----------------------------------------------------------------------------
(***************************************************************************)
(* NoneLost.                                                               *)
(***************************************************************************)
Lossless == BufferTypeOK /\ WriterInv /\ ReaderInv /\ NoneLost

\* A byte more in the buffer is a byte more of the text.
LEMMA PutKeepsAll ==
    ASSUME Lossless, PutNext
    PROVE  NoneLost'
<1> SUFFICES ASSUME ~ overrun' PROVE disk' \o Unwritten' = SubSeq(text', 1, put')
    BY DEF NoneLost, Unwritten
<1> DEFINE c == text[put + 1]
<1>1. /\ w.pc = "put" /\ w.written = 0 /\ w \in Writer /\ w.data \in Bytes
      /\ disk \in Bytes /\ text \in Bytes /\ put \in 0 .. Len(text) - 1
      /\ Len(w.data) \in Nat /\ Len(text) \in Nat
    BY DEF Lossless, BufferTypeOK, WriterInv, Writer, PutNext, PutByte, Bytes
<1>2. c \in Byte
    BY <1>1, ElementOfSeq DEF Bytes
<1>3. /\ w' = [w EXCEPT !.data = Append(@, c)]
      /\ disk' = disk /\ text' = text /\ put' = put + 1 /\ ~ overrun
    BY DEF PutNext, PutByte
<1> HIDE DEF c
<1>4. w'.data = Append(w.data, c) /\ w'.written = 0
    BY <1>1, <1>3 DEF Writer
<1>5. Unwritten = w.data
    BY <1>1, SubSeqFull DEF Unwritten, Bytes
<1>6. Append(w.data, c) \in Bytes /\ Append(w.data, c) = w.data \o <<c>>
    BY <1>1, <1>2, AppendProperties, AppendIsConcat DEF Bytes
<1>7. Unwritten' = w.data \o <<c>>
    BY <1>4, <1>6, SubSeqFull DEF Unwritten, Bytes
<1>8. <<c>> \in Bytes
    BY <1>2 DEF Bytes
<1>9. disk \o (w.data \o <<c>>) = (disk \o w.data) \o <<c>>
    BY <1>1, <1>8, Associative
<1>10. disk \o w.data = SubSeq(text, 1, put)
    BY <1>3, <1>5 DEF Lossless, NoneLost, Unwritten
<1>11. SubSeq(text, 1, put + 1) = SubSeq(text, 1, put) \o <<c>>
    <2> DEFINE n == put + 1
    <2>1. n \in 1 .. Len(text) /\ n - 1 = put /\ 1 \in 1 .. Len(text)
        BY <1>1
    <2> HIDE DEF n
    <2>2. SubSeq(text, 1, n) = SubSeq(text, 1, n - 1) \o <<text[n]>>
        BY <1>1, <2>1, SubSeqRecursiveSecond DEF Bytes
    <2> QED
        BY <2>1, <2>2 DEF n, c
<1> QED
    BY <1>3, <1>7, <1>9, <1>10, <1>11

\* What a write takes from the buffer it adds to the file, if it stays in the
\* buffer.
LEMMA WriteKeepsAll ==
    ASSUME Lossless, NEW n \in 1 .. BufSize, WriteCall(n), UNCHANGED <<text, put>>
    PROVE  NoneLost'
<1> SUFFICES ASSUME ~ overrun' PROVE disk' \o Unwritten' = SubSeq(text', 1, put')
    BY DEF NoneLost, Unwritten
<1> DEFINE d == w.data
           k == w.written
           m == k + n
<1>1. /\ ~ overrun /\ m <= Len(d)
      /\ d \in Bytes /\ disk \in Bytes /\ k \in Nat /\ w \in Writer
      /\ Len(d) \in Nat /\ n \in 1 .. Len(d)
    <2>1. ~ (overrun \/ w.written + n > Len(w.data)) /\ n \in 1 .. Len(w.data)
        BY DEF WriteCall
    <2>2. d \in Bytes /\ disk \in Bytes /\ k \in Nat /\ w \in Writer /\ Len(d) \in Nat
        BY DEF Lossless, BufferTypeOK, Writer, Bytes
    <2> QED
        BY <2>1, <2>2
<1>2. PICK junk \in [1 .. k -> Junk] : disk' = disk \o SubSeq(d \o junk, k + 1, k + n)
    BY DEF WriteCall, Sent, Memory, From
<1>3. junk \in Bytes
    BY <1>1, JunkBytes
<1>4. w' = IF m >= Len(d) THEN NewWriter ELSE [w EXCEPT !.written = @ + n]
    BY DEF WriteCall
<1>5. disk \o SubSeq(d, k + 1, Len(d)) = SubSeq(text, 1, put)
    BY <1>1 DEF Lossless, NoneLost
<1>6. Unwritten' = SubSeq(d, m + 1, Len(d))
    <2>1. CASE m >= Len(d)
        <3>1. Unwritten' = <<>>
            BY <1>4, <2>1, SubSeqEmpty, EmptySeq DEF Unwritten, NewWriter
        <3>2. SubSeq(d, m + 1, Len(d)) = <<>>
            BY <1>1, <2>1, SubSeqEmpty
        <3> QED
            BY <3>1, <3>2
    <2>2. CASE ~ (m >= Len(d))
        <3>1. w'.data = d /\ w'.written = m
            BY <1>1, <1>4, <2>2 DEF Writer
        <3> QED
            BY <3>1 DEF Unwritten
    <2> QED
        BY <2>1, <2>2
<1>7. m \in Nat /\ k + 1 \in 1 .. Len(d) /\ m \in k + 1 .. Len(d) /\ m = k + n
    BY <1>1
<1> HIDE DEF d, k, m
<1>8. SubSeq(d \o junk, k + 1, m) = SubSeq(d, k + 1, m)
    BY <1>1, <1>3, <1>7, SubSeqOfConcat1 DEF Bytes
<1>9. SubSeq(d, k + 1, m) \o SubSeq(d, m + 1, Len(d)) = SubSeq(d, k + 1, Len(d))
    <2>1. k + 1 \in 1 .. Len(d) + 1 /\ m \in (k + 1) - 1 .. Len(d) /\ Len(d) \in m .. Len(d)
        BY <1>1, <1>7
    <2> QED
        BY <1>1, <2>1, ConcatAdjacentSubSeq DEF Bytes
<1>10. SubSeq(d, k + 1, m) \in Bytes /\ SubSeq(d, m + 1, Len(d)) \in Bytes
    BY <1>1, <1>7, SubSeqProperties, ElementOfSeq DEF Bytes
<1>11. disk' \o Unwritten' = disk \o (SubSeq(d, k + 1, m) \o SubSeq(d, m + 1, Len(d)))
    <2> DEFINE e == SubSeq(d, k + 1, m)
               g == SubSeq(d, m + 1, Len(d))
    <2>1. disk' = disk \o e /\ Unwritten' = g
        BY <1>2, <1>6, <1>7, <1>8
    <2>2. e \in Bytes /\ g \in Bytes
        BY <1>10
    <2> HIDE DEF e, g
    <2>3. disk' \o Unwritten' = disk \o (e \o g)
        BY <1>1, <2>1, <2>2, Associative
    <2> QED
        BY <2>3 DEF e, g
<1> QED
    BY <1>5, <1>9, <1>11

LEMMA LosslessInit ==
    Init => Lossless
<1> SUFFICES ASSUME Init PROVE Lossless
    OBVIOUS
<1>1. BufferTypeOK /\ WriterInv /\ ReaderInv
    BY InitTypes
<1>2. disk = <<>> /\ w.data = <<>> /\ w.written = 0 /\ put = 0
    BY DEF Init, NewWriter
<1>3. SubSeq(w.data, w.written + 1, Len(w.data)) = <<>> /\ SubSeq(text, 1, put) = <<>>
    BY <1>2, SubSeqEmpty, EmptySeq
<1>4. <<>> \o <<>> = <<>>
    BY ConcatEmptySeq, EmptySeq DEF Bytes
<1> QED
    BY <1>1, <1>2, <1>3, <1>4 DEF Lossless, NoneLost

LEMMA LosslessStep ==
    Lossless /\ [Next]_vars => Lossless'
<1> SUFFICES ASSUME Lossless, [Next]_vars PROVE Lossless'
    OBVIOUS
<1>1. CASE PutNext \/ FlushFull \/ CloseIndex \/ WriteOut
    <2>1. BufferTypeOK' /\ WriterInv'
        BY <1>1, WriterStepTypes DEF Lossless
    <2>2. ReaderInv'
        BY <1>1 DEF Lossless, ReaderInv, PutNext, PutByte, FlushFull, Flush, CloseIndex,
                    Close, WriteOut, WriteCall, WriterDies
    <2>3. NoneLost'
        <3>1. CASE PutNext
            BY <3>1, PutKeepsAll
        <3>2. CASE FlushFull
            <4>1. w.written = 0 /\ w'.data = w.data /\ w'.written = 0
                  /\ UNCHANGED <<disk, overrun, text, put>>
                BY <3>2 DEF Lossless, WriterInv, BufferTypeOK, Writer, FlushFull, Flush
            <4> QED
                BY <4>1 DEF Lossless, NoneLost
        <3>3. CASE CloseIndex
            <4>1. w'.data = w.data /\ w'.written = w.written
                  /\ UNCHANGED <<disk, overrun, text, put>>
                BY <3>3 DEF Lossless, BufferTypeOK, Writer, CloseIndex, Close
            <4> QED
                BY <4>1 DEF Lossless, NoneLost
        <3>4. CASE WriteOut
            <4>1. ASSUME NEW n \in 1 .. BufSize, WriteCall(n)
                  PROVE  NoneLost'
                BY <3>4, <4>1, WriteKeepsAll DEF WriteOut
            <4>2. CASE WriterDies
                <5>1. w'.data = w.data /\ w'.written = w.written
                      /\ UNCHANGED <<disk, overrun, text, put>>
                    BY <3>4, <4>2 DEF Lossless, BufferTypeOK, Writer, WriteOut, WriterDies
                <5> QED
                    BY <5>1 DEF Lossless, NoneLost
            <4> QED
                BY <3>4, <4>1, <4>2 DEF WriteOut
        <3> QED
            BY <1>1, <3>1, <3>2, <3>3, <3>4
    <2> QED
        BY <2>1, <2>2, <2>3 DEF Lossless
<1>2. CASE Getch \/ FillLine \/ GetchEof \/ CallGetBytes \/ DoGetBytes
    BY <1>2, ReaderStepTypes DEF Lossless, WriterInv, NoneLost
<1>3. CASE UNCHANGED vars
    BY <1>3 DEF vars, fvars, Lossless, BufferTypeOK, WriterInv, ReaderInv, NoneLost
<1> QED
    BY <1>1, <1>2, <1>3 DEF Next

\* Whatever is put into an index, through a buffer of whatever size and with
\* any number of short writes: as long as none of these made the next write run
\* beyond the buffer, the file and what is unwritten are all that was put, in
\* order (File::put, flush and LocalFile::writebytes, file.cc:105-139,
\* local.cc:50-58).
THEOREM WriterLosesNothing == Spec => []NoneLost
<1>1. Lossless => NoneLost
    BY DEF Lossless
<1> QED
    BY <1>1, LosslessInit, LosslessStep, PTL DEF Spec

----------------------------------------------------------------------------
(***************************************************************************)
(* NeededRight.                                                            *)
(***************************************************************************)
Digest == [1 .. HashSize -> Byte]

\* Lines that were read have digests where they have a hash.
LinesOK == \A i \in DOMAIN got : HashKey \in DOMAIN got[i] => got[i][HashKey] \in Digest

NeededInv ==
    user \notin Hashing =>
       /\ needed \in Table(Digest)
       /\ \E S : got \in Seq(S)
       /\ LinesOK

\* hashdecode gives HASH_SIZE octets or throws.
LEMMA HashdecodeGivesDigest ==
    ASSUME NEW s, Hashdecode(s) # Bad
    PROVE  Hashdecode(s) \in Digest
<1>1. Len(s) = 2 * HashSize /\ Hashdecode(s) = Hexdecode(s)
    BY DEF Hashdecode
<1> DEFINE b == [i \in 1 .. Len(s) \div 2 |-> HexPair(s[2 * i - 1], s[2 * i])]
<1>2. Len(s) \div 2 = HashSize
    BY <1>1, HashSizeAssumption
<1>3. Hexdecode(s) = b /\ \A i \in DOMAIN b : b[i] # Bad
    BY <1>1 DEF Hexdecode
<1>4. ASSUME NEW i \in 1 .. HashSize
      PROVE  b[i] \in Byte
    <2> DEFINE x == Hexdigit(s[2 * i - 1])
               y == Hexdigit(s[2 * i])
    <2>1. b[i] = HexPair(s[2 * i - 1], s[2 * i]) /\ b[i] # Bad
        BY <1>2, <1>3
    <2>2. x # Bad /\ y # Bad /\ b[i] = 16 * x + y
        BY <2>1 DEF HexPair
    <2>3. \A c : Hexdigit(c) # Bad => Hexdigit(c) \in 0 .. 15
        BY DEF Hexdigit
    <2>4. x \in 0 .. 15 /\ y \in 0 .. 15
        BY <2>2, <2>3
    <2> HIDE DEF x, y, b
    <2> QED
        BY <2>2, <2>4 DEF Byte
<1>5. b \in [1 .. HashSize -> Byte]
    BY <1>2, <1>4
<1> QED
    BY <1>1, <1>3, <1>5 DEF Digest

LEMMA ReadLineGivesDigest ==
    ASSUME NEW s, ReadLine(s) # Bad, HashKey \in DOMAIN ReadLine(s)
    PROVE  ReadLine(s)[HashKey] \in Digest
<1> DEFINE m == ParseIndexLine(s)
<1>1. m # Bad /\ HashKey \in DOMAIN m /\ Hashdecode(m[HashKey]) # Bad
      /\ ReadLine(s) = [m EXCEPT ![HashKey] = Hashdecode(m[HashKey])]
    BY DEF ReadLine
<1>2. ReadLine(s)[HashKey] = Hashdecode(m[HashKey])
    BY <1>1
<1> QED
    BY <1>1, <1>2, HashdecodeGivesDigest

LEMMA DigestsAreBytes == Digest \in SUBSET Bytes
BY HashSizeAssumption DEF Digest, Bytes

LEMMA AppendAny ==
    ASSUME NEW S, NEW s \in Seq(S), NEW x
    PROVE  /\ \E T : Append(s, x) \in Seq(T)
           /\ DOMAIN Append(s, x) = DOMAIN s \cup {Len(s) + 1}
           /\ \A i \in DOMAIN s : Append(s, x)[i] = s[i]
           /\ Append(s, x)[Len(s) + 1] = x
<1> DEFINE T == S \cup {x}
<1>1. s \in Seq(T) /\ x \in T
    BY SeqMonotonic
<1> HIDE DEF T
<1>2. Append(s, x) \in Seq(T)
    BY <1>1, AppendProperties
<1>3. DOMAIN Append(s, x) = DOMAIN s \cup {Len(s) + 1}
    BY <1>1
<1> QED
    BY <1>1, <1>2, <1>3, AppendProperties

\* A line is appended and its hash, if it has one, inserted.
LEMMA LineKeepsNeeded ==
    ASSUME NeededInv, NeededRight, user \notin Hashing, NEW s, ProcessLine(s)
    PROVE  NeededInv' /\ NeededRight'
<1>1. CASE s = EndMark \/ ReadLine(s) = Bad
    <2>1. UNCHANGED <<got, needed>>
        BY <1>1 DEF ProcessLine
    <2> QED
        BY <2>1 DEF NeededInv, NeededRight, LinesOK
<1>2. CASE s # EndMark /\ ReadLine(s) # Bad
    <2> DEFINE l == ReadLine(s)
    <2>1. /\ got' = Append(got, l)
          /\ needed' = IF HashKey \in DOMAIN l THEN Insert(needed, l[HashKey]) ELSE needed
        BY <1>2 DEF ProcessLine
    <2>2. HashKey \in DOMAIN l => l[HashKey] \in Digest
        BY <1>2, ReadLineGivesDigest
    <2> HIDE DEF l
    <2>3. PICK S : got \in Seq(S)
        BY DEF NeededInv
    <2>4. /\ needed \in Table(Digest) /\ LinesOK
          /\ \A i \in DOMAIN got : HashKey \in DOMAIN got[i] => Has(needed, got[i][HashKey])
          /\ \A g : InChain(needed, g) =>
                \E i \in DOMAIN got : HashKey \in DOMAIN got[i] /\ got[i][HashKey] = g
        BY DEF NeededInv, NeededRight, InChain
    <2>5. /\ \E T : got' \in Seq(T)
          /\ DOMAIN got' = DOMAIN got \cup {Len(got) + 1}
          /\ \A i \in DOMAIN got : got'[i] = got[i]
          /\ got'[Len(got) + 1] = l
        <3>1. /\ \E T : Append(got, l) \in Seq(T)
              /\ DOMAIN Append(got, l) = DOMAIN got \cup {Len(got) + 1}
              /\ \A i \in DOMAIN got : Append(got, l)[i] = got[i]
              /\ Append(got, l)[Len(got) + 1] = l
            BY <2>3, AppendAny
        <3>2. got' = Append(got, l)
            BY <2>1
        <3> QED
            BY <3>1, <3>2
    <2>6. LinesOK'
        BY <2>2, <2>4, <2>5 DEF LinesOK
    <2>7. /\ needed' \in Table(Digest)
          /\ \A g \in Digest : Has(needed, g) => Has(needed', g)
          /\ HashKey \in DOMAIN l => Has(needed', l[HashKey])
          /\ \A g : InChain(needed', g) =>
                InChain(needed, g) \/ (HashKey \in DOMAIN l /\ g = l[HashKey])
        <3>1. CASE HashKey \in DOMAIN l
            BY <3>1, <2>1, <2>2, <2>4, DigestsAreBytes, InsertAdds
        <3>2. CASE HashKey \notin DOMAIN l
            BY <3>2, <2>1, <2>4
        <3> QED
            BY <3>1, <3>2
    <2>8. \A i \in DOMAIN got' : HashKey \in DOMAIN got'[i] => Has(needed', got'[i][HashKey])
        BY <2>4, <2>5, <2>7 DEF LinesOK
    <2>9. ASSUME NEW g, InChain(needed', g)
          PROVE  \E i \in DOMAIN got' : HashKey \in DOMAIN got'[i] /\ got'[i][HashKey] = g
        <3>1. CASE InChain(needed, g)
            BY <3>1, <2>4, <2>5
        <3>2. CASE HashKey \in DOMAIN l /\ g = l[HashKey]
            BY <3>2, <2>5
        <3> QED
            BY <2>7, <2>9, <3>1, <3>2
    <2>10. NeededRight'
        BY <2>8, <2>9 DEF NeededRight, InChain
    <2> QED
        BY <2>5, <2>6, <2>7, <2>10 DEF NeededInv
<1> QED
    BY <1>1, <1>2

LEMMA NeededStep ==
    BufferTypeOK /\ ReaderInv /\ NeededInv /\ NeededRight /\ [Next]_vars
       => NeededInv' /\ NeededRight'
<1> SUFFICES ASSUME BufferTypeOK, ReaderInv, NeededInv, NeededRight, [Next]_vars
             PROVE  NeededInv' /\ NeededRight'
    OBVIOUS
<1>1. CASE UNCHANGED <<user, got, needed>>
    BY <1>1 DEF NeededInv, NeededRight, LinesOK
<1>2. CASE Getch
    <2>1. user \notin Hashing
        BY <1>2 DEF Getch, Hashing
    <2>2. UNCHANGED <<user, got, needed>> \/ ProcessLine(line)
        BY <1>2 DEF Getch
    <2> QED
        BY <1>1, <2>1, <2>2, LineKeepsNeeded
<1>3. CASE GetchEof
    <2>1. user \notin Hashing
        BY <1>3 DEF GetchEof, Hashing
    <2>2. UNCHANGED <<got, needed>> \/ ProcessLine(line)
        BY <1>3 DEF GetchEof
    <2>3. CASE UNCHANGED <<got, needed>>
        BY <2>1, <2>3 DEF NeededInv, NeededRight, LinesOK
    <2> QED
        BY <2>1, <2>2, <2>3, LineKeepsNeeded
<1>4. CASE DoGetBytes
    <2>1. user' \in Hashing
        BY <1>4 DEF DoGetBytes, FillForGetBytes, Copy, ReadDirect, ReaderInv, Hashing
    <2> QED
        BY <2>1 DEF NeededInv, NeededRight
<1> QED
    BY <1>1, <1>2, <1>3, <1>4
       DEF Next, vars, PutNext, FlushFull, CloseIndex, WriteOut, FillLine, CallGetBytes

\* Of the lines that cleanup has read, however the index came to be written and
\* wherever it ends, needed has the hashes, and no other (HashSet::insert and
\* do_clean, hash.cc:51-63, cleanup.cc:44-49).
THEOREM NeededHasTheHashes == Spec => []NeededRight
<1> DEFINE Inv == Lossless /\ NeededInv /\ NeededRight
<1>1. Init => Inv
    <2> SUFFICES ASSUME Init PROVE NeededInv /\ NeededRight /\ Lossless
        OBVIOUS
    <2>1. got = <<>> /\ needed = NewHashSet
        BY DEF Init
    <2>2. NewHashSet \in Table(Digest) /\ \A h : ~ InChain(NewHashSet, h)
        BY NewIsEmpty
    <2>3. DOMAIN got = {} /\ got \in Seq({})
        BY <2>1
    <2>4. NeededInv
        BY <2>1, <2>2, <2>3 DEF NeededInv, LinesOK
    <2>5. NeededRight
        BY <2>1, <2>2, <2>3 DEF NeededRight, InChain
    <2> QED
        BY <2>4, <2>5, LosslessInit
<1>2. Inv /\ [Next]_vars => Inv'
    BY LosslessStep, NeededStep DEF Lossless
<1>3. Inv => NeededRight
    OBVIOUS
<1> QED
    BY <1>1, <1>2, <1>3, PTL DEF Spec


----------------------------------------------------------------------------
(***************************************************************************)
(* getbytes.                                                               *)
(***************************************************************************)
\* What hashfile has, with what the call under way has got.
SoFar == got \o (IF r.call = "getbytes" THEN r.dst ELSE <<>>)

\* What was got and what is in the buffer are the file as far as it was read.
GetInv ==
    /\ ~ r.reading => r.data = <<>>
    /\ r.call = "getbytes" => r.max > 0
    /\ user \in Hashing =>
          /\ got \in Bytes /\ r.off <= Len(disk)
          /\ SoFar \o r.data = SubSeq(disk, 1, r.off)

\* A read goes on where the one before ended.
LEMMA ChunkIsNext ==
    ASSUME BufferTypeOK, r.off <= Len(disk),
           NEW n \in Nat, NEW space \in Nat, CanRead(n, space)
    PROVE  /\ Chunk(n) \in Bytes /\ r.off + n <= Len(disk)
           /\ SubSeq(disk, 1, r.off) \o Chunk(n) = SubSeq(disk, 1, r.off + n)
<1>1. r.off \in Nat /\ disk \in Bytes /\ Len(disk) \in Nat
    BY DEF BufferTypeOK, Reader, Bytes
<1>2. r.off + n <= Len(disk)
    BY <1>1 DEF CanRead
<1> DEFINE k == r.off
<1>3. 1 \in 1 .. Len(disk) + 1 /\ k \in 1 - 1 .. Len(disk) /\ k + n \in k .. Len(disk)
    BY <1>1, <1>2
<1> HIDE DEF k
<1>4. SubSeq(disk, 1, k) \o SubSeq(disk, k + 1, k + n) = SubSeq(disk, 1, k + n)
    BY <1>1, <1>3, ConcatAdjacentSubSeq DEF Bytes
<1> QED
    BY <1>2, <1>4, ReadGivesBytes DEF Chunk, k

\* The fields after a pass through the loop of getbytes.
LEMMA TookFields ==
    ASSUME NEW q \in Reader, NEW n \in Nat, n <= q.max, NEW t, t = Took(q, n)
    PROVE  /\ t.dst = q.dst /\ t.data = q.data /\ t.off = q.off /\ t.reading = q.reading
           /\ t.all = q.all
           /\ t.call \in {q.call, "none"} /\ (t.call = q.call /\ q.call # "none" => t.max > 0)
           /\ (t.call = "none" /\ q.call # "none" /\ t.all /\ t.max > 0 => t.eof)
<1>1. PICK e \in BOOLEAN : e = (q.eof \/ n = 0)
    OBVIOUS
<1> DEFINE p == [q EXCEPT !.max = @ - n, !.eof = e]
<1>2. /\ p \in Reader /\ p.dst = q.dst /\ p.data = q.data /\ p.off = q.off
      /\ p.reading = q.reading /\ p.call = q.call /\ p.all = q.all
    <2>1. q.max - n \in Nat
        BY DEF Reader
    <2> QED
        BY <2>1 DEF Reader
<1>3. t = IF p.all /\ ~ p.eof /\ p.max > 0 THEN p ELSE Return(p)
    BY <1>1 DEF Took
<1> HIDE DEF p
<1>4. /\ Return(p).dst = p.dst /\ Return(p).data = p.data /\ Return(p).off = p.off
      /\ Return(p).reading = p.reading /\ Return(p).call = "none"
      /\ Return(p).all = p.all /\ Return(p).eof = p.eof /\ Return(p).max = p.max
    BY <1>2 DEF Return, Reader
<1> QED
    BY <1>2, <1>3, <1>4

\* A step of getbytes reads the next bytes x of the file, or none, and loses
\* none of those that it has.
LEMMA GetBytesGoesOn ==
    ASSUME BufferTypeOK, GetInv, r.off <= Len(disk), FillForGetBytes \/ Copy \/ ReadDirect
    PROVE  /\ \E x \in Bytes :
                 /\ r'.dst \o r'.data = (r.dst \o r.data) \o x
                 /\ r'.off <= Len(disk)
                 /\ SubSeq(disk, 1, r.off) \o x = SubSeq(disk, 1, r'.off)
           /\ r'.reading /\ r'.all = r.all
           /\ r'.call \in {"getbytes", "none"} /\ (r'.call = "getbytes" => r'.max > 0)
           /\ r'.call = "none" => /\ r'.dst = <<>> => r.off = Len(disk)
                                  /\ r'.all /\ r'.max > 0 => r'.eof
<1>0. /\ r \in Reader /\ r.data \in Bytes /\ r.dst \in Bytes /\ r.max \in Nat /\ r.off \in Nat
      /\ Len(r.data) \in Nat /\ Len(disk) \in Nat
    BY DEF BufferTypeOK, Reader, Bytes
<1>1. r.call = "getbytes" /\ r.max > 0
    BY DEF FillForGetBytes, Copy, ReadDirect, GetInv
<1>2. \A s \in Bytes : s \o <<>> = s /\ <<>> \o s = s
    BY ConcatEmptySeq DEF Bytes
<1>3. CASE FillForGetBytes
    <2>1. PICK n \in 0 .. BufSize :
             CanRead(n, BufSize) /\ r' = IF n = 0 THEN Return(Fill(n)) ELSE Fill(n)
        BY <1>3 DEF FillForGetBytes
    <2>2. r.data = <<>>
        BY <1>3 DEF FillForGetBytes, MustFill, GetInv
    <2>3. BufSize \in Nat /\ n \in Nat
        BY BufferAssumption
    <2>4. /\ Fill(n).dst = r.dst /\ Fill(n).data = Chunk(n) /\ Fill(n).off = r.off + n
          /\ Fill(n).reading /\ Fill(n).call = r.call /\ Fill(n).eof = (n = 0)
          /\ Fill(n).max = r.max /\ Fill(n).all = r.all
        BY <1>0 DEF Fill, Reader
    <2>5. Fill(n) \in Reader
        BY FillType, <2>1
    <2>6. /\ r'.dst = r.dst /\ r'.data = Chunk(n) /\ r'.off = r.off + n /\ r'.reading
          /\ r'.max = r.max /\ r'.all = r.all
          /\ IF n = 0 THEN r'.call = "none" /\ r'.eof ELSE r'.call = "getbytes"
        BY <1>1, <2>1, <2>4, <2>5 DEF Return, Reader
    <2>7. n = 0 => r.off = Len(disk)
        BY <1>0, <2>1 DEF CanRead
    <2>8. /\ Chunk(n) \in Bytes /\ r.off + n <= Len(disk)
          /\ SubSeq(disk, 1, r.off) \o Chunk(n) = SubSeq(disk, 1, r.off + n)
        BY <2>1, <2>3, ChunkIsNext
    <2>9. r'.dst \o r'.data = (r.dst \o r.data) \o Chunk(n)
        BY <1>0, <1>2, <2>2, <2>6
    <2> QED
        BY <1>1, <2>6, <2>7, <2>8, <2>9
<1>4. CASE Copy
    <2> DEFINE a == SubSeq(r.data, 1, Part)
               b == SubSeq(r.data, Part + 1, Len(r.data))
               q == [r EXCEPT !.dst = @ \o a, !.data = b]
    <2>1. Part \in Nat /\ Part <= r.max /\ Part <= Len(r.data)
        BY <1>0 DEF Part, Bytes
    <2>2. a \in Bytes /\ b \in Bytes /\ Len(a) = Part
        BY <1>0, <2>1, SubSeqProperties, ElementOfSeq DEF Bytes
    <2>3. a \o b = r.data
        <3>1. 1 \in 1 .. Len(r.data) + 1 /\ Part \in 1 - 1 .. Len(r.data)
              /\ Len(r.data) \in Part .. Len(r.data)
            BY <1>0, <2>1
        <3>2. a \o b = SubSeq(r.data, 1, Len(r.data))
            BY <1>0, <3>1, ConcatAdjacentSubSeq DEF Bytes
        <3> QED
            BY <1>0, <3>2, SubSeqFull DEF Bytes
    <2>4. r.reading /\ Part > 0
        <3>1. r.reading /\ r.data # <<>>
            BY <1>0, <1>4, BufferAssumption DEF Copy, MustFill, Bypass
        <3>2. Len(r.data) > 0
            BY <1>0, <3>1, EmptySeq DEF Bytes
        <3> QED
            BY <1>0, <1>1, <3>1, <3>2 DEF Part
    <2>5. q \in Reader /\ q.max = r.max /\ q.dst = r.dst \o a /\ q.data = b
          /\ q.off = r.off /\ q.reading /\ q.call = "getbytes"
          /\ q.all = r.all
        <3>1. r.dst \o a \in Bytes
            BY <1>0, <2>2, ConcatProperties DEF Bytes
        <3> HIDE DEF a, b
        <3> QED
            BY <1>0, <1>1, <2>2, <2>4, <3>1 DEF Reader
    <2>6. r' = Took(q, Part)
        BY <1>4 DEF Copy
    <2>7. r'.dst # <<>>
        <3>1. Len(r.dst \o a) = Len(r.dst) + Part /\ Len(r.dst) \in Nat
            BY <1>0, <2>2, ConcatProperties DEF Bytes
        <3>2. r'.dst = r.dst \o a
            <4> HIDE DEF q, a
            <4> QED
                BY <2>1, <2>5, <2>6, TookFields
        <3> QED
            BY <2>1, <2>4, <3>1, <3>2
    <2> HIDE DEF q, a, b
    <2>8. /\ r'.dst = r.dst \o a /\ r'.data = b /\ r'.off = r.off /\ r'.reading /\ r'.all = r.all
          /\ r'.call \in {"getbytes", "none"} /\ (r'.call = "getbytes" => r'.max > 0)
          /\ (r'.call = "none" /\ r'.all /\ r'.max > 0 => r'.eof)
        BY <2>1, <2>5, <2>6, TookFields
    <2>9. (r.dst \o a) \o b = r.dst \o r.data
        <3>1. (r.dst \o a) \o b = r.dst \o (a \o b)
            BY <1>0, <2>2, Associative
        <3> QED
            BY <2>3, <3>1
    <2>10. r.dst \o r.data \in Bytes /\ SubSeq(disk, 1, r.off) \in Bytes /\ <<>> \in Bytes
        <3>1. 0 + r.off <= Len(disk) /\ disk \in Bytes
            BY <1>0 DEF BufferTypeOK
        <3>2. SubSeq(disk, 0 + 1, 0 + r.off) \in Bytes
            BY <1>0, <3>1, PartIsBytes
        <3>3. <<>> \in Bytes
            BY EmptySeq DEF Bytes
        <3> QED
            BY <1>0, <3>2, <3>3, ConcatProperties DEF Bytes
    <2>11. (r.dst \o r.data) \o <<>> = r.dst \o r.data
           /\ SubSeq(disk, 1, r.off) \o <<>> = SubSeq(disk, 1, r.off)
        BY <1>2, <2>10
    <2> QED
        BY <2>7, <2>8, <2>9, <2>10, <2>11
<1>5. CASE ReadDirect
    <2>1. PICK n \in 0 .. r.max :
             /\ CanRead(n, r.max)
             /\ r' = Took([r EXCEPT !.dst = @ \o Chunk(n), !.off = @ + n], n)
        BY <1>5 DEF ReadDirect
    <2>2. r.data = <<>> /\ r.reading
        BY <1>5 DEF ReadDirect, Bypass, MustFill
    <2> DEFINE q == [r EXCEPT !.dst = @ \o Chunk(n), !.off = @ + n]
    <2>3. n \in Nat /\ n <= r.max
        BY <1>0
    <2>4. /\ Chunk(n) \in Bytes /\ r.off + n <= Len(disk)
          /\ SubSeq(disk, 1, r.off) \o Chunk(n) = SubSeq(disk, 1, r.off + n)
        BY <1>0, <2>1, <2>3, ChunkIsNext
    <2>5. q \in Reader /\ q.max = r.max /\ q.dst = r.dst \o Chunk(n) /\ q.data = <<>>
          /\ q.off = r.off + n /\ q.reading /\ q.call = "getbytes"
          /\ q.all = r.all
        <3>1. r.dst \o Chunk(n) \in Bytes /\ r.off + n \in Nat
            BY <1>0, <2>3, <2>4, ConcatProperties DEF Bytes
        <3> QED
            BY <1>0, <1>1, <2>2, <3>1 DEF Reader
    <2>6. r' = Took(q, n)
        BY <2>1
    <2> HIDE DEF q
    <2>7. /\ r'.dst = r.dst \o Chunk(n) /\ r'.data = <<>> /\ r'.off = r.off + n /\ r'.reading
          /\ r'.all = r.all
          /\ r'.call \in {"getbytes", "none"} /\ (r'.call = "getbytes" => r'.max > 0)
          /\ (r'.call = "none" /\ r'.all /\ r'.max > 0 => r'.eof)
        BY <2>3, <2>5, <2>6, TookFields
    <2>8. r'.dst \o r'.data = (r.dst \o r.data) \o Chunk(n)
        <3>1. r.dst \o Chunk(n) \in Bytes
            BY <1>0, <2>4, ConcatProperties DEF Bytes
        <3> QED
            BY <1>0, <1>2, <2>2, <2>7, <3>1
    <2>9. r'.dst = <<>> => r.off = Len(disk)
        <3>1. CASE n = 0
            BY <1>0, <2>1, <3>1 DEF CanRead
        <3>2. CASE n # 0
            <4>1. Len(Chunk(n)) = n
                <5>1. disk \in Bytes
                    BY DEF BufferTypeOK
                <5>2. Len(SubSeq(disk, r.off + 1, r.off + n)) = n
                    BY <1>0, <2>3, <2>4, <5>1, PartIsBytes
                <5> QED
                    BY <5>2 DEF Chunk
            <4>2. Len(r.dst \o Chunk(n)) = Len(r.dst) + n /\ Len(r.dst) \in Nat
                <5> DEFINE x == Chunk(n)
                <5>1. x \in Bytes /\ Len(x) = n
                    BY <2>4, <4>1
                <5> HIDE DEF x
                <5>2. Len(r.dst \o x) = Len(r.dst) + n /\ Len(r.dst) \in Nat
                    <6>1. Len(r.dst \o x) = Len(r.dst) + Len(x)
                        BY <1>0, <5>1, ConcatProperties DEF Bytes
                    <6>2. Len(r.dst) \in Nat
                        BY <1>0 DEF Bytes
                    <6> QED
                        BY <5>1, <6>1, <6>2
                <5> QED
                    BY <5>2 DEF x
            <4> QED
                BY <2>3, <2>7, <3>2, <4>2
        <3> QED
            BY <3>1, <3>2
    <2> QED
        BY <2>4, <2>7, <2>8, <2>9
<1> QED
    BY <1>3, <1>4, <1>5

\* What is written to the file while it is read goes behind what has been read.
LEMMA WriterKeepsGot ==
    ASSUME BufferTypeOK, WriterInv, BufferTypeOK', GetInv,
           PutNext \/ FlushFull \/ CloseIndex \/ WriteOut
    PROVE  GetInv'
<1>1. UNCHANGED <<r, user, got>>
    BY DEF PutNext, PutByte, FlushFull, Flush, CloseIndex, Close, WriteOut, WriteCall, WriterDies
<1>2. disk \in Bytes /\ r.off \in Nat /\ Len(disk) \in Nat /\ disk' \in Bytes
    BY DEF BufferTypeOK, Bytes, Reader
<1>3. disk' = disk \/ \E x \in Bytes : disk' = disk \o x
    <2>1. ASSUME NEW n \in 1 .. BufSize, WriteCall(n)
          PROVE  \E x \in Bytes : disk' = disk \o x
        <3> DEFINE k == w.written
        <3>1. PICK junk \in [1 .. k -> Junk] : disk' = disk \o SubSeq(w.data \o junk, k + 1, k + n)
            BY <2>1 DEF WriteCall, Sent, Memory, From
        <3>2. k \in Nat /\ n \in 1 .. Len(w.data) /\ w.data \in Bytes /\ Len(w.data) \in Nat
            BY <2>1 DEF WriteCall, WriterInv, BufferTypeOK, Writer, Bytes
        <3>3. junk \in Bytes /\ Len(junk) = k
            BY <3>2, JunkBytes
        <3> DEFINE m == w.data \o junk
        <3>4. m \in Bytes /\ k + n <= Len(m) /\ n \in Nat
            BY <3>2, <3>3, ConcatProperties DEF Bytes
        <3> HIDE DEF m, k
        <3>5. SubSeq(m, k + 1, k + n) \in Bytes
            BY <3>2, <3>4, PartIsBytes
        <3> QED
            BY <3>1, <3>5 DEF m
    <2> QED
        BY <2>1 DEF PutNext, PutByte, FlushFull, Flush, CloseIndex, Close, WriteOut, WriterDies
<1>4. r.off <= Len(disk) => r.off <= Len(disk') /\ SubSeq(disk', 1, r.off) = SubSeq(disk, 1, r.off)
    <2> SUFFICES ASSUME r.off <= Len(disk), NEW x \in Bytes, disk' = disk \o x
                 PROVE  r.off <= Len(disk') /\ SubSeq(disk', 1, r.off) = SubSeq(disk, 1, r.off)
        BY <1>3
    <2>1. Len(disk') = Len(disk) + Len(x) /\ Len(x) \in Nat
        BY <1>2, ConcatProperties DEF Bytes
    <2>2. SubSeq(disk \o x, 1, r.off) = SubSeq(disk, 1, r.off)
        <3>1. CASE r.off = 0
            BY <1>2, <3>1, SubSeqEmpty
        <3>2. CASE r.off # 0
            <4>1. 1 \in 1 .. Len(disk) /\ r.off \in 1 .. Len(disk)
                BY <1>2, <3>2
            <4> QED
                BY <1>2, <4>1, SubSeqOfConcat1 DEF Bytes
        <3> QED
            BY <3>1, <3>2
    <2> QED
        BY <1>2, <2>1, <2>2
<1>5. SoFar' = SoFar
    BY <1>1 DEF SoFar
<1> QED
    BY <1>1, <1>4, <1>5 DEF GetInv

LEMMA GetStep ==
    ASSUME BufferTypeOK, WriterInv, ReaderInv, GetInv, BufferTypeOK', [Next]_vars
    PROVE  GetInv'
<1>0. r \in Reader /\ r.data \in Bytes /\ r.dst \in Bytes /\ disk \in Bytes
    BY DEF BufferTypeOK, Reader
<1>1. CASE PutNext \/ FlushFull \/ CloseIndex \/ WriteOut
    BY <1>1, WriterKeepsGot
<1>2. CASE Getch
    <2>1. /\ user \notin Hashing /\ user' \notin Hashing /\ r.data # <<>>
          /\ r' = [r EXCEPT !.data = Tail(r.data)]
        BY <1>2 DEF Getch, ProcessLine, Hashing
    <2>2. r.reading /\ r.call = "none"
        BY <2>1 DEF GetInv, ReaderInv
    <2>3. r'.reading /\ r'.call = "none"
        BY <1>0, <2>1, <2>2 DEF Reader
    <2> QED
        BY <2>1, <2>3 DEF GetInv
<1>3. CASE FillLine
    <2>1. PICK n \in 0 .. BufSize : CanRead(n, BufSize) /\ r' = Fill(n)
        BY <1>3 DEF FillLine, FillForGetch
    <2>2. r'.reading /\ r'.call = r.call
        BY <1>0, <2>1 DEF Fill, Reader
    <2>3. user \notin Hashing /\ user' = user
        BY <1>3 DEF FillLine, Hashing
    <2> QED
        BY <2>2, <2>3 DEF GetInv, ReaderInv
<1>4. CASE GetchEof
    BY <1>4 DEF GetchEof, fvars, ProcessLine, NoMoreLines, GetInv, Hashing
<1>5. CASE CallGetBytes
    <2>1. PICK n \in GetSizes, all \in BOOLEAN : GetBytes(n, all)
        BY <1>5 DEF CallGetBytes
    <2>2. /\ r.call = "none" /\ r'.call = "getbytes" /\ r'.dst = <<>> /\ r'.max > 0
          /\ r'.data = r.data /\ r'.off = r.off /\ r'.reading = r.reading
          /\ UNCHANGED <<disk, user, got>>
        <3>1. /\ r.call = "none" /\ UNCHANGED <<disk, user, got>>
              /\ r' = [r EXCEPT !.call = "getbytes", !.max = n, !.all = all, !.dst = <<>>]
            BY <1>5, <2>1 DEF CallGetBytes, GetBytes
        <3>2. n > 0
            BY CasesAssumption
        <3> QED
            BY <1>0, <3>1, <3>2 DEF Reader
    <2>3. SoFar' = SoFar
        BY <2>2 DEF SoFar
    <2> QED
        BY <2>2, <2>3 DEF GetInv
<1>6. CASE DoGetBytes
    <2>1. r.call = "getbytes" /\ disk' = disk /\ (FillForGetBytes \/ Copy \/ ReadDirect)
        BY <1>6 DEF DoGetBytes, FillForGetBytes, Copy, ReadDirect
    <2>2. /\ user \in Hashing /\ got \in Bytes /\ r.off <= Len(disk)
          /\ (got \o r.dst) \o r.data = SubSeq(disk, 1, r.off)
        BY <2>1 DEF ReaderInv, GetInv, SoFar
    <2>3. PICK x \in Bytes :
             /\ r'.dst \o r'.data = (r.dst \o r.data) \o x
             /\ r'.off <= Len(disk)
             /\ SubSeq(disk, 1, r.off) \o x = SubSeq(disk, 1, r'.off)
        BY <2>1, <2>2, GetBytesGoesOn
    <2>4. r'.reading /\ r'.call \in {"getbytes", "none"} /\ (r'.call = "getbytes" => r'.max > 0)
        BY <2>1, <2>2, GetBytesGoesOn
    <2>5. r'.dst \in Bytes /\ r'.data \in Bytes
        BY DEF BufferTypeOK, Reader
    <2>6. /\ r'.call = "getbytes" => got' = got
          /\ r'.call = "none" => got' = got \o r'.dst
        <3>1. got \o <<>> = got
            BY <2>2, ConcatEmptySeq DEF Bytes
        <3> QED
            BY <1>6, <3>1 DEF DoGetBytes
    <2>7. got \o r'.dst \in Bytes /\ (got \o r'.dst) \o <<>> = got \o r'.dst
        BY <2>2, <2>5, ConcatProperties, ConcatEmptySeq DEF Bytes
    <2>8. SoFar' = got \o r'.dst /\ got' \in Bytes
        BY <2>2, <2>4, <2>6, <2>7 DEF SoFar
    <2>9. (got \o r'.dst) \o r'.data = SubSeq(disk, 1, r'.off)
        <3>1. (got \o r'.dst) \o r'.data = got \o ((r.dst \o r.data) \o x)
            <4>1. (got \o r'.dst) \o r'.data = got \o (r'.dst \o r'.data)
                BY <2>2, <2>5, Associative
            <4> QED
                BY <2>3, <4>1
        <3>2. r.dst \o r.data \in Bytes
            BY <1>0, ConcatProperties DEF Bytes
        <3>3. got \o ((r.dst \o r.data) \o x) = (got \o (r.dst \o r.data)) \o x
            BY <2>2, <3>2, Associative
        <3>4. got \o (r.dst \o r.data) = (got \o r.dst) \o r.data
            BY <1>0, <2>2, Associative, ZenonT(60)
        <3> QED
            BY <2>2, <2>3, <3>1, <3>3, <3>4
    <2> QED
        BY <2>1, <2>3, <2>4, <2>8, <2>9 DEF GetInv
<1>7. CASE UNCHANGED vars
    BY <1>7 DEF vars, fvars, GetInv, SoFar
<1> QED
    BY <1>1, <1>2, <1>3, <1>4, <1>5, <1>6, <1>7 DEF Next

LEMMA AlwaysGetInv == Spec => [](Lossless /\ GetInv)
<1>1. Init => GetInv
    <2> SUFFICES ASSUME Init PROVE GetInv
        OBVIOUS
    <2>1. r = NewReader /\ got = <<>> /\ disk = <<>>
        BY DEF Init
    <2>2. r.data = <<>> /\ r.call = "none" /\ r.off = 0
        BY <2>1 DEF NewReader
    <2>3. SubSeq(disk, 1, 0) = <<>> /\ <<>> \o <<>> = <<>> /\ Len(<<>>) = 0 /\ <<>> \in Bytes
        BY <2>1, SubSeqEmpty, ConcatEmptySeq, EmptySeq DEF Bytes
    <2> QED
        BY <2>1, <2>2, <2>3 DEF GetInv, SoFar
<1>2. Lossless /\ GetInv /\ [Next]_vars => (Lossless /\ GetInv)'
    BY LosslessStep, GetStep DEF Lossless
<1> QED
    BY <1>1, <1>2, LosslessInit, PTL DEF Spec

\* getbytes gives the bytes of the file in order, from whatever buffer and by
\* reads of whatever size, while the file may still grow, and loses none
\* between two calls (file.cc:62-90).
THEOREM GetbytesInOrder == Spec => []GetsInOrder
<1>1. Lossless /\ GetInv => GetsInOrder
    <2> SUFFICES ASSUME BufferTypeOK, GetInv, user \in Hashing
                 PROVE  /\ IsPrefix(got, disk)
                        /\ r.call = "none" => Len(got) = r.off - Len(r.data)
        BY DEF Lossless, GetsInOrder
    <2> DEFINE a == IF r.call = "getbytes" THEN r.dst ELSE <<>>
    <2>1. /\ got \in Bytes /\ a \in Bytes /\ r.data \in Bytes /\ disk \in Bytes
          /\ r.off \in Nat /\ r.off <= Len(disk)
          /\ (got \o a) \o r.data = SubSeq(disk, 1, r.off)
        BY EmptySeq DEF GetInv, BufferTypeOK, Reader, SoFar, Bytes
    <2>2. r.call = "none" => a = <<>>
        OBVIOUS
    <2> HIDE DEF a
    <2> DEFINE b == a \o r.data
               c == SubSeq(disk, 1, r.off)
    <2>3. b \in Bytes /\ Len(b) = Len(a) + Len(r.data)
        BY <2>1, ConcatProperties DEF Bytes
    <2>4. got \o b = c
        BY <2>1, Associative
    <2>5. Len(c) = r.off /\ \A i \in 1 .. r.off : c[i] = disk[i]
        BY <2>1, SubSeqProperties DEF Bytes
    <2>6. /\ Len(got) \in Nat /\ Len(a) \in Nat /\ Len(r.data) \in Nat /\ Len(disk) \in Nat
          /\ Len(got \o b) = Len(got) + Len(b)
          /\ \A i \in 1 .. Len(got) : (got \o b)[i] = got[i]
        BY <2>1, <2>3, ConcatProperties DEF Bytes
    <2> HIDE DEF b, c
    <2>7. Len(got) + (Len(a) + Len(r.data)) = r.off
        <3>1. Len(got \o b) = r.off
            BY <2>4, <2>5
        <3>2. Len(got \o b) = Len(got) + (Len(a) + Len(r.data))
            BY <2>3, <2>6
        <3> QED
            BY <3>1, <3>2, Zenon
    <2>8. Len(got) <= Len(disk) /\ \A i \in 1 .. Len(got) : got[i] = disk[i]
        BY <2>1, <2>4, <2>5, <2>6, <2>7
    <2>9. SubSeq(got, 1, Len(got)) = SubSeq(disk, 1, Len(got))
        BY <2>1, <2>6, <2>8, SubSeqProperties DEF Bytes
    <2> QED
        <3>1. IsPrefix(got, disk)
            BY <2>8, <2>9 DEF IsPrefix
        <3>2. r.call = "none" => Len(a) = 0
            BY <2>2, EmptySeq
        <3>3. ASSUME r.call = "none" PROVE Len(got) = r.off - Len(r.data)
            <4>1. Len(a) = 0
                BY <3>2, <3>3
            <4> DEFINE k == Len(got)
                       l == Len(r.data)
                       m == Len(a)
            <4>2. k + (m + l) = r.off /\ m = 0 /\ k \in Nat /\ l \in Nat
                BY <2>6, <2>7, <4>1
            <4> HIDE DEF k, l, m
            <4>3. k = r.off - l
                BY <4>2
            <4> QED
                BY <4>3 DEF k, l
        <3> QED
            BY <3>1, <3>3
<1> QED
    BY <1>1, AlwaysGetInv, PTL

\* Nothing means the end of the file, which ends the loops of restore, backup
\* and hashfile, and so does less than all for who asks for all
\* (file.cc:62-90, restore.cc:172, backup.cc:330, hash.cc:131).
THEOREM NothingOnlyAtEnd == Spec => NothingMeansEnd
<1>1. Lossless /\ GetInv /\ [Next]_vars =>
         [r.call = "getbytes" /\ r'.call = "none" =>
             /\ r'.dst = <<>> => r.off = Len(disk)
             /\ r.all /\ r'.max > 0 => r'.eof]_vars
    <2> SUFFICES ASSUME BufferTypeOK, ReaderInv, GetInv, [Next]_vars,
                        r.call = "getbytes", r'.call = "none"
                 PROVE  /\ r'.dst = <<>> => r.off = Len(disk)
                        /\ r.all /\ r'.max > 0 => r'.eof
        BY DEF Lossless
    <2>1. user \in Hashing /\ r.off <= Len(disk)
        BY DEF ReaderInv, GetInv
    <2>2. FillForGetBytes \/ Copy \/ ReadDirect
        BY <2>1 DEF Next, vars, fvars, PutNext, PutByte, FlushFull, Flush, CloseIndex, Close,
               WriteOut, WriteCall, WriterDies, Getch, FillLine, GetchEof, CallGetBytes,
               GetBytes, DoGetBytes, Hashing
    <2> QED
        BY <2>1, <2>2, GetBytesGoesOn
<1> QED
    BY <1>1, AlwaysGetInv, PTL DEF Spec, NothingMeansEnd
=============================================================================
