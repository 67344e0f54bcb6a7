----------------------------- MODULE SftpProofs -----------------------------
(***************************************************************************)
(* The replies of an SFTP server find the calls they belong to, for any    *)
(* names, contents, pipes, faults and users of the server, and whatever    *)
(* calls the program makes: as long as request ids have not wrapped        *)
(* around, what a call awaits is the reply to its own request, what has    *)
(* been flushed is stored, and what is read is the file, in order.         *)
(***************************************************************************)
EXTENDS Sftp, SequenceTheorems, TLAPS

----------------------------------------------------------------------------
(***************************************************************************)
(* Sequences and functions.                                                *)
(***************************************************************************)
IsSeq(s) == \E S : s \in Seq(S)

LEMMA SeqLength ==
    ASSUME NEW s, IsSeq(s)
    PROVE  /\ Len(s) \in Nat /\ DOMAIN s = 1 .. Len(s)
           /\ s = <<>> <=> Len(s) = 0
           /\ s = <<>> <=> DOMAIN s = {}
<1>1. PICK S : s \in Seq(S)
    BY DEF IsSeq
<1> QED
    BY <1>1, LenProperties, EmptySeq

\* What a sequence has at its end after Append.
LEMMA AppendSeq ==
    ASSUME NEW s, IsSeq(s), NEW e
    PROVE  /\ IsSeq(Append(s, e))
           /\ Len(Append(s, e)) = Len(s) + 1
           /\ DOMAIN Append(s, e) = DOMAIN s \cup {Len(s) + 1}
           /\ \A i \in DOMAIN s : Append(s, e)[i] = s[i]
           /\ Append(s, e)[Len(s) + 1] = e
           /\ Len(s) + 1 \notin DOMAIN s
<1>1. PICK S : s \in Seq(S)
    BY DEF IsSeq
<1> DEFINE T == S \cup {e}
<1>2. s \in Seq(T) /\ e \in T
    BY <1>1, SeqMonotonic
<1> HIDE DEF T
<1>3. /\ Append(s, e) \in Seq(T)
      /\ Len(Append(s, e)) = Len(s) + 1
      /\ \A i \in 1 .. Len(s) : Append(s, e)[i] = s[i]
      /\ Append(s, e)[Len(s) + 1] = e
    BY <1>2, AppendProperties
<1>4. Len(s) \in Nat /\ DOMAIN s = 1 .. Len(s)
    BY SeqLength
<1>5. DOMAIN Append(s, e) = 1 .. Len(s) + 1
    BY <1>3, LenProperties
<1> QED
    BY <1>3, <1>4, <1>5 DEF IsSeq

\* What is left when the first element is gone.
LEMMA TailSeq ==
    ASSUME NEW s, IsSeq(s), s # <<>>
    PROVE  /\ IsSeq(Tail(s))
           /\ 1 \in DOMAIN s /\ Head(s) = s[1]
           /\ Len(Tail(s)) = Len(s) - 1
           /\ \A i \in DOMAIN Tail(s) : i + 1 \in DOMAIN s /\ Tail(s)[i] = s[i + 1]
           /\ \A i \in DOMAIN s : i = 1 \/ (i - 1 \in DOMAIN Tail(s) /\ Tail(s)[i - 1] = s[i])
<1>1. PICK S : s \in Seq(S)
    BY DEF IsSeq
<1>2. /\ Tail(s) \in Seq(S) /\ Len(Tail(s)) = Len(s) - 1
      /\ \A i \in 1 .. Len(Tail(s)) : Tail(s)[i] = s[i + 1]
    BY <1>1, HeadTailProperties
<1>3. Len(s) \in Nat \ {0} /\ DOMAIN s = 1 .. Len(s)
    BY SeqLength
<1>4. DOMAIN Tail(s) = 1 .. Len(s) - 1
    BY <1>2, LenProperties
<1>5. Head(s) = s[1]
    BY <1>1
<1> QED
    BY <1>2, <1>3, <1>4, <1>5 DEF IsSeq

\* What is left when an element is taken out.
LEMMA RemoveAtSeq ==
    ASSUME NEW s, IsSeq(s), NEW k \in DOMAIN s
    PROVE  /\ IsSeq(RemoveAt(s, k)) /\ Len(RemoveAt(s, k)) = Len(s) - 1
           /\ \A i \in DOMAIN RemoveAt(s, k) :
                 LET j == IF i < k THEN i ELSE i + 1 IN
                 /\ j \in DOMAIN s \ {k} /\ i \in Nat
                 /\ RemoveAt(s, k)[i] = s[j]
<1>1. PICK S : s \in Seq(S)
    BY DEF IsSeq
<1>2. Len(s) \in Nat /\ DOMAIN s = 1 .. Len(s) /\ k \in 1 .. Len(s)
    BY SeqLength
<1> DEFINE a == SubSeq(s, 1, k - 1)
           b == SubSeq(s, k + 1, Len(s))
<1>3. /\ a \in Seq(S) /\ Len(a) = k - 1
      /\ \A i \in 1 .. k - 1 : a[i] = s[i]
    <2>1. \A i \in 1 .. k - 1 : s[i] \in S
        BY <1>1, <1>2, ElementOfSeq
    <2>2. /\ a \in Seq(S)
          /\ Len(a) = IF 1 <= k - 1 THEN (k - 1) - 1 + 1 ELSE 0
          /\ \A i \in 1 .. (k - 1) - 1 + 1 : a[i] = s[1 + i - 1]
        BY <1>2, <2>1, SubSeqProperties
    <2> QED
        BY <2>2, <1>2
<1>4. /\ b \in Seq(S) /\ Len(b) = Len(s) - k
      /\ \A i \in 1 .. Len(s) - k : b[i] = s[k + i]
    <2>1. \A i \in k + 1 .. Len(s) : s[i] \in S
        BY <1>1, <1>2, ElementOfSeq
    <2>2. /\ b \in Seq(S)
          /\ Len(b) = IF k + 1 <= Len(s) THEN Len(s) - (k + 1) + 1 ELSE 0
          /\ \A i \in 1 .. Len(s) - (k + 1) + 1 : b[i] = s[(k + 1) + i - 1]
        BY <1>2, <2>1, SubSeqProperties
    <2> QED
        BY <2>2, <1>2
<1>5. RemoveAt(s, k) = a \o b
    BY DEF RemoveAt
<1> HIDE DEF a, b
<1>6. /\ a \o b \in Seq(S) /\ Len(a \o b) = Len(a) + Len(b)
      /\ \A i \in 1 .. Len(a) + Len(b) : (a \o b)[i] = IF i <= Len(a) THEN a[i] ELSE b[i - Len(a)]
    BY <1>3, <1>4, ConcatProperties
<1>7. Len(a \o b) = Len(s) - 1 /\ DOMAIN (a \o b) = 1 .. Len(s) - 1
    <2>1. Len(a) + Len(b) = Len(s) - 1
        BY <1>2, <1>3, <1>4
    <2>2. Len(a \o b) = Len(s) - 1
        BY <2>1, <1>6, Zenon
    <2>3. DOMAIN (a \o b) = 1 .. Len(a \o b)
        BY <1>6, LenProperties
    <2> QED
        BY <2>2, <2>3, Zenon
<1>8. ASSUME NEW i \in 1 .. Len(s) - 1
      PROVE  LET j == IF i < k THEN i ELSE i + 1 IN
             j \in DOMAIN s \ {k} /\ i \in Nat /\ (a \o b)[i] = s[j]
    <2>1. CASE i < k
        <3>1. (a \o b)[i] = a[i] /\ a[i] = s[i]
            BY <2>1, <1>2, <1>3, <1>4, <1>6
        <3> QED
            BY <2>1, <3>1, <1>2
    <2>2. CASE ~ (i < k)
        <3>1. (a \o b)[i] = b[i - Len(a)] /\ i - Len(a) = i - k + 1
              /\ i - k + 1 \in 1 .. Len(s) - k
            BY <2>2, <1>2, <1>3, <1>4, <1>6
        <3>2. b[i - k + 1] = s[k + (i - k + 1)] /\ k + (i - k + 1) = i + 1
            BY <3>1, <1>4, <1>2
        <3>3. (a \o b)[i] = s[i + 1]
            BY <3>1, <3>2
        <3> QED
            BY <2>2, <3>3, <1>2
    <2> QED
        BY <2>1, <2>2
<1> QED
    BY <1>5, <1>6, <1>7, <1>8 DEF IsSeq

LEMMA SmallSeqs ==
    /\ IsSeq(<<>>) /\ DOMAIN <<>> = {}
    /\ \A a : IsSeq(<<a>>) /\ DOMAIN <<a>> = {1}
    /\ \A a, b : IsSeq(<<a, b>>) /\ DOMAIN <<a, b>> = 1 .. 2
    /\ \A a, b, c, d : IsSeq(<<a, b, c, d>>) /\ DOMAIN <<a, b, c, d>> = 1 .. 4
<1>1. IsSeq(<<>>) /\ DOMAIN <<>> = {}
    BY EmptySeq, SeqLength DEF IsSeq
<1>2. ASSUME NEW S, NEW a \in S, NEW b \in S, NEW c \in S, NEW d \in S
      PROVE  <<a>> \in Seq(S) /\ <<a, b>> \in Seq(S) /\ <<a, b, c, d>> \in Seq(S)
    OBVIOUS
<1>3. ASSUME NEW a, NEW b, NEW c, NEW d
      PROVE  IsSeq(<<a>>) /\ IsSeq(<<a, b>>) /\ IsSeq(<<a, b, c, d>>)
    <2>1. \E S : a \in S /\ b \in S /\ c \in S /\ d \in S
        <3>1. /\ a \in {a, b, c, d} /\ b \in {a, b, c, d}
              /\ c \in {a, b, c, d} /\ d \in {a, b, c, d}
            OBVIOUS
        <3> QED
            BY <3>1
    <2> QED
        BY <2>1, <1>2 DEF IsSeq
<1>4. ASSUME NEW a, NEW b, NEW c, NEW d
      PROVE  DOMAIN <<a>> = {1} /\ DOMAIN <<a, b>> = 1 .. 2
             /\ DOMAIN <<a, b, c, d>> = 1 .. 4
    OBVIOUS
<1> QED
    BY <1>1, <1>3, <1>4

LEMMA FourthElement ==
    ASSUME NEW a, NEW b, NEW c, NEW d
    PROVE  Append(<<a, b, c>>, d) = <<a, b, c, d>>
<1>1. PICK S : a \in S /\ b \in S /\ c \in S /\ d \in S
    <2>1. /\ a \in {a, b, c, d} /\ b \in {a, b, c, d}
          /\ c \in {a, b, c, d} /\ d \in {a, b, c, d}
        OBVIOUS
    <2> QED
        BY <2>1
<1>2. /\ <<a, b, c>> \in Seq(S) /\ Len(<<a, b, c>>) = 3
      /\ <<a, b, c, d>> \in Seq(S) /\ Len(<<a, b, c, d>>) = 4
    BY <1>1
<1>3. /\ <<a, b, c>>[1] = a /\ <<a, b, c>>[2] = b /\ <<a, b, c>>[3] = c
      /\ <<a, b, c, d>>[1] = a /\ <<a, b, c, d>>[2] = b
      /\ <<a, b, c, d>>[3] = c /\ <<a, b, c, d>>[4] = d
    OBVIOUS
<1> DEFINE s == <<a, b, c>>
           t == <<a, b, c, d>>
<1>4. s \in Seq(S) /\ Len(s) = 3 /\ s[1] = a /\ s[2] = b /\ s[3] = c
      /\ t \in Seq(S) /\ Len(t) = 4 /\ t[1] = a /\ t[2] = b /\ t[3] = c /\ t[4] = d
    BY <1>2, <1>3, Zenon
<1> HIDE DEF s, t
<1>5. /\ Append(s, d) \in Seq(S) /\ Len(Append(s, d)) = 4
      /\ \A i \in 1 .. 3 : Append(s, d)[i] = s[i]
      /\ Append(s, d)[4] = d
    <2>1. /\ Append(s, d) \in Seq(S) /\ Len(Append(s, d)) = Len(s) + 1
          /\ \A i \in 1 .. Len(s) : Append(s, d)[i] = s[i]
          /\ Append(s, d)[Len(s) + 1] = d
        <3>1. s \in Seq(S) /\ d \in S
            BY <1>1, <1>4
        <3> QED
            BY <3>1, AppendProperties
    <2>2. Len(s) + 1 = 4 /\ Len(s) = 3
        BY <1>4
    <2> QED
        BY <2>1, <2>2, Zenon
<1>6. \A i \in 1 .. 4 : i = 1 \/ i = 2 \/ i = 3 \/ i = 4
    OBVIOUS
<1>7. \A i \in 1 .. 4 : Append(s, d)[i] = t[i]
    BY <1>4, <1>5, <1>6
<1>8. Append(s, d) = t
    BY <1>4, <1>5, <1>7, SeqEqual
<1> QED
    BY <1>8 DEF s, t

LEMMA FunctionIsSeq ==
    ASSUME NEW n \in Nat, NEW f, f = [i \in 1 .. n |-> f[i]]
    PROVE  IsSeq(f) /\ Len(f) = n /\ DOMAIN f = 1 .. n
<1> DEFINE S == {f[i] : i \in 1 .. n}
<1>1. f \in [1 .. n -> S]
    OBVIOUS
<1>2. f \in Seq(S)
    BY <1>1
<1>3. Len(f) = n /\ DOMAIN f = 1 .. n
    BY <1>1
<1> QED
    BY <1>2, <1>3 DEF IsSeq

\* A reply that is taken out or let go leaves the others alone.
LEMMA LessKeys ==
    ASSUME NEW f, NEW S
    PROVE  LET g == RestrictDomain(f, LAMBDA x : x \notin S) IN
           DOMAIN g = DOMAIN f \ S /\ \A x \in DOMAIN g : g[x] = f[x]
BY DEF RestrictDomain, Restrict

LEMMA LessKey ==
    ASSUME NEW f, NEW y
    PROVE  LET g == RestrictDomain(f, LAMBDA x : x # y) IN
           DOMAIN g = DOMAIN f \ {y} /\ \A x \in DOMAIN g : g[x] = f[x]
BY DEF RestrictDomain, Restrict

----------------------------------------------------------------------------
(***************************************************************************)
(* The strengthening.  A request, and then its reply, is in one place at a *)
(* time: still to be sent, in the output buffer, in one of the two pipes,  *)
(* or among the replies that have been received.                           *)
(***************************************************************************)
\* The arguments that the server looks up are names.
ArgsRight(r) ==
    /\ r.op \in {"MKDIR", "REMOVE", "RMDIR"} => r.arg \in Path
    /\ r.op \in {"OPEN", "RENAME", "POSIX_RENAME"} => r.arg[1] \in Path
    /\ r.op \in {"RENAME", "POSIX_RENAME"} => r.arg[2] \in Path

Of(s) == {Ticket(s[i]) : i \in DOMAIN s}
Posed(s) == {i \in DOMAIN s : s[i].op # "flush"}
Asking == Posed(send)
OfSend == {Ticket(send[i]) : i \in Asking}

Travelling == OfSend \cup Of(outbuf) \cup Of(req) \cup Of(rep) \cup Of(replies)

\* What a call has asked for and not got, now or for a later call.
Kept ==
    {inflight[i].ticket : i \in DOMAIN inflight}
       \cup (IF file = NoFile THEN {} ELSE ToSet(file.queue))
Expected == ToSet(wait) \cup Kept

Single(s) == \A i, j \in DOMAIN s : s[i].ser = s[j].ser => i = j
Apart(A, B) == \A a \in A, b \in B : a.ser # b.ser

OnePlace ==
    /\ \A i, j \in Asking : send[i].ser = send[j].ser => i = j
    /\ Single(outbuf) /\ Single(req) /\ Single(rep) /\ Single(replies)
    /\ Apart(OfSend, Of(outbuf)) /\ Apart(OfSend, Of(req))
    /\ Apart(OfSend, Of(rep)) /\ Apart(OfSend, Of(replies))
    /\ Apart(Of(outbuf), Of(req)) /\ Apart(Of(outbuf), Of(rep))
    /\ Apart(Of(outbuf), Of(replies))
    /\ Apart(Of(req), Of(rep)) /\ Apart(Of(req), Of(replies))
    /\ Apart(Of(rep), Of(replies))

FileFields == {"handle", "mode", "queue", "offset", "buf", "eof", "done", "end", "failed"}
Issued(t) == t \in Tickets /\ t.ser \in 1 .. serial

\* What the steps rely on beyond the types of TypeOK.
Shape ==
    /\ IsSeq(send) /\ IsSeq(outbuf) /\ IsSeq(req) /\ IsSeq(rep)
    /\ IsSeq(got) /\ IsSeq(inflight)
    /\ \A i \in Asking : ArgsRight(send[i])
    /\ \A i \in DOMAIN outbuf : ArgsRight(outbuf[i])
    /\ \A i \in DOMAIN req : ArgsRight(req[i])
    /\ \A t \in Expected : Issued(t)
    /\ file # NoFile => DOMAIN file = FileFields

\* A call that has nothing to await has nothing left to await.
Silent == {"none", "return", "prefigure", "close"}
Progress ==
    /\ call.op = "none" => call = Idle
    /\ call.op \notin {"none", "return"} => DOMAIN call = {"op", "path", "more"}
    /\ call = Idle => send = <<>>
    /\ call.op \in Silent => wait = <<>> /\ got = <<>>
    /\ call.op \in {"mkdir", "remove", "rmdir", "rename", "exists", "type"} =>
          call.path \in Path
    /\ call.op = "rename" => call.more \in Path
    /\ call.op = "contents" =>
          DOMAIN call.more = {"id", "handle", "names"} /\ call.more.id \in Id
    /\ call.op \in {"read", "write"} => file # NoFile
    /\ call.op = "exists" /\ (got # <<>> \/ wait # <<>>) => inflight # <<>>

SftpInv == TypeOK /\ Shape /\ Progress /\ OnePlace

----------------------------------------------------------------------------
(***************************************************************************)
(* Every step of a call that makes requests makes new ones.                *)
(***************************************************************************)
\* The round to come: n requests that nobody has made before.
Fresh(n) ==
    /\ n \in Nat /\ serial' = serial + n
    /\ send = <<>> /\ IsSeq(send')
    /\ \A i \in DOMAIN send' : send'[i].op # "flush" =>
          /\ send'[i].op \in Op /\ send'[i].id \in Id
          /\ send'[i].ser \in serial + 1 .. serial + n
          /\ ArgsRight(send'[i])
    /\ \A i, j \in DOMAIN send' :
          (send'[i].op # "flush" /\ send'[j].op # "flush" /\ send'[i].ser = send'[j].ser)
             => i = j

\* Their ids come from newid().
Drawn(n) ==
    /\ id' = IF n = 0 THEN id ELSE (NewId(n) + 1) % IdMod
    /\ \A i \in DOMAIN send' : send'[i].op # "flush" =>
          send'[i].id = NewId(send'[i].ser - serial)

LEMMA Mod ==
    ASSUME NEW x \in Int, NEW m \in Nat \ {0}
    PROVE  x % m \in 0 .. m - 1
OBVIOUS

LEMMA NewIdType ==
    ASSUME id \in Nat, NEW k \in Nat
    PROVE  NewId(k) \in Id
<1> DEFINE base == IF id = 0 THEN 0 ELSE id - 1
<1>1. base \in Int
    OBVIOUS
<1> HIDE DEF base
<1>2. base + k - 1 \in Int /\ IdMod - 1 \in Nat \ {0}
    BY <1>1, ClientAssumption
<1>3. (base + k - 1) % (IdMod - 1) \in 0 .. (IdMod - 1) - 1
    BY <1>2, Mod
<1>4. NewId(k) = 1 + ((base + k - 1) % (IdMod - 1))
    BY DEF NewId, base
<1> QED
    BY <1>2, <1>3, <1>4, ClientAssumption DEF Id

LEMMA RequestFields ==
    ASSUME NEW k, NEW op, NEW arg
    PROVE  LET r == Request(k, op, arg) IN
           /\ r.id = NewId(k) /\ r.ser = serial + k /\ r.op = op /\ r.arg = arg
           /\ Ticket(r) = [id |-> NewId(k), ser |-> serial + k]
BY DEF Request, Ticket

LEMMA NothingFresh ==
    ASSUME SftpInv, send = <<>>, UNCHANGED <<id, serial, send>>
    PROVE  Fresh(0) /\ Drawn(0)
<1>1. serial \in Nat /\ IsSeq(send') /\ DOMAIN send' = {}
    BY SmallSeqs DEF SftpInv, TypeOK
<1> QED
    BY <1>1 DEF Fresh, Drawn

LEMMA AskFresh ==
    ASSUME SftpInv, send = <<>>, NEW op \in Op, NEW arg, Ask(op, arg),
           ArgsRight(Request(1, op, arg))
    PROVE  Fresh(1) /\ Drawn(1) /\ OfSend' = {Ticket(Request(1, op, arg))}
<1> DEFINE r == Request(1, op, arg)
<1>1. /\ r.id = NewId(1) /\ r.ser = serial + 1 /\ r.op = op /\ ArgsRight(r)
    BY RequestFields
<1>2. serial \in Nat /\ NewId(1) \in Id
    BY NewIdType DEF SftpInv, TypeOK
<1>3. send' = <<r, Flush>> /\ serial' = serial + 1 /\ id' = (NewId(1) + 1) % IdMod
    BY DEF Ask, Draw
<1> HIDE DEF r
<1>4. IsSeq(send') /\ DOMAIN send' = 1 .. 2 /\ send'[1] = r /\ send'[2] = Flush
    BY <1>3, SmallSeqs
<1>5. Flush.op = "flush" /\ "flush" \notin Op
    BY DEF Flush, Op
<1>6. Fresh(1)
    BY <1>1, <1>2, <1>3, <1>4, <1>5 DEF Fresh
<1>7. Drawn(1)
    BY <1>1, <1>2, <1>3, <1>4, <1>5 DEF Drawn
<1>8. OfSend' = {Ticket(r)}
    <2>1. Asking' = {1}
        BY <1>1, <1>4, <1>5 DEF Asking, Posed
    <2> QED
        BY <2>1, <1>4 DEF OfSend
<1> QED
    BY <1>6, <1>7, <1>8 DEF r

LEMMA CloseFresh ==
    ASSUME SftpInv, send = <<>>, NEW hs, IsSeq(hs), Draw(Len(hs)),
           send' = [i \in DOMAIN hs |-> Request(i, "CLOSE", hs[i])]
    PROVE  Fresh(Len(hs)) /\ Drawn(Len(hs))
<1>1. Len(hs) \in Nat /\ DOMAIN hs = 1 .. Len(hs)
    BY SeqLength
<1>2. serial \in Nat /\ \A k \in Nat : NewId(k) \in Id
    BY NewIdType DEF SftpInv, TypeOK
<1>3. IsSeq(send') /\ DOMAIN send' = 1 .. Len(hs)
    BY <1>1, FunctionIsSeq
<1>4. \A i \in 1 .. Len(hs) :
         /\ send'[i].op = "CLOSE" /\ send'[i].id = NewId(i)
         /\ send'[i].ser = serial + i /\ ArgsRight(send'[i])
    BY <1>1, RequestFields DEF ArgsRight
<1>5. serial' = serial + Len(hs)
      /\ id' = IF Len(hs) = 0 THEN id ELSE (NewId(Len(hs)) + 1) % IdMod
    BY DEF Draw
<1>6. Fresh(Len(hs))
    BY <1>1, <1>2, <1>3, <1>4, <1>5 DEF Fresh, Op
<1>7. Drawn(Len(hs))
    <2>1. \A i \in 1 .. Len(hs) : send'[i].ser - serial = i
        BY <1>1, <1>2, <1>4
    <2> QED
        BY <1>3, <1>4, <1>5, <2>1 DEF Drawn
<1> QED
    BY <1>6, <1>7

LEMMA OneCloseFresh ==
    ASSUME SftpInv, send = <<>>, NEW h, Draw(1), send' = <<Request(1, "CLOSE", h)>>
    PROVE  Fresh(1) /\ Drawn(1)
<1> DEFINE r == Request(1, "CLOSE", h)
<1>1. r.id = NewId(1) /\ r.ser = serial + 1 /\ r.op = "CLOSE" /\ ArgsRight(r)
    BY RequestFields DEF ArgsRight
<1>2. serial \in Nat /\ NewId(1) \in Id
    BY NewIdType DEF SftpInv, TypeOK
<1>3. send' = <<r>> /\ serial' = serial + 1 /\ id' = (NewId(1) + 1) % IdMod
    BY DEF Draw
<1> HIDE DEF r
<1>4. IsSeq(send') /\ DOMAIN send' = {1} /\ send'[1] = r
    BY <1>3, SmallSeqs
<1> QED
    BY <1>1, <1>2, <1>3, <1>4 DEF Fresh, Drawn, Op

LEMMA TypeFresh ==
    ASSUME SftpInv, send = <<>>, NEW p \in Path, Draw(3),
           NEW a, a = Request(1, "OPEN", <<p, "ReadOnly">>),
           NEW b, b = Request(2, "OPENDIR", p),
           NEW c, c = Request(3, "READLINK", p),
           send' = <<a, b, c, Flush>>
    PROVE  Fresh(3) /\ Drawn(3)
           /\ Ticket(a) \in OfSend' /\ Ticket(b) \in OfSend' /\ Ticket(c) \in OfSend'
<1>1. /\ a.id = NewId(1) /\ a.ser = serial + 1 /\ a.op = "OPEN" /\ ArgsRight(a)
      /\ b.id = NewId(2) /\ b.ser = serial + 2 /\ b.op = "OPENDIR" /\ ArgsRight(b)
      /\ c.id = NewId(3) /\ c.ser = serial + 3 /\ c.op = "READLINK" /\ ArgsRight(c)
    BY RequestFields DEF ArgsRight
<1>2. serial \in Nat /\ NewId(1) \in Id /\ NewId(2) \in Id /\ NewId(3) \in Id
    BY NewIdType DEF SftpInv, TypeOK
<1>3. serial' = serial + 3 /\ id' = (NewId(3) + 1) % IdMod
    BY DEF Draw
<1>4. /\ IsSeq(send') /\ DOMAIN send' = 1 .. 4
      /\ send'[1] = a /\ send'[2] = b /\ send'[3] = c /\ send'[4] = Flush
    BY SmallSeqs
<1>5. Flush.op = "flush"
    BY DEF Flush
<1>6. \A i \in DOMAIN send' : i = 1 \/ i = 2 \/ i = 3 \/ i = 4
    BY <1>4
<1>7. Fresh(3)
    BY <1>1, <1>2, <1>3, <1>4, <1>5, <1>6 DEF Fresh, Op
<1>8. Drawn(3)
    BY <1>1, <1>2, <1>3, <1>4, <1>5, <1>6 DEF Drawn
<1>9. 1 \in Asking' /\ 2 \in Asking' /\ 3 \in Asking'
    BY <1>1, <1>4 DEF Asking, Posed
<1> QED
    BY <1>4, <1>7, <1>8, <1>9 DEF OfSend

LEMMA ReadFresh ==
    ASSUME SftpInv, send = <<>>, NEW k \in Nat, NEW space, Draw(k),
           send' = [j \in 1 .. 2 * k |-> IF j % 2 = 1 THEN ReadAhead((j + 1) \div 2, space)
                                                    ELSE Flush]
    PROVE  Fresh(k) /\ Drawn(k)
           /\ \A i \in 1 .. k : Ticket(ReadAhead(i, space)) \in OfSend'
<1>1. serial \in Nat /\ \A n \in Nat : NewId(n) \in Id
    BY NewIdType DEF SftpInv, TypeOK
<1>2. serial' = serial + k /\ id' = IF k = 0 THEN id ELSE (NewId(k) + 1) % IdMod
    BY DEF Draw
<1>3. IsSeq(send') /\ DOMAIN send' = 1 .. 2 * k
    <2>1. 2 * k \in Nat
        OBVIOUS
    <2> QED
        BY <2>1, FunctionIsSeq
<1>4. \A i : LET r == ReadAhead(i, space) IN
             r.id = NewId(i) /\ r.ser = serial + i /\ r.op = "READ" /\ ArgsRight(r)
    BY RequestFields DEF ReadAhead, ArgsRight
<1>5. Flush.op = "flush" /\ "flush" # "READ"
    BY DEF Flush
<1>6. ASSUME NEW j \in DOMAIN send', send'[j].op # "flush"
      PROVE  \E i \in 1 .. k : j = 2 * i - 1 /\ send'[j] = ReadAhead(i, space)
    <2>1. send'[j] = IF j % 2 = 1 THEN ReadAhead((j + 1) \div 2, space) ELSE Flush
        BY <1>3
    <2>2. j % 2 = 1 /\ send'[j] = ReadAhead((j + 1) \div 2, space)
        BY <2>1, <1>5, <1>6
    <2>3. (j + 1) \div 2 \in 1 .. k /\ j = 2 * ((j + 1) \div 2) - 1
        BY <1>3, <2>2
    <2> QED
        BY <2>2, <2>3
<1>7. ASSUME NEW i \in 1 .. k
      PROVE  2 * i - 1 \in DOMAIN send' /\ send'[2 * i - 1] = ReadAhead(i, space)
    <2>1. 2 * i - 1 \in 1 .. 2 * k /\ (2 * i - 1) % 2 = 1 /\ ((2 * i - 1) + 1) \div 2 = i
        OBVIOUS
    <2> QED
        BY <2>1, <1>3
<1> HIDE DEF ReadAhead
<1>8. Fresh(k)
    <2>1. \A j \in DOMAIN send' : send'[j].op # "flush" =>
             /\ send'[j].op \in Op /\ send'[j].id \in Id
             /\ send'[j].ser \in serial + 1 .. serial + k
             /\ ArgsRight(send'[j])
        BY <1>1, <1>4, <1>6, SMTT(60) DEF Op
    <2>2. \A i, j \in DOMAIN send' :
             (send'[i].op # "flush" /\ send'[j].op # "flush" /\ send'[i].ser = send'[j].ser)
                => i = j
        <3> SUFFICES ASSUME NEW i \in DOMAIN send', NEW j \in DOMAIN send',
                            send'[i].op # "flush", send'[j].op # "flush",
                            send'[i].ser = send'[j].ser
                     PROVE  i = j
            OBVIOUS
        <3>1. PICK a \in 1 .. k : i = 2 * a - 1 /\ send'[i] = ReadAhead(a, space)
            BY <1>6
        <3>2. PICK b \in 1 .. k : j = 2 * b - 1 /\ send'[j] = ReadAhead(b, space)
            BY <1>6
        <3>3. a = b
            BY <3>1, <3>2, <1>1, <1>4
        <3> QED
            BY <3>1, <3>2, <3>3
    <2> QED
        BY <1>2, <1>3, <2>1, <2>2 DEF Fresh
<1>9. Drawn(k)
    <2>1. ASSUME NEW j \in DOMAIN send', send'[j].op # "flush"
          PROVE  send'[j].id = NewId(send'[j].ser - serial)
        <3>1. PICK i \in 1 .. k : send'[j] = ReadAhead(i, space)
            BY <1>6, <2>1
        <3>2. send'[j].ser - serial = i /\ send'[j].id = NewId(i)
            BY <3>1, <1>1, <1>4
        <3> QED
            BY <3>2
    <2> QED
        BY <1>2, <2>1 DEF Drawn
<1>10. ASSUME NEW i \in 1 .. k
       PROVE  Ticket(ReadAhead(i, space)) \in OfSend'
    <2>1. send'[2 * i - 1].op = "READ"
        BY <1>4, <1>7
    <2> QED
        BY <2>1, <1>7 DEF OfSend, Asking, Posed
<1> QED
    BY <1>8, <1>9, <1>10

----------------------------------------------------------------------------
(***************************************************************************)
(* The steps of the calls, one by one.                                     *)
(***************************************************************************)
CacheTypes ==
    /\ IsSeq(inflight)
    /\ \A i \in DOMAIN inflight : inflight[i].ticket \in Tickets /\ inflight[i].path \in Path
    /\ DOMAIN existence \subseteq Path /\ \A p \in DOMAIN existence : existence[p] \in BOOLEAN

FileTypes ==
    file # NoFile =>
        file.queue \in Seq(Tickets) /\ file.offset \in Nat /\ DOMAIN file = FileFields

CallTypes ==
    /\ wait \in Seq(Tickets) /\ IsSeq(got)
    /\ posix_rename \in BOOLEAN /\ alive \in BOOLEAN /\ calls \in 0 .. MaxCalls

LocalTypes == CacheTypes /\ FileTypes /\ CallTypes /\ Progress

\* contents() awaits the reply to its only request, which has the id it keeps.
AsksList ==
    /\ call'.op = "contents" /\ got' = <<>> /\ UNCHANGED Kept
    /\ \E t : t.id = call'.more.id /\ wait' = <<t>> /\ OfSend' = {t}

\* A new round of n requests: nothing else is awaited than they, and what was
\* awaited before.
Asks(n) ==
    /\ Fresh(n)
    /\ \/ Drawn(n) /\ call'.op # "contents"
       \/ n = 1 /\ Drawn(1) /\ AsksList
       \/ /\ n = 1 /\ id' = id /\ AsksList
          /\ call.op = "contents" /\ got # <<>> /\ call'.more.id = call.more.id
    /\ Expected' \subseteq Expected \cup OfSend'
    /\ got' \in {got, <<>>}

\* Replies may be let go, but only by ignoring their ids.
Lets ==
    /\ DOMAIN replies' \subseteq DOMAIN replies
    /\ \A i \in DOMAIN replies' : replies'[i] = replies[i]
    /\ ignored' \subseteq Id

ServerAlone == UNCHANGED <<up, req, rep, tree, changes, faults, outbuf>>

Handled == (\E n \in Nat : Asks(n)) /\ Lets /\ ServerAlone /\ LocalTypes'

LEMMA LocalTypesNow ==
    ASSUME SftpInv
    PROVE  LocalTypes /\ serial \in Nat /\ (UNCHANGED <<replies, ignored>> => Lets)
BY DEF SftpInv, TypeOK, Shape, LocalTypes, CacheTypes, FileTypes, CallTypes, Lets

LEMMA OpsDiffer ==
    Idle.op = "none" /\ "none" \in Silent
BY DEF Idle, Silent

\* When a call begins nothing is awaited.
LEMMA BeginDone ==
    ASSUME SftpInv, NEW op, NEW p, NEW more, Begin(op, p, more), op # "none", op # "return"
    PROVE  /\ call = Idle /\ send = <<>> /\ wait = <<>> /\ got = <<>> /\ got' = <<>>
           /\ call' = [op |-> op, path |-> p, more |-> more]
           /\ calls' \in 0 .. MaxCalls /\ alive' = alive
           /\ ServerAlone
<1>1. call = Idle /\ call.op = "none" /\ call.op \in Silent
    BY OpsDiffer DEF Begin
<1>2. send = <<>> /\ wait = <<>> /\ got = <<>>
    BY <1>1 DEF SftpInv, Progress
<1>3. calls' \in 0 .. MaxCalls
    BY ClientAssumption DEF Begin, SftpInv, TypeOK
<1> QED
    BY <1>1, <1>2, <1>3 DEF Begin, ServerAlone

\* When a call ends nothing is awaited either.
LEMMA LeaveDone ==
    ASSUME SftpInv, Finished, NEW status, NEW val, NEW hs, IsSeq(hs), Leave(status, val, hs)
    PROVE  /\ Fresh(Len(hs)) /\ Drawn(Len(hs)) /\ Progress' /\ call'.op # "contents"
           /\ wait' = <<>> /\ wait = <<>> /\ got' = <<>> /\ send = <<>>
           /\ UNCHANGED <<alive, calls>> /\ ServerAlone
<1>1. Fresh(Len(hs)) /\ Drawn(Len(hs))
    BY CloseFresh DEF Finished, Leave
<1>2. send = <<>> /\ wait = <<>> /\ wait' = <<>> /\ got' = <<>>
    BY DEF Finished, Leave
<1>3. call' = Idle \/ call' = [op |-> "return"]
    BY DEF Leave
<1>4. ASSUME call' = Idle PROVE send' = <<>>
    <2>1. hs = <<>>
        BY <1>4 DEF Leave, Idle
    <2>2. send' = [i \in {} |-> Request(i, "CLOSE", hs[i])]
        BY <2>1, SmallSeqs DEF Leave
    <2>3. IsSeq(send')
        BY <1>1 DEF Fresh
    <2> QED
        BY <2>2, <2>3, SeqLength
<1>5. call'.op \in {"none", "return"} /\ (call'.op = "none" => call' = Idle)
    BY <1>3 DEF Idle
<1>6. Progress'
    BY <1>2, <1>4, <1>5 DEF Progress, Silent
<1> QED
    BY <1>1, <1>2, <1>5, <1>6 DEF Leave, ServerAlone, svars

\* What is awaited is what was awaited, but for what was asked just now.
LEMMA ExpectedNow ==
    ASSUME UNCHANGED Kept, ToSet(wait') \subseteq Expected \cup OfSend'
    PROVE  Expected' \subseteq Expected \cup OfSend'
BY DEF Expected

LEMMA KeptNow ==
    ASSUME UNCHANGED <<inflight, file>>
    PROVE  UNCHANGED Kept
BY DEF Kept

\* RPC() awaits the reply to the request it makes.
LEMMA RPCDone ==
    ASSUME SftpInv, send = <<>>, NEW op \in Op, NEW arg, RPC(op, arg),
           ArgsRight(Request(1, op, arg))
    PROVE  /\ Fresh(1) /\ Drawn(1) /\ wait' \in Seq(Tickets) /\ ToSet(wait') \subseteq OfSend'
           /\ \E t : t.id = NewId(1) /\ wait' = <<t>> /\ OfSend' = {t}
<1> DEFINE t == Ticket(Request(1, op, arg))
<1>1. Fresh(1) /\ Drawn(1) /\ OfSend' = {t}
    BY AskFresh DEF RPC
<1>2. t = [id |-> NewId(1), ser |-> serial + 1] /\ wait' = <<t>>
    BY RequestFields DEF RPC
<1>3. t \in Tickets
    <2>1. NewId(1) \in Id /\ serial + 1 \in Nat
        BY NewIdType DEF SftpInv, TypeOK
    <2> QED
        BY <1>2, <2>1 DEF Tickets
<1>4. t.id = NewId(1)
    BY <1>2
<1> HIDE DEF t
<1>5. wait' \in Seq(Tickets) /\ ToSet(wait') \subseteq {t}
    BY <1>2, <1>3 DEF ToSet
<1> QED
    BY <1>1, <1>2, <1>4, <1>5

LEMMA EmptyTypes ==
    <<>> \in Seq(Tickets) /\ ToSet(<<>>) = {} /\ IsSeq(<<>>)
BY EmptySeq, SmallSeqs DEF ToSet

\* A call that begins by asking one thing, and leaves files and cache alone.
LEMMA BeginAsks ==
    ASSUME SftpInv, NEW op, NEW p, NEW more, Begin(op, p, more),
           op \notin Silent \cup {"contents"}, NEW rop \in Op, NEW arg, RPC(rop, arg),
           ArgsRight(Request(1, rop, arg)),
           UNCHANGED <<replies, ignored, cache, posix_rename>>, FileTypes', Kept' = Kept,
           Progress'
    PROVE  Handled
<1>1. op # "none" /\ op # "return"
    BY DEF Silent
<1>2. /\ call = Idle /\ send = <<>> /\ wait = <<>> /\ got = <<>> /\ got' = <<>>
      /\ call'.op = op /\ calls' \in 0 .. MaxCalls /\ alive' = alive /\ ServerAlone
    BY <1>1, BeginDone
<1>3. /\ Fresh(1) /\ Drawn(1)
      /\ wait' \in Seq(Tickets) /\ ToSet(wait') \subseteq OfSend'
    BY <1>2, RPCDone
<1>4. Lets /\ LocalTypes
    BY LocalTypesNow
<1>5. CacheTypes'
    BY <1>4 DEF LocalTypes, CacheTypes, cache
<1>6. CallTypes'
    BY <1>2, <1>3, <1>4, EmptyTypes DEF LocalTypes, CallTypes
<1>7. Expected' \subseteq Expected \cup OfSend'
    BY <1>3, ExpectedNow
<1>8. Asks(1)
    BY <1>2, <1>3, <1>7 DEF Asks
<1> QED
    BY <1>2, <1>4, <1>5, <1>6, <1>8 DEF Handled, LocalTypes

\* A call that ends leaves types right if the cache and the file stay so.
LEMMA LeaveHandled ==
    ASSUME SftpInv, Finished, NEW status, NEW val, NEW hs, IsSeq(hs), Leave(status, val, hs),
           Lets, CacheTypes', FileTypes', posix_rename' = posix_rename,
           Kept' \subseteq Kept
    PROVE  Handled
<1>1. /\ Fresh(Len(hs)) /\ Drawn(Len(hs)) /\ Progress' /\ call'.op # "contents"
      /\ wait' = <<>> /\ wait = <<>> /\ got' = <<>> /\ send = <<>>
      /\ UNCHANGED <<alive, calls>> /\ ServerAlone
    BY LeaveDone
<1>2. LocalTypes /\ Len(hs) \in Nat
    BY LocalTypesNow, SeqLength
<1>3. CallTypes'
    BY <1>1, <1>2, EmptyTypes DEF LocalTypes, CallTypes
<1>4. Expected' \subseteq Expected \cup OfSend'
    BY <1>1, EmptyTypes DEF Expected
<1>5. Asks(Len(hs))
    BY <1>1, <1>4 DEF Asks
<1> QED
    BY <1>1, <1>2, <1>3, <1>5 DEF Handled, LocalTypes

\* mkdir, remove, rename and open begin with one request about names.
LEMMA NameCallsHandled ==
    ASSUME SftpInv, NEW p \in Path, NEW q \in Path, NEW mode,
           MkdirCall(p) \/ RemoveCall(p) \/ RenameCall(p, q) \/ OpenCall(p, mode)
    PROVE  Handled
<1>0. LocalTypes
    BY LocalTypesNow
<1>1. FileTypes' /\ Kept' = Kept /\ UNCHANGED <<replies, ignored, cache, posix_rename>>
    BY <1>0, KeptNow DEF MkdirCall, RemoveCall, RenameCall, OpenCall, LocalTypes, FileTypes,
                         cache
<1>2. CASE MkdirCall(p)
    <2>1. call' = [op |-> "mkdir", path |-> p, more |-> ""]
        BY <1>2, BeginDone DEF MkdirCall
    <2>2. Progress'
        BY <2>1 DEF Progress, Silent, Idle
    <2>3. ArgsRight(Request(1, "MKDIR", p))
        BY RequestFields DEF ArgsRight
    <2> QED
        BY <1>1, <1>2, <2>2, <2>3, BeginAsks DEF MkdirCall, Silent, Op
<1>3. CASE RemoveCall(p)
    <2>1. call' = [op |-> "remove", path |-> p, more |-> ""]
        BY <1>3, BeginDone DEF RemoveCall
    <2>2. Progress'
        BY <2>1 DEF Progress, Silent, Idle
    <2>3. ArgsRight(Request(1, "REMOVE", p))
        BY RequestFields DEF ArgsRight
    <2> QED
        BY <1>1, <1>3, <2>2, <2>3, BeginAsks DEF RemoveCall, Silent, Op
<1>4. CASE RenameCall(p, q)
    <2>1. call' = [op |-> "rename", path |-> p, more |-> q]
        BY <1>4, BeginDone DEF RenameCall
    <2>2. Progress'
        BY <2>1 DEF Progress, Silent, Idle
    <2>3. RenameOp \in Op /\ ArgsRight(Request(1, RenameOp, <<p, q>>))
        BY RequestFields DEF ArgsRight, RenameOp, Op
    <2> QED
        BY <1>1, <1>4, <2>2, <2>3, BeginAsks DEF RenameCall, Silent
<1>5. CASE OpenCall(p, mode)
    <2>1. call' = [op |-> "open", path |-> p, more |-> mode]
        BY <1>5, BeginDone DEF OpenCall
    <2>2. Progress'
        BY <2>1 DEF Progress, Silent, Idle
    <2>3. ArgsRight(Request(1, "OPEN", <<p, mode>>))
        BY RequestFields DEF ArgsRight
    <2> QED
        BY <1>1, <1>5, <2>2, <2>3, BeginAsks DEF OpenCall, Silent, Op
<1> QED
    BY <1>2, <1>3, <1>4, <1>5

\* A call goes on with a second request: RENAME for an old server, RMDIR.
LEMMA SecondRequestHandled ==
    ASSUME SftpInv, RenameFallback \/ RemoveDir
    PROVE  Handled
<1>0. LocalTypes
    BY LocalTypesNow
<1>1. /\ Finished /\ send = <<>> /\ UNCHANGED <<replies, ignored, cache, file, alive, calls>>
      /\ got' = <<>> /\ posix_rename' \in BOOLEAN /\ ServerAlone
    BY <1>0 DEF RenameFallback, RemoveDir, Replied, Finished, Again, LocalTypes, CallTypes,
                ServerAlone, svars
<1>2. /\ Fresh(1) /\ Drawn(1) /\ wait' \in Seq(Tickets) /\ ToSet(wait') \subseteq OfSend'
      /\ call'.op # "contents" /\ Progress'
    <2>1. CASE RenameFallback
        <3>1. /\ call.op = "rename" /\ RPC("RENAME", <<call.path, call.more>>) /\ call' = call
              /\ call.path \in Path /\ call.more \in Path
            BY <2>1, <1>0 DEF RenameFallback, Again, Replied, LocalTypes, Progress
        <3>2. ArgsRight(Request(1, "RENAME", <<call.path, call.more>>))
            BY <3>1, RequestFields DEF ArgsRight
        <3>3. Progress'
            BY <3>1, <1>0 DEF Progress, LocalTypes, Silent, Idle
        <3> QED
            BY <1>1, <3>1, <3>2, <3>3, RPCDone DEF Op
    <2>2. CASE RemoveDir
        <3>1. /\ call.op = "remove" /\ RPC("RMDIR", call.path)
              /\ call' = [call EXCEPT !.op = "rmdir"] /\ call.path \in Path
              /\ DOMAIN call = {"op", "path", "more"}
            BY <2>2, <1>0 DEF RemoveDir, Again, Replied, LocalTypes, Progress
        <3>2. ArgsRight(Request(1, "RMDIR", call.path))
            BY <3>1, RequestFields DEF ArgsRight
        <3>3. call'.op = "rmdir" /\ call'.path = call.path
              /\ DOMAIN call' = {"op", "path", "more"}
            BY <3>1
        <3>4. Progress'
            BY <3>1, <3>3 DEF Progress, Silent, Idle
        <3> QED
            BY <1>1, <3>1, <3>2, <3>3, <3>4, RPCDone DEF Op
    <2> QED
        BY <2>1, <2>2 DEF RenameFallback, RemoveDir
<1>3. CacheTypes' /\ FileTypes' /\ CallTypes'
    BY <1>0, <1>1, <1>2, EmptyTypes DEF LocalTypes, CacheTypes, FileTypes, CallTypes, cache
<1>4. Lets
    BY <1>1, LocalTypesNow
<1>5. Expected' \subseteq Expected \cup OfSend'
    BY <1>1, <1>2, KeptNow, ExpectedNow DEF cache
<1>6. Asks(1)
    BY <1>1, <1>2, <1>5 DEF Asks
<1> QED
    BY <1>1, <1>2, <1>3, <1>4, <1>6 DEF Handled, LocalTypes

\* The status is the outcome of the call.
LEMMA StatusHandled ==
    ASSUME SftpInv, StatusReply
    PROVE  Handled
<1>1. LocalTypes /\ UNCHANGED <<replies, ignored, cache, posix_rename, file>> /\ Lets
    BY LocalTypesNow DEF StatusReply
<1>2. CacheTypes' /\ FileTypes' /\ Kept' = Kept
    BY <1>1, KeptNow DEF LocalTypes, CacheTypes, FileTypes, cache
<1>3. Finished /\ Leave(Outcome, "", <<>>)
    BY DEF StatusReply, Replied
<1> QED
    BY <1>1, <1>2, <1>3, SmallSeqs, LeaveHandled

----------------------------------------------------------------------------
(***************************************************************************)
(* prefigure_exists and exists.                                            *)
(***************************************************************************)
LEMMA PrefigureHandled ==
    ASSUME SftpInv, NEW p \in Path, PrefigureCall(p)
    PROVE  Handled
<1> DEFINE t == Ticket(Request(1, "STAT", p))
           e == [ticket |-> t, path |-> p]
<1>0. LocalTypes /\ Lets
    BY LocalTypesNow DEF PrefigureCall
<1>1. /\ send = <<>> /\ wait = <<>> /\ got = <<>> /\ got' = <<>> /\ wait' = <<>>
      /\ call' = [op |-> "prefigure", path |-> p, more |-> ""]
      /\ calls' \in 0 .. MaxCalls /\ alive' = alive /\ ServerAlone
    BY BeginDone DEF PrefigureCall
<1>2. ArgsRight(Request(1, "STAT", p))
    BY RequestFields DEF ArgsRight
<1>3. Fresh(1) /\ Drawn(1) /\ OfSend' = {t}
    BY <1>1, <1>2, AskFresh DEF PrefigureCall, Op
<1>4. t \in Tickets
    <2>1. NewId(1) \in Id /\ serial + 1 \in Nat
        BY NewIdType DEF SftpInv, TypeOK
    <2> QED
        BY <2>1, RequestFields DEF Tickets
<1> HIDE DEF t
<1>5. e.ticket = t /\ e.path = p
    OBVIOUS
<1>6. inflight' = Append(inflight, e) /\ existence' = existence
    BY DEF PrefigureCall, t
<1> HIDE DEF e
<1>7. /\ IsSeq(inflight')
      /\ \A i \in DOMAIN inflight' : inflight'[i] = e \/ (i \in DOMAIN inflight /\ inflight'[i] = inflight[i])
    <2>1. IsSeq(inflight)
        BY <1>0 DEF LocalTypes, CacheTypes
    <2> QED
        BY <2>1, <1>6, AppendSeq
<1>8. CacheTypes' /\ FileTypes' /\ CallTypes'
    <2>1. CacheTypes'
        BY <1>0, <1>4, <1>5, <1>6, <1>7 DEF LocalTypes, CacheTypes
    <2> QED
        BY <2>1, <1>0, <1>1, EmptyTypes DEF LocalTypes, FileTypes, CallTypes, PrefigureCall
<1>9. Expected' \subseteq Expected \cup OfSend'
    <2>1. \A i \in DOMAIN inflight' :
             inflight'[i].ticket = t \/ \E j \in DOMAIN inflight : inflight'[i].ticket = inflight[j].ticket
        BY <1>5, <1>7
    <2>2. {inflight'[i].ticket : i \in DOMAIN inflight'}
             \subseteq {inflight[i].ticket : i \in DOMAIN inflight} \cup {t}
        BY <2>1
    <2>3. file' = file /\ ToSet(wait') = {}
        BY <1>1, EmptyTypes DEF PrefigureCall
    <2> QED
        BY <2>2, <2>3, <1>3 DEF Expected, Kept
<1>10. Progress'
    BY <1>1 DEF Progress, Silent, Idle
<1>11. Asks(1)
    BY <1>1, <1>3, <1>9 DEF Asks
<1> QED
    BY <1>0, <1>1, <1>8, <1>10, <1>11 DEF Handled, LocalTypes

LEMMA ExistsCallHandled ==
    ASSUME SftpInv, NEW p \in Path, ExistsCall(p)
    PROVE  Handled
<1>0. LocalTypes /\ Lets
    BY LocalTypesNow DEF ExistsCall, link
<1>1. /\ send = <<>> /\ wait = <<>> /\ got = <<>> /\ got' = <<>> /\ wait' = <<>>
      /\ call' = [op |-> "exists", path |-> p, more |-> ""]
      /\ calls' \in 0 .. MaxCalls /\ alive' = alive /\ ServerAlone
    BY BeginDone DEF ExistsCall
<1>2. UNCHANGED <<id, serial, send>>
    BY DEF ExistsCall, link
<1>3. Fresh(0) /\ Drawn(0)
    BY <1>1, <1>2, NothingFresh
<1>4. CacheTypes' /\ FileTypes' /\ CallTypes' /\ Progress'
    BY <1>0, <1>1, EmptyTypes DEF LocalTypes, CacheTypes, FileTypes, CallTypes, ExistsCall,
                                  Progress, Silent, Idle
<1>5. Expected' \subseteq Expected \cup OfSend'
    BY <1>1, EmptyTypes, ExpectedNow, KeptNow DEF ExistsCall
<1>6. Asks(0)
    BY <1>1, <1>3, <1>5 DEF Asks
<1> QED
    BY <1>0, <1>1, <1>4, <1>6 DEF Handled, LocalTypes

LEMMA ExistsReapHandled ==
    ASSUME SftpInv, ExistsReap
    PROVE  Handled
<1>0. LocalTypes /\ Lets
    BY LocalTypesNow DEF ExistsReap, link
<1>1. /\ send = <<>> /\ wait = <<>> /\ got = <<>> /\ UNCHANGED <<got, call, alive, calls>>
      /\ call.op = "exists" /\ ServerAlone /\ UNCHANGED <<id, serial, send>>
    BY DEF ExistsReap, Finished, ServerAlone, svars, link
<1>2. Fresh(0) /\ Drawn(0)
    BY <1>1, NothingFresh
<1>3. PICK t : t = inflight[1].ticket /\ 1 \in DOMAIN inflight /\ wait' = <<t>>
    BY <1>0, TailSeq DEF ExistsReap, LocalTypes, CacheTypes
<1>4. t \in Kept /\ t \in Tickets
    BY <1>0, <1>3 DEF Kept, LocalTypes, CacheTypes
<1>5. wait' \in Seq(Tickets) /\ ToSet(wait') \subseteq {t}
    BY <1>3, <1>4 DEF ToSet
<1>6. CacheTypes' /\ FileTypes' /\ CallTypes' /\ Progress'
    BY <1>0, <1>1, <1>5 DEF LocalTypes, CacheTypes, FileTypes, CallTypes, ExistsReap, cache,
                            Progress, Silent, Idle
<1>7. Expected' \subseteq Expected \cup OfSend'
    <2>1. Kept' = Kept
        BY KeptNow DEF ExistsReap, cache
    <2>2. ToSet(wait') \subseteq Expected
        BY <1>4, <1>5 DEF Expected
    <2> QED
        BY <2>1, <2>2, ExpectedNow
<1>8. Asks(0)
    BY <1>1, <1>2, <1>7 DEF Asks
<1> QED
    BY <1>0, <1>1, <1>6, <1>8 DEF Handled, LocalTypes

LEMMA ExistsStoreHandled ==
    ASSUME SftpInv, ExistsStore
    PROVE  Handled
<1>0. LocalTypes /\ Lets
    BY LocalTypesNow DEF ExistsStore, link
<1>1. /\ send = <<>> /\ wait = <<>> /\ got # <<>> /\ got' = <<>>
      /\ call.op = "exists" /\ ServerAlone /\ UNCHANGED <<id, serial, send, wait, call, alive, calls>>
    BY DEF ExistsStore, Replied, Finished, ServerAlone, svars, link
<1>2. Fresh(0) /\ Drawn(0)
    BY <1>1, NothingFresh
<1>3. inflight # <<>> /\ IsSeq(inflight)
    BY <1>0, <1>1 DEF LocalTypes, CacheTypes, Progress
<1>4. /\ IsSeq(inflight') /\ 1 \in DOMAIN inflight /\ Head(inflight) = inflight[1]
      /\ \A i \in DOMAIN inflight' : i + 1 \in DOMAIN inflight /\ inflight'[i] = inflight[i + 1]
    BY <1>3, TailSeq DEF ExistsStore
<1>5. CacheTypes'
    <2>1. PICK v \in BOOLEAN : v = (Answer(1).type = "ATTRS")
        OBVIOUS
    <2>2. existence' = Put(existence, inflight[1].path, v) /\ inflight[1].path \in Path
        BY <1>0, <1>4, <2>1 DEF ExistsStore, LocalTypes, CacheTypes
    <2>3. DOMAIN existence' \subseteq Path /\ \A p \in DOMAIN existence' : existence'[p] \in BOOLEAN
        BY <1>0, <2>2 DEF Put, LocalTypes, CacheTypes
    <2> QED
        BY <1>0, <1>4, <2>3 DEF LocalTypes, CacheTypes
<1>6. FileTypes' /\ CallTypes' /\ Progress'
    BY <1>0, <1>1, EmptyTypes DEF LocalTypes, FileTypes, CallTypes, ExistsStore,
                            Progress, Silent, Idle
<1>7. Expected' \subseteq Expected \cup OfSend'
    <2>1. Kept' \subseteq Kept
        <3>1. {inflight'[i].ticket : i \in DOMAIN inflight'}
                 \subseteq {inflight[i].ticket : i \in DOMAIN inflight}
            BY <1>4
        <3> QED
            BY <3>1 DEF Kept, ExistsStore
    <2> QED
        BY <1>1, <2>1 DEF Expected
<1>8. Asks(0)
    BY <1>1, <1>2, <1>7 DEF Asks
<1> QED
    BY <1>0, <1>1, <1>5, <1>6, <1>8 DEF Handled, LocalTypes

LEMMA ExistsAnswerHandled ==
    ASSUME SftpInv, ExistsAnswer
    PROVE  Handled
<1>0. LocalTypes /\ Lets
    BY LocalTypesNow DEF ExistsAnswer
<1>1. DOMAIN existence' \subseteq DOMAIN existence
      /\ \A p \in DOMAIN existence' : existence'[p] = existence[p]
    BY DEF ExistsAnswer, Forget, RestrictDomain, Restrict
<1>2. CacheTypes' /\ FileTypes' /\ Kept' = Kept
    BY <1>0, <1>1, KeptNow DEF ExistsAnswer, LocalTypes, CacheTypes, FileTypes
<1>3. Finished /\ Leave("OK", existence[call.path], <<>>) /\ posix_rename' = posix_rename
    BY DEF ExistsAnswer, ExistsLookup
<1> QED
    BY <1>0, <1>2, <1>3, SmallSeqs, LeaveHandled

LEMMA ExistsUncachedHandled ==
    ASSUME SftpInv, ExistsUncached
    PROVE  Handled
<1> DEFINE t == Ticket(Request(1, "STAT", call.path))
           e == [ticket |-> t, path |-> call.path]
<1>0. LocalTypes /\ Lets
    BY LocalTypesNow DEF ExistsUncached
<1>1. /\ send = <<>> /\ wait = <<>> /\ got = <<>> /\ UNCHANGED <<wait, got, call, alive, calls>>
      /\ call.op = "exists" /\ ServerAlone
    BY DEF ExistsUncached, ExistsLookup, Finished, ServerAlone, svars
<1>2. ArgsRight(Request(1, "STAT", call.path))
    BY RequestFields DEF ArgsRight
<1>3. Fresh(1) /\ Drawn(1) /\ OfSend' = {t}
    BY <1>1, <1>2, AskFresh DEF ExistsUncached, Op
<1>4. t \in Tickets /\ call.path \in Path
    <2>1. NewId(1) \in Id /\ serial + 1 \in Nat
        BY NewIdType DEF SftpInv, TypeOK
    <2> QED
        BY <1>0, <1>1, <2>1, RequestFields DEF Tickets, LocalTypes, Progress
<1> HIDE DEF t
<1>5. e.ticket = t /\ e.path = call.path
    OBVIOUS
<1>6. inflight' = <<e>>
    BY DEF ExistsUncached, t
<1> HIDE DEF e
<1>7. IsSeq(inflight') /\ DOMAIN inflight' = {1} /\ inflight'[1] = e
    BY <1>6, SmallSeqs
<1>8. CacheTypes' /\ FileTypes' /\ CallTypes' /\ Progress'
    <2>1. CacheTypes'
        BY <1>0, <1>4, <1>5, <1>7 DEF LocalTypes, CacheTypes, ExistsUncached
    <2> QED
        BY <2>1, <1>0, <1>1, <1>7, EmptyTypes DEF LocalTypes, FileTypes, CallTypes,
             ExistsUncached, Progress, Silent, Idle
<1>9. Expected' \subseteq Expected \cup OfSend'
    <2>1. {inflight'[i].ticket : i \in DOMAIN inflight'} = {t}
        BY <1>5, <1>7
    <2>2. file' = file /\ ToSet(wait') = {}
        BY <1>1, EmptyTypes DEF ExistsUncached
    <2> QED
        BY <2>1, <2>2, <1>3 DEF Expected, Kept
<1>10. Asks(1)
    BY <1>1, <1>3, <1>9 DEF Asks
<1> QED
    BY <1>0, <1>1, <1>8, <1>10 DEF Handled, LocalTypes

----------------------------------------------------------------------------
(***************************************************************************)
(* contents and type.                                                      *)
(***************************************************************************)
LEMMA ContentsCallHandled ==
    ASSUME SftpInv, NEW d, ContentsCall(d)
    PROVE  Handled
<1> DEFINE m == [id |-> NewId(1), handle |-> 0, names |-> {}]
<1>0. LocalTypes /\ Lets
    BY LocalTypesNow DEF ContentsCall
<1>1. /\ send = <<>> /\ wait = <<>> /\ got = <<>> /\ got' = <<>>
      /\ call' = [op |-> "contents", path |-> d, more |-> m]
      /\ calls' \in 0 .. MaxCalls /\ alive' = alive /\ ServerAlone
    BY BeginDone DEF ContentsCall
<1>2. ArgsRight(Request(1, "OPENDIR", d))
    BY RequestFields DEF ArgsRight
<1>3. /\ Fresh(1) /\ Drawn(1) /\ wait' \in Seq(Tickets) /\ ToSet(wait') \subseteq OfSend'
      /\ \E t : t.id = NewId(1) /\ wait' = <<t>> /\ OfSend' = {t}
    BY <1>1, <1>2, RPCDone DEF ContentsCall, Op
<1>4. m.id = NewId(1) /\ DOMAIN m = {"id", "handle", "names"} /\ NewId(1) \in Id
    BY NewIdType DEF SftpInv, TypeOK
<1> HIDE DEF m
<1>5. call'.op = "contents" /\ call'.more = m /\ DOMAIN call' = {"op", "path", "more"}
    BY <1>1
<1>6. Progress'
    BY <1>4, <1>5 DEF Progress, Silent, Idle
<1>7. CacheTypes' /\ FileTypes' /\ CallTypes'
    BY <1>0, <1>1, <1>3, EmptyTypes DEF LocalTypes, CacheTypes, FileTypes, CallTypes,
                                         ContentsCall, cache
<1>8. Kept' = Kept
    BY KeptNow DEF ContentsCall, cache
<1>9. Expected' \subseteq Expected \cup OfSend'
    BY <1>3, <1>8, ExpectedNow
<1>10. AsksList
    BY <1>1, <1>3, <1>4, <1>5, <1>8 DEF AsksList
<1>11. Asks(1)
    BY <1>1, <1>3, <1>9, <1>10 DEF Asks
<1> QED
    BY <1>0, <1>1, <1>6, <1>7, <1>11 DEF Handled, LocalTypes

\* READDIR asks with the id that OPENDIR had.
LEMMA NextBatchHandled ==
    ASSUME SftpInv, Replied("contents"), NEW more, NextBatch(more),
           DOMAIN more = {"id", "handle", "names"}, more.id = call.more.id,
           UNCHANGED <<replies, ignored, cache, posix_rename, file>>
    PROVE  Handled
<1> DEFINE r == [id |-> more.id, ser |-> serial + 1, op |-> "READDIR", arg |-> more.handle]
           t == Ticket(r)
<1>0. LocalTypes /\ Lets /\ serial \in Nat
    BY LocalTypesNow
<1>1. /\ send = <<>> /\ wait = <<>> /\ got # <<>> /\ got' = <<>> /\ call.op = "contents"
      /\ ServerAlone /\ UNCHANGED <<id, alive, calls>>
      /\ call' = [call EXCEPT !.more = more] /\ serial' = serial + 1
    BY DEF Replied, Finished, NextBatch, ServerAlone, svars
<1>2. DOMAIN call = {"op", "path", "more"} /\ more.id \in Id
    BY <1>0, <1>1 DEF LocalTypes, Progress
<1>3. call'.op = "contents" /\ call'.more = more /\ DOMAIN call' = {"op", "path", "more"}
    BY <1>1, <1>2
<1>4. Progress'
    BY <1>2, <1>3 DEF Progress, Silent, Idle
<1>5. /\ r.op = "READDIR" /\ r.id = more.id /\ r.ser = serial + 1 /\ ArgsRight(r)
      /\ t = [id |-> more.id, ser |-> serial + 1]
    BY DEF ArgsRight, Ticket
<1>6. send' = <<r, Flush>> /\ wait' = <<t>>
    BY DEF NextBatch
<1> HIDE DEF r
<1>7. /\ IsSeq(send') /\ DOMAIN send' = 1 .. 2 /\ send'[1] = r /\ send'[2] = Flush
      /\ Flush.op = "flush"
    BY <1>6, SmallSeqs DEF Flush
<1>8. Fresh(1)
    BY <1>0, <1>1, <1>2, <1>5, <1>7 DEF Fresh, Op
<1>9. OfSend' = {t}
    <2>1. Asking' = {1}
        BY <1>5, <1>7 DEF Asking, Posed
    <2> QED
        BY <2>1, <1>7 DEF OfSend
<1>10. t \in Tickets /\ t.id = more.id
    BY <1>0, <1>2, <1>5 DEF Tickets
<1> HIDE DEF t
<1>11. wait' \in Seq(Tickets) /\ ToSet(wait') \subseteq {t}
    BY <1>6, <1>10 DEF ToSet
<1>12. CacheTypes' /\ FileTypes' /\ CallTypes'
    BY <1>0, <1>1, <1>11, EmptyTypes DEF LocalTypes, CacheTypes, FileTypes, CallTypes, cache
<1>13. Kept' = Kept
    BY KeptNow DEF cache
<1>14. Expected' \subseteq Expected \cup OfSend'
    BY <1>9, <1>11, <1>13, ExpectedNow
<1>15. AsksList
    BY <1>1, <1>3, <1>6, <1>9, <1>10, <1>13 DEF AsksList
<1>16. Asks(1)
    BY <1>1, <1>3, <1>8, <1>14, <1>15 DEF Asks
<1> QED
    BY <1>0, <1>1, <1>4, <1>12, <1>16 DEF Handled, LocalTypes

LEMMA ContentsHandled ==
    ASSUME SftpInv, ContentsReply
    PROVE  Handled
<1> DEFINE r == Answer(1)
           m == call.more
<1>1. Replied("contents") /\ Finished /\ UNCHANGED <<replies, ignored, cache, posix_rename, file>>
    BY DEF ContentsReply, Replied
<1>2. LocalTypes /\ Lets /\ CacheTypes' /\ FileTypes' /\ Kept' = Kept
    BY <1>1, LocalTypesNow, KeptNow DEF LocalTypes, CacheTypes, FileTypes, cache
<1>3. DOMAIN m = {"id", "handle", "names"}
    BY <1>1, <1>2 DEF LocalTypes, Progress, Replied
<1>4. ASSUME NEW status, NEW val, NEW hs, IsSeq(hs), Leave(status, val, hs)
      PROVE  Handled
    BY <1>1, <1>2, <1>4, LeaveHandled
<1>5. CASE NextBatch([m EXCEPT !.handle = r.val])
    <2> DEFINE more == [m EXCEPT !.handle = r.val]
    <2>1. DOMAIN more = {"id", "handle", "names"} /\ more.id = call.more.id
        BY <1>3
    <2> HIDE DEF more
    <2>2. NextBatch(more)
        BY <1>5 DEF more
    <2> QED
        BY <1>1, <2>1, <2>2, NextBatchHandled
<1>6. CASE NextBatch([m EXCEPT !.names = AddBatch(@, r.val)])
    <2> DEFINE more == [m EXCEPT !.names = AddBatch(@, r.val)]
    <2>1. DOMAIN more = {"id", "handle", "names"} /\ more.id = call.more.id
        BY <1>3
    <2> HIDE DEF more
    <2>2. NextBatch(more)
        BY <1>6 DEF more
    <2> QED
        BY <1>1, <2>1, <2>2, NextBatchHandled
<1>7. CASE Leave("OK", m.names, <<m.handle>>)
    BY <1>4, <1>7, SmallSeqs
<1>8. CASE Leave(r.val, "", IF m.handle = 0 THEN <<>> ELSE <<m.handle>>)
    <2>1. IsSeq(IF m.handle = 0 THEN <<>> ELSE <<m.handle>>)
        BY SmallSeqs
    <2> QED
        BY <1>4, <1>8, <2>1
<1> QED
    BY <1>5, <1>6, <1>7, <1>8 DEF ContentsReply

LEMMA TypeCallHandled ==
    ASSUME SftpInv, NEW p \in Path, TypeCall(p)
    PROVE  Handled
<1>0. LocalTypes /\ Lets
    BY LocalTypesNow DEF TypeCall
<1>1. /\ send = <<>> /\ wait = <<>> /\ got = <<>> /\ got' = <<>>
      /\ call' = [op |-> "type", path |-> p, more |-> ""]
      /\ calls' \in 0 .. MaxCalls /\ alive' = alive /\ ServerAlone
    BY BeginDone DEF TypeCall
<1>2. PICK a, b, c :
         /\ a = Request(1, "OPEN", <<p, "ReadOnly">>) /\ b = Request(2, "OPENDIR", p)
         /\ c = Request(3, "READLINK", p)
    OBVIOUS
<1>3. /\ send' = <<a, b, c, Flush>> /\ Draw(3)
      /\ wait' = [i \in 1 .. 3 |-> Ticket(<<a, b, c>>[i])]
    <2>1. /\ send' = Append(<<a, b, c>>, Flush) /\ Draw(3)
          /\ wait' = [i \in 1 .. 3 |-> Ticket(<<a, b, c>>[i])]
        <3> DEFINE u == Request(1, "OPEN", <<p, "ReadOnly">>)
                   v == Request(2, "OPENDIR", p)
                   w == Request(3, "READLINK", p)
        <3>1. /\ send' = Append(<<u, v, w>>, Flush) /\ Draw(3)
              /\ wait' = [i \in 1 .. 3 |-> Ticket(<<u, v, w>>[i])]
            BY Zenon DEF TypeCall
        <3>2. u = a /\ v = b /\ w = c
            BY <1>2
        <3> HIDE DEF u, v, w
        <3> QED
            BY <3>1, <3>2, Zenon
    <2>2. Append(<<a, b, c>>, Flush) = <<a, b, c, Flush>>
        BY FourthElement
    <2> QED
        BY <2>1, <2>2
<1>4. /\ Fresh(3) /\ Drawn(3)
      /\ Ticket(a) \in OfSend' /\ Ticket(b) \in OfSend' /\ Ticket(c) \in OfSend'
    BY <1>1, <1>2, <1>3, TypeFresh
<1>5. \A i \in 1 .. 3 : Ticket(<<a, b, c>>[i]) \in OfSend' \cap Tickets
    <2>1. /\ NewId(1) \in Id /\ NewId(2) \in Id /\ NewId(3) \in Id
          /\ serial + 1 \in Nat /\ serial + 2 \in Nat /\ serial + 3 \in Nat
        BY NewIdType DEF SftpInv, TypeOK
    <2>2. Ticket(a) \in Tickets /\ Ticket(b) \in Tickets /\ Ticket(c) \in Tickets
        BY <1>2, <2>1, RequestFields DEF Tickets
    <2>3. \A i \in 1 .. 3 : i = 1 \/ i = 2 \/ i = 3
        OBVIOUS
    <2>4. <<a, b, c>>[1] = a /\ <<a, b, c>>[2] = b /\ <<a, b, c>>[3] = c
        OBVIOUS
    <2> QED
        BY <1>4, <2>2, <2>3, <2>4
<1>6. wait' \in [1 .. 3 -> OfSend' \cap Tickets]
    BY <1>3, <1>5
<1>7. wait' \in Seq(Tickets) /\ ToSet(wait') \subseteq OfSend'
    <2>1. \A i \in DOMAIN wait' : wait'[i] \in OfSend'
        BY <1>6
    <2>2. wait' \in [1 .. 3 -> Tickets]
        BY <1>6
    <2>3. wait' \in Seq(Tickets)
        <3> DEFINE n == 3
        <3>1. n \in Nat /\ wait' \in [1 .. n -> Tickets]
            BY <2>2
        <3> HIDE DEF n
        <3> QED
            BY <3>1
    <2>4. ToSet(wait') \subseteq OfSend'
        BY <2>1 DEF ToSet
    <2> QED
        BY <2>3, <2>4
<1>8. CacheTypes' /\ FileTypes' /\ CallTypes' /\ Progress'
    BY <1>0, <1>1, <1>7, EmptyTypes DEF LocalTypes, CacheTypes, FileTypes, CallTypes, TypeCall,
                                 cache, Progress, Silent, Idle
<1>9. Expected' \subseteq Expected \cup OfSend'
    BY <1>7, KeptNow, ExpectedNow DEF TypeCall, cache
<1>10. Asks(3)
    BY <1>1, <1>4, <1>9 DEF Asks
<1> QED
    BY <1>0, <1>1, <1>8, <1>10 DEF Handled, LocalTypes

LEMMA TypeHandled ==
    ASSUME SftpInv, TypeReply
    PROVE  Handled
<1>1. Finished /\ UNCHANGED <<replies, ignored, cache, posix_rename, file>>
    BY DEF TypeReply, Replied
<1>2. LocalTypes /\ Lets /\ CacheTypes' /\ FileTypes' /\ Kept' = Kept
    BY <1>1, LocalTypesNow, KeptNow DEF LocalTypes, CacheTypes, FileTypes, cache
<1>3. IsSeq(TypeHandles)
    <2> DEFINE h(i) == IF Answer(i).type = "HANDLE" THEN <<Answer(i).val>> ELSE <<>>
    <2>1. PICK S : Answer(1).val \in S /\ Answer(2).val \in S
        <3>1. /\ Answer(1).val \in {Answer(1).val, Answer(2).val}
              /\ Answer(2).val \in {Answer(1).val, Answer(2).val}
            OBVIOUS
        <3> QED
            BY <3>1
    <2>2. h(1) \in Seq(S) /\ h(2) \in Seq(S)
        BY <2>1, EmptySeq
    <2>3. h(1) \o h(2) \in Seq(S)
        BY <2>2, ConcatProperties
    <2>4. TypeHandles = h(1) \o h(2)
        BY DEF TypeHandles
    <2> QED
        BY <2>3, <2>4 DEF IsSeq
<1>4. \E status, val, hs : IsSeq(hs) /\ Leave(status, val, hs)
    BY <1>3, SmallSeqs DEF TypeReply
<1> QED
    BY <1>1, <1>2, <1>4, LeaveHandled

----------------------------------------------------------------------------
(***************************************************************************)
(* Files.                                                                  *)
(***************************************************************************)
LEMMA IgnoreLets ==
    ASSUME SftpInv, NEW ids \in SUBSET Id, Ignore(ids)
    PROVE  Lets
<1>1. /\ DOMAIN replies' = DOMAIN replies \ ids
      /\ \A x \in DOMAIN replies' : replies'[x] = replies[x]
    BY DEF Ignore, RestrictDomain, Restrict
<1>2. ignored' \subseteq Id
    BY DEF Ignore, SftpInv, TypeOK
<1> QED
    BY <1>1, <1>2 DEF Lets

\* The file is as it was, but for a queue with no new requests.
LEMMA FileKept ==
    ASSUME SftpInv, inflight' = inflight, file' # NoFile,
           ToSet(file'.queue) \subseteq IF file = NoFile THEN {} ELSE ToSet(file.queue)
    PROVE  Kept' \subseteq Kept
BY DEF Kept

LEMMA OpenHandled ==
    ASSUME SftpInv, OpenReply
    PROVE  Handled
<1>1. /\ Finished /\ UNCHANGED <<replies, ignored, cache, posix_rename>>
      /\ \E status : Leave(status, "", <<>>)
    BY DEF OpenReply, Replied
<1>2. LocalTypes /\ Lets /\ CacheTypes'
    BY <1>1, LocalTypesNow DEF LocalTypes, CacheTypes, cache
<1>3. FileTypes' /\ Kept' \subseteq Kept
    <2>1. CASE UNCHANGED file
        <3>1. Kept' = Kept
            BY <2>1, <1>1, KeptNow DEF cache
        <3> QED
            BY <2>1, <3>1, <1>2 DEF LocalTypes, FileTypes
    <2>2. CASE ~ UNCHANGED file
        <3>1. file' = [handle |-> Answer(1).val, mode |-> call.more, queue |-> <<>>, offset |-> 0,
                       buf |-> <<>>, eof |-> FALSE, done |-> <<>>, end |-> FALSE,
                       failed |-> FALSE]
            BY <2>2 DEF OpenReply
        <3>2. DOMAIN file' = FileFields /\ file'.queue = <<>> /\ file'.offset = 0
            BY <3>1 DEF FileFields
        <3>3. FileTypes'
            BY <3>2, EmptyTypes DEF FileTypes
        <3>4. Kept' \subseteq Kept
            BY <3>2, <1>1, EmptyTypes DEF Kept, cache
        <3> QED
            BY <3>3, <3>4
    <2> QED
        BY <2>1, <2>2
<1> QED
    BY <1>1, <1>2, <1>3, SmallSeqs, LeaveHandled

\* What a sequence of tickets, or of what they are made from, has in it.
LEMMA QueueGrows ==
    ASSUME NEW q \in Seq(Tickets), NEW k \in Nat, NEW S, NEW n, n \in [1 .. k -> S \cap Tickets]
    PROVE  q \o n \in Seq(Tickets) /\ ToSet(q \o n) \subseteq ToSet(q) \cup S
<1>1. n \in Seq(Tickets) /\ Len(n) = k /\ \A i \in 1 .. k : n[i] \in S
    <2>1. n \in [1 .. k -> Tickets]
        OBVIOUS
    <2> QED
        BY <2>1
<1>2. /\ q \o n \in Seq(Tickets) /\ Len(q \o n) = Len(q) + Len(n)
      /\ \A i \in 1 .. Len(q) + Len(n) : (q \o n)[i] = IF i <= Len(q) THEN q[i] ELSE n[i - Len(q)]
    BY <1>1, ConcatProperties
<1>3. Len(q) \in Nat /\ DOMAIN q = 1 .. Len(q)
    BY LenProperties
<1>4. DOMAIN (q \o n) = 1 .. Len(q) + Len(n)
    BY <1>2, LenProperties
<1>5. ASSUME NEW i \in DOMAIN (q \o n)
      PROVE  (q \o n)[i] \in ToSet(q) \cup S
    <2>0. i \in 1 .. Len(q) + Len(n)
        BY <1>4
    <2>1. CASE i <= Len(q)
        <3>1. (q \o n)[i] = q[i] /\ i \in DOMAIN q
            BY <2>0, <2>1, <1>2, <1>3
        <3> QED
            BY <3>1 DEF ToSet
    <2>2. CASE ~ (i <= Len(q))
        <3>1. (q \o n)[i] = n[i - Len(q)]
            BY <2>0, <2>2, <1>2
        <3>2. i - Len(q) \in 1 .. k
            BY <2>0, <2>2, <1>1, <1>3
        <3> QED
            BY <3>1, <3>2, <1>1
    <2> QED
        BY <2>1, <2>2
<1>6. ToSet(q \o n) \subseteq ToSet(q) \cup S
    BY <1>5 DEF ToSet
<1> QED
    BY <1>2, <1>6

\* The first of a queue is awaited and the others stay in it.
LEMMA QueueSplits ==
    ASSUME NEW q \in Seq(Tickets), q # <<>>
    PROVE  /\ Tail(q) \in Seq(Tickets) /\ <<Head(q)>> \in Seq(Tickets)
           /\ ToSet(Tail(q)) \cup ToSet(<<Head(q)>>) \subseteq ToSet(q)
<1>1. /\ Tail(q) \in Seq(Tickets) /\ Head(q) \in Tickets
    BY HeadTailProperties
<1>2. IsSeq(q)
    BY DEF IsSeq
<1>3. 1 \in DOMAIN q /\ Head(q) = q[1]
      /\ \A i \in DOMAIN Tail(q) : i + 1 \in DOMAIN q /\ Tail(q)[i] = q[i + 1]
    BY <1>2, TailSeq
<1>4. Head(q) \in ToSet(q) /\ ToSet(Tail(q)) \subseteq ToSet(q)
    BY <1>3 DEF ToSet
<1>5. ToSet(<<Head(q)>>) = {Head(q)}
    BY DEF ToSet
<1>6. <<Head(q)>> \in Seq(Tickets)
    BY <1>1
<1> QED
    BY <1>1, <1>4, <1>5, <1>6

LEMMA ReadCallHandled ==
    ASSUME SftpInv, NEW space \in Space, ReadCall(space)
    PROVE  Handled
<1> DEFINE k == IF file.eof THEN 0 ELSE MaxOf(0, ReadQueue - Len(file.queue))
           queue == file.queue \o [i \in 1..k |-> Ticket(ReadAhead(i, space))]
           due == file.buf = <<>> /\ queue # <<>>
<1>0. LocalTypes /\ Lets /\ serial \in Nat /\ file # NoFile /\ space \in Nat
    BY LocalTypesNow, ClientAssumption DEF ReadCall, Usable
<1>1. /\ send = <<>> /\ wait = <<>> /\ got = <<>> /\ got' = <<>>
      /\ call' = [op |-> "read", path |-> file.handle, more |-> space]
      /\ calls' \in 0 .. MaxCalls /\ alive' = alive /\ ServerAlone
    BY BeginDone DEF ReadCall
<1>2. file.queue \in Seq(Tickets) /\ file.offset \in Nat /\ DOMAIN file = FileFields
    BY <1>0 DEF LocalTypes, FileTypes
<1>3. k \in Nat
    <2>1. Len(file.queue) \in Nat
        BY <1>2, LenProperties
    <2> QED
        BY <2>1, ClientAssumption DEF MaxOf
<1>4. /\ Draw(k)
      /\ send' = [j \in 1..2*k |-> IF j % 2 = 1 THEN ReadAhead((j + 1) \div 2, space)
                                               ELSE Flush]
      /\ wait' = IF due THEN <<Head(queue)>> ELSE <<>>
      /\ file' = [file EXCEPT !.queue = IF due THEN Tail(queue) ELSE queue,
                              !.offset = @ + k * space]
    BY Zenon DEF ReadCall
<1> HIDE DEF k
<1>5. /\ Fresh(k) /\ Drawn(k)
      /\ \A i \in 1 .. k : Ticket(ReadAhead(i, space)) \in OfSend'
    BY <1>1, <1>3, <1>4, ReadFresh
<1>6. \A i \in 1 .. k : Ticket(ReadAhead(i, space)) \in OfSend' \cap Tickets
    <2>1. ASSUME NEW i \in 1 .. k PROVE Ticket(ReadAhead(i, space)) \in Tickets
        <3>1. NewId(i) \in Id /\ serial + i \in Nat
            BY <1>0, NewIdType DEF SftpInv, TypeOK
        <3> QED
            BY <3>1, RequestFields DEF Tickets, ReadAhead
    <2> QED
        BY <1>5, <2>1
<1>7. queue \in Seq(Tickets) /\ ToSet(queue) \subseteq ToSet(file.queue) \cup OfSend'
    <2> DEFINE n == [i \in 1..k |-> Ticket(ReadAhead(i, space))]
    <2>1. n \in [1 .. k -> OfSend' \cap Tickets]
        BY <1>6
    <2> HIDE DEF n
    <2>2. file.queue \o n \in Seq(Tickets)
          /\ ToSet(file.queue \o n) \subseteq ToSet(file.queue) \cup OfSend'
        BY <1>2, <1>3, <2>1, QueueGrows
    <2> QED
        BY <2>2 DEF n
<1>8. PICK d \in BOOLEAN : d = due
    OBVIOUS
<1>9. PICK q, o : /\ q = (IF d THEN Tail(queue) ELSE queue) /\ o = file.offset + k * space
                  /\ o \in Nat
    <2>1. k * space \in Nat
        BY <1>0, <1>3
    <2>2. file.offset + k * space \in Nat
        BY <2>1, <1>2
    <2> QED
        BY <2>2
<1>10. /\ wait' = IF d THEN <<Head(queue)>> ELSE <<>>
       /\ file' = [file EXCEPT !.queue = q, !.offset = o]
       /\ d => queue # <<>>
    BY <1>4, <1>8, <1>9
<1> HIDE DEF queue, due
<1>11. /\ wait' \in Seq(Tickets) /\ q \in Seq(Tickets)
       /\ ToSet(wait') \cup ToSet(q) \subseteq ToSet(queue)
    <2>1. CASE d
        BY <2>1, <1>7, <1>9, <1>10, QueueSplits
    <2>2. CASE ~ d
        BY <2>2, <1>7, <1>9, <1>10, EmptyTypes
    <2> QED
        BY <2>1, <2>2
<1>12. DOMAIN file' = FileFields /\ file'.queue = q /\ file'.offset = o
    BY <1>2, <1>10 DEF FileFields
<1>13. FileTypes' /\ file' # NoFile
    <2>1. file' # NoFile
        <3>1. DOMAIN NoFile = {"handle"}
            BY DEF NoFile
        <3> QED
            BY <3>1, <1>12 DEF FileFields
    <2> QED
        BY <2>1, <1>9, <1>11, <1>12 DEF FileTypes
<1>14. CacheTypes' /\ CallTypes' /\ UNCHANGED <<replies, ignored, cache>>
    BY <1>0, <1>1, <1>11, EmptyTypes DEF LocalTypes, CacheTypes, CallTypes, ReadCall, cache
<1>15. Progress'
    BY <1>1, <1>13 DEF Progress, Silent, Idle
<1>16. Expected' \subseteq Expected \cup OfSend'
    BY <1>0, <1>7, <1>11, <1>12, <1>13, <1>14 DEF Expected, Kept, cache
<1>17. Asks(k)
    BY <1>1, <1>5, <1>16 DEF Asks
<1>18. Lets
    BY <1>14, LocalTypesNow
<1> QED
    BY <1>1, <1>3, <1>13, <1>14, <1>15, <1>17, <1>18 DEF Handled, LocalTypes

LEMMA DeliverHandled ==
    ASSUME SftpInv, Finished, NEW f, NEW bytes, Deliver(f, bytes), Lets,
           UNCHANGED <<cache, posix_rename>>, file # NoFile,
           DOMAIN f = FileFields, f.queue \in Seq(Tickets), f.offset \in Nat,
           ToSet(f.queue) \subseteq ToSet(file.queue)
    PROVE  Handled
<1>1. LocalTypes /\ CacheTypes'
    BY LocalTypesNow DEF LocalTypes, CacheTypes, cache
<1>2. PICK b, d, e : file' = [f EXCEPT !.buf = b, !.done = d, !.end = e]
    BY DEF Deliver
<1>3. DOMAIN file' = FileFields /\ file'.queue = f.queue /\ file'.offset = f.offset
    BY <1>2
<1>4. file' # NoFile
    <2>1. DOMAIN NoFile = {"handle"}
        BY DEF NoFile
    <2> QED
        BY <2>1, <1>3 DEF FileFields
<1>5. FileTypes'
    BY <1>3 DEF FileTypes
<1>6. Kept' \subseteq Kept
    BY <1>3, <1>4, FileKept DEF cache
<1>7. \E n : Leave("OK", n, <<>>)
    BY DEF Deliver
<1> QED
    BY <1>1, <1>5, <1>6, <1>7, SmallSeqs, LeaveHandled

LEMMA FileNow ==
    ASSUME SftpInv, call.op \in {"read", "write"}
    PROVE  /\ file # NoFile /\ DOMAIN file = FileFields
           /\ file.queue \in Seq(Tickets) /\ file.offset \in Nat
BY LocalTypesNow DEF LocalTypes, FileTypes, Progress

LEMMA ReadHandled ==
    ASSUME SftpInv, ReadBuffered \/ ReadReply
    PROVE  Handled
<1>1. Finished /\ call.op = "read" /\ UNCHANGED <<cache, posix_rename>>
    BY DEF ReadBuffered, ReadReply, Replied
<1>2. /\ file # NoFile /\ DOMAIN file = FileFields
      /\ file.queue \in Seq(Tickets) /\ file.offset \in Nat
    BY <1>1, FileNow
<1>3. ASSUME NEW bytes, Deliver(file, bytes), UNCHANGED <<replies, ignored>>
      PROVE  Handled
    BY <1>1, <1>2, <1>3, LocalTypesNow, DeliverHandled
<1>4. ASSUME Ignore({t.id : t \in ToSet(file.queue)}),
             Deliver([file EXCEPT !.queue = <<>>, !.eof = TRUE], <<>>)
      PROVE  Handled
    <2>1. {t.id : t \in ToSet(file.queue)} \in SUBSET Id
        <3>1. \A i \in DOMAIN file.queue : file.queue[i] \in Tickets
            BY <1>2, LenProperties
        <3> QED
            BY <3>1 DEF ToSet, Tickets
    <2>2. Lets
        BY <1>4, <2>1, IgnoreLets
    <2> DEFINE f == [file EXCEPT !.queue = <<>>, !.eof = TRUE]
    <2>3. DOMAIN f = FileFields /\ f.queue = <<>> /\ f.offset = file.offset
        BY <1>2 DEF FileFields
    <2>4. Deliver(f, <<>>)
        BY <1>4
    <2> HIDE DEF f
    <2> QED
        BY <1>1, <1>2, <2>2, <2>3, <2>4, EmptyTypes, DeliverHandled
<1>5. ASSUME file' = [file EXCEPT !.failed = TRUE], NEW status, Leave(status, 0, <<>>),
             UNCHANGED <<replies, ignored>>
      PROVE  Handled
    <2>1. DOMAIN file' = FileFields /\ file'.queue = file.queue /\ file'.offset = file.offset
        BY <1>2, <1>5
    <2>2. file' # NoFile
        <3>1. DOMAIN NoFile = {"handle"}
            BY DEF NoFile
        <3> QED
            BY <3>1, <2>1 DEF FileFields
    <2>3. FileTypes' /\ Kept' \subseteq Kept
        BY <1>1, <1>2, <2>1, <2>2, FileKept DEF FileTypes, cache
    <2>4. Lets /\ CacheTypes'
        BY <1>1, <1>5, LocalTypesNow DEF LocalTypes, CacheTypes, cache
    <2> QED
        BY <1>1, <1>5, <2>3, <2>4, SmallSeqs, LeaveHandled
<1> QED
    BY <1>3, <1>4, <1>5 DEF ReadBuffered, ReadReply

LEMMA WriteCallHandled ==
    ASSUME SftpInv, NEW b \in Content, WriteCall(b)
    PROVE  Handled
<1>1. LocalTypes /\ file # NoFile
    BY LocalTypesNow DEF WriteCall, Usable
<1>2. file.offset + Len(b) \in Nat
    BY <1>1, LenProperties, ServerAssumption DEF LocalTypes, FileTypes
<1>3. /\ DOMAIN file' = FileFields /\ file'.queue = file.queue
      /\ file'.offset = file.offset + Len(b)
    BY <1>1 DEF WriteCall, LocalTypes, FileTypes, FileFields
<1>4. file' # NoFile
    <2>1. DOMAIN NoFile = {"handle"}
        BY DEF NoFile
    <2> QED
        BY <2>1, <1>3 DEF FileFields
<1>5. FileTypes' /\ Kept' = Kept
    BY <1>1, <1>2, <1>3, <1>4 DEF FileTypes, LocalTypes, Kept, WriteCall, cache
<1>6. call' = [op |-> "write", path |-> file.handle, more |-> b]
    BY BeginDone DEF WriteCall
<1>7. Progress'
    BY <1>4, <1>6 DEF Progress, Silent, Idle
<1>8. ArgsRight(Request(1, "WRITE", <<file.handle, file.offset, b>>))
    BY RequestFields DEF ArgsRight
<1> QED
    BY <1>5, <1>7, <1>8, BeginAsks DEF WriteCall, Silent, Op

LEMMA WriteHandled ==
    ASSUME SftpInv, WriteReply
    PROVE  Handled
<1>1. Finished /\ call.op = "write"
    BY DEF WriteReply, Replied
<1>2. /\ file # NoFile /\ DOMAIN file = FileFields
      /\ file.queue \in Seq(Tickets) /\ file.offset \in Nat
    BY <1>1, FileNow
<1>3. CASE ~ WriteFailed
    <2>1. /\ file' = [file EXCEPT !.done = @ \o call.more] /\ Leave("OK", "", <<>>)
          /\ UNCHANGED <<replies, ignored, cache, posix_rename>>
        BY <1>3 DEF WriteReply
    <2>0. PICK d : file' = [file EXCEPT !.done = d]
        BY <2>1
    <2>2. DOMAIN file' = FileFields /\ file'.queue = file.queue /\ file'.offset = file.offset
        BY <1>2, <2>0
    <2>3. file' # NoFile
        <3>1. DOMAIN NoFile = {"handle"}
            BY DEF NoFile
        <3> QED
            BY <3>1, <2>2 DEF FileFields
    <2>4. FileTypes' /\ Kept' \subseteq Kept
        BY <2>1, <1>2, <2>2, <2>3, FileKept DEF FileTypes, cache
    <2>5. Lets /\ CacheTypes'
        BY <2>1, LocalTypesNow DEF LocalTypes, CacheTypes, cache
    <2> QED
        BY <1>1, <2>1, <2>4, <2>5, SmallSeqs, LeaveHandled
<1>4. CASE WriteFailed
    <2>1. /\ alive' = FALSE
          /\ UNCHANGED <<svars, link, round, cache, posix_rename, file, call, calls>>
        BY <1>4 DEF WriteReply
    <2>2. LocalTypes /\ Lets /\ ServerAlone
        BY <2>1, LocalTypesNow DEF svars, link, round, ServerAlone
    <2>3. LocalTypes'
        BY <2>1, <2>2 DEF LocalTypes, CacheTypes, FileTypes, CallTypes, Progress, round, cache
    <2>4. Fresh(0) /\ Drawn(0)
        BY <1>1, <2>1, NothingFresh DEF Finished, link, round
    <2>5. Expected' \subseteq Expected \cup OfSend'
        BY <2>1 DEF Expected, Kept, round, cache
    <2>6. Asks(0)
        BY <1>1, <2>1, <2>4, <2>5 DEF Asks, round
    <2> QED
        BY <2>2, <2>3, <2>6 DEF Handled
<1> QED
    BY <1>3, <1>4

LEMMA CloseHandled ==
    ASSUME SftpInv, CloseCall
    PROVE  Handled
<1>0. LocalTypes /\ Lets
    BY LocalTypesNow DEF CloseCall
<1>1. /\ send = <<>> /\ wait = <<>> /\ got = <<>> /\ got' = <<>> /\ wait' = <<>>
      /\ call' = [op |-> "close", path |-> file.handle, more |-> ""]
      /\ calls' \in 0 .. MaxCalls /\ alive' = alive /\ ServerAlone
    BY BeginDone DEF CloseCall
<1>2. Fresh(1) /\ Drawn(1)
    BY <1>1, OneCloseFresh DEF CloseCall
<1>3. CacheTypes' /\ FileTypes' /\ CallTypes' /\ Progress'
    BY <1>0, <1>1, EmptyTypes DEF LocalTypes, CacheTypes, FileTypes, CallTypes, CloseCall,
                                  cache, Progress, Silent, Idle
<1>4. Expected' \subseteq Expected \cup OfSend'
    BY <1>1, EmptyTypes DEF Expected, Kept, CloseCall, cache
<1>5. Asks(1)
    BY <1>1, <1>2, <1>4 DEF Asks
<1> QED
    BY <1>0, <1>1, <1>3, <1>5 DEF Handled, LocalTypes

----------------------------------------------------------------------------
\* The steps that make no request, and those of poll, send, flush and await.
Rest == Poll \/ PutRequest \/ FlushRequest \/ Await \/ Die \/ Return \/ Environment

\* Every other step of the program begins a call, goes on with it or ends it.
LEMMA StepsHandled ==
    ASSUME SftpInv, StartCall \/ CallStep, ~ Rest
    PROVE  Handled
<1>1. CASE StartCall
    <2>1. ASSUME NEW p \in Path,
                 \/ MkdirCall(p) \/ RemoveCall(p)
                 \/ \E q \in Path \ {p} : RenameCall(p, q)
                 \/ \E mode \in {"ReadOnly", "Overwrite", "NoOverwrite"} : OpenCall(p, mode)
          PROVE  Handled
        BY <2>1, NameCallsHandled
    <2>2. ASSUME NEW p \in Path, PrefigureCall(p) \/ ExistsCall(p) \/ TypeCall(p)
          PROVE  Handled
        BY <2>2, PrefigureHandled, ExistsCallHandled, TypeCallHandled
    <2>3. ASSUME NEW d, ContentsCall(d) PROVE Handled
        BY <2>3, ContentsCallHandled
    <2>4. ASSUME NEW n \in Space, ReadCall(n) PROVE Handled
        BY <2>4, ReadCallHandled
    <2>5. ASSUME NEW b \in Content, WriteCall(b) PROVE Handled
        BY <2>5, WriteCallHandled
    <2>6. CASE CloseCall
        BY <2>6, CloseHandled
    <2> QED
        BY <1>1, <2>1, <2>2, <2>3, <2>4, <2>5, <2>6 DEF StartCall
<1>2. CASE CallStep
    <2>1. \/ RenameFallback \/ RemoveDir \/ StatusReply
          \/ ExistsReap \/ ExistsStore \/ ExistsAnswer \/ ExistsUncached
          \/ ContentsReply \/ TypeReply \/ OpenReply
          \/ ReadBuffered \/ ReadReply \/ WriteReply
        BY <1>2 DEF CallStep, Rest
    <2> QED
        BY <2>1, SecondRequestHandled, StatusHandled, ExistsReapHandled, ExistsStoreHandled,
           ExistsAnswerHandled, ExistsUncachedHandled, ContentsHandled, TypeHandled,
           OpenHandled, ReadHandled, WriteHandled
<1> QED
    BY <1>1, <1>2

----------------------------------------------------------------------------
(***************************************************************************)
(* The server.                                                             *)
(***************************************************************************)
\* Whatever it does with a request, it sends one reply to it.
LEMMA ServerReplies ==
    ASSUME Serve \/ Fail
    PROVE  /\ req # <<>> /\ Len(rep) < RepCap /\ up' = up /\ changes' = changes
           /\ \E type \in ReplyType : \E val : Reply(type, val)
<1>1. req # <<>> /\ Len(rep) < RepCap /\ up' = up /\ changes' = changes
    BY DEF Serve, Fail
<1>2. ASSUME NEW s, Status(s) PROVE \E type \in ReplyType : \E val : Reply(type, val)
    BY <1>2 DEF Status, ReplyType
<1>3. ASSUME NEW s, Refuse(s) PROVE \E type \in ReplyType : \E val : Reply(type, val)
    BY <1>2, <1>3 DEF Refuse
<1>4. ASSUME NEW ino, NEW left, NewHandle(ino, left)
      PROVE  \E type \in ReplyType : \E val : Reply(type, val)
    BY <1>4 DEF NewHandle, ReplyType
<1>5. CASE Fail
    BY <1>3, <1>5 DEF Fail
<1>6. CASE Serve
    <2> DEFINE r == Head(req)
    <2>1. ASSUME NEW p, Stat(p) PROVE \E type \in ReplyType : \E val : Reply(type, val)
        BY <1>3, <2>1 DEF Stat, ReplyType
    <2>2. ASSUME NEW p, NEW mode, Open(p, mode)
          PROVE  \E type \in ReplyType : \E val : Reply(type, val)
        BY <1>3, <1>4, <2>2 DEF Open
    <2>3. ASSUME NEW p, OpenDir(p) PROVE \E type \in ReplyType : \E val : Reply(type, val)
        BY <1>3, <1>4, <2>3 DEF OpenDir
    <2>4. ASSUME NEW h, ReadDir(h) PROVE \E type \in ReplyType : \E val : Reply(type, val)
        BY <1>3, <2>4 DEF ReadDir, ReplyType
    <2>5. ASSUME NEW p, ReadLink(p) PROVE \E type \in ReplyType : \E val : Reply(type, val)
        BY <1>3, <2>5 DEF ReadLink, ReplyType
    <2>6. ASSUME NEW p, MkDir(p) PROVE \E type \in ReplyType : \E val : Reply(type, val)
        BY <1>2, <1>3, <2>6 DEF MkDir
    <2>7. ASSUME NEW p, NEW kinds, Unlink(p, kinds)
          PROVE  \E type \in ReplyType : \E val : Reply(type, val)
        BY <1>2, <1>3, <2>7 DEF Unlink
    <2>8. ASSUME NEW p, NEW q, NEW replace, Rename(p, q, replace)
          PROVE  \E type \in ReplyType : \E val : Reply(type, val)
        BY <1>2, <1>3, <2>8 DEF Rename
    <2>9. ASSUME NEW p, NEW q, Extended(p, q)
          PROVE  \E type \in ReplyType : \E val : Reply(type, val)
        BY <1>3, <2>8, <2>9 DEF Extended
    <2>10. ASSUME NEW h, NEW offset, NEW space, Read(h, offset, space)
           PROVE  \E type \in ReplyType : \E val : Reply(type, val)
        BY <1>3, <2>10 DEF Read, ReplyType
    <2>11. ASSUME NEW h, NEW offset, NEW b, Write(h, offset, b)
           PROVE  \E type \in ReplyType : \E val : Reply(type, val)
        BY <1>2, <2>11 DEF Write
    <2>12. ASSUME NEW h, Close(h) PROVE \E type \in ReplyType : \E val : Reply(type, val)
        BY <1>2, <2>12 DEF Close
    <2> QED
        BY <1>6, <2>1, <2>2, <2>3, <2>4, <2>5, <2>6, <2>7, <2>8, <2>9, <2>10, <2>11, <2>12
           DEF Serve
<1> QED
    BY <1>1, <1>5, <1>6

TreeTypes ==
    /\ up \in BOOLEAN /\ tree \in [Path -> Node] /\ Consistent(tree)
    /\ changes \in 0 .. MaxChanges /\ faults \in 0 .. MaxFaults

LEMMA MadeTree ==
    ASSUME TreeTypes, NEW p \in Path, KindOf(p) = "none", KindOf(Under[p]) = "dir",
           NEW k \in {"file", "dir"}, NEW ino \in Path \cup Nat
    PROVE  LET t == [tree EXCEPT ![p] = [kind |-> k, ino |-> ino]] IN
           t \in [Path -> Node] /\ Consistent(t)
<1> DEFINE n == [kind |-> k, ino |-> ino]
           t == [tree EXCEPT ![p] = n]
<1>1. n \in Node /\ n.kind # "none"
    BY DEF Node
<1>2. tree \in [Path -> Node] /\ Consistent(tree)
    BY DEF TreeTypes
<1>3. tree[p].kind = "none"
    BY ServerAssumption DEF KindOf
<1>4. Under[p] = Top \/ (Under[p] \in Path /\ tree[Under[p]].kind = "dir")
    BY ServerAssumption DEF KindOf
<1> HIDE DEF n
<1>5. t \in [Path -> Node] /\ t[p] = n /\ \A q \in Path : q # p => t[q] = tree[q]
    BY <1>1, <1>2
<1> HIDE DEF t
<1>6. ASSUME NEW q \in Path, t[q].kind # "none"
      PROVE  Under[q] = Top \/ (Under[q] \in Path /\ t[Under[q]].kind = "dir")
    <2>1. CASE q = p
        <3>1. Under[p] # p
            BY <1>3, <1>4, ServerAssumption
        <3> QED
            BY <2>1, <3>1, <1>4, <1>5
    <2>2. CASE q # p
        <3>1. Under[q] = Top \/ (Under[q] \in Path /\ tree[Under[q]].kind = "dir")
            BY <1>2, <1>5, <1>6, <2>2 DEF Consistent
        <3>2. Under[q] # p
            BY <3>1, <1>3, ServerAssumption
        <3> QED
            BY <3>1, <3>2, <1>5
    <2> QED
        BY <2>1, <2>2
<1>7. Consistent(t)
    BY <1>6 DEF Consistent
<1> QED
    BY <1>5, <1>7 DEF t, n

LEMMA UnlinkedTree ==
    ASSUME TreeTypes, NEW p \in Path, Children(p) = {}
    PROVE  LET t == [tree EXCEPT ![p] = Nothing] IN
           t \in [Path -> Node] /\ Consistent(t)
<1> DEFINE t == [tree EXCEPT ![p] = Nothing]
<1>1. Nothing \in Node /\ Nothing.kind = "none"
    BY DEF Node, Nothing
<1>2. tree \in [Path -> Node] /\ Consistent(tree)
    BY DEF TreeTypes
<1>3. t \in [Path -> Node] /\ t[p] = Nothing /\ \A q \in Path : q # p => t[q] = tree[q]
    BY <1>1, <1>2
<1> HIDE DEF t
<1>4. ASSUME NEW q \in Path, t[q].kind # "none"
      PROVE  Under[q] = Top \/ (Under[q] \in Path /\ t[Under[q]].kind = "dir")
    <2>1. q # p /\ tree[q].kind # "none"
        BY <1>1, <1>3, <1>4
    <2>2. Under[q] = Top \/ (Under[q] \in Path /\ tree[Under[q]].kind = "dir")
        BY <1>2, <2>1 DEF Consistent
    <2>3. Under[q] # p
        BY <2>1 DEF Children
    <2> QED
        BY <2>2, <2>3, <1>3
<1>5. Consistent(t)
    BY <1>4 DEF Consistent
<1> QED
    BY <1>3, <1>5 DEF t

LEMMA RenamedTree ==
    ASSUME TreeTypes, NEW p \in Path, NEW q \in Path, KindOf(p) \in {"file", "link"},
           KindOf(Under[q]) = "dir", KindOf(q) # "dir"
    PROVE  LET t == [tree EXCEPT ![p] = Nothing, ![q] = tree[p]] IN
           t \in [Path -> Node] /\ Consistent(t)
<1> DEFINE t == [tree EXCEPT ![p] = Nothing, ![q] = tree[p]]
<1>1. Nothing \in Node /\ Nothing.kind = "none"
    BY DEF Node, Nothing
<1>2. tree \in [Path -> Node] /\ Consistent(tree)
    BY DEF TreeTypes
<1>3. tree[p].kind \notin {"none", "dir"} /\ tree[q].kind # "dir"
    BY ServerAssumption DEF KindOf
<1>4. Under[q] = Top \/ (Under[q] \in Path /\ tree[Under[q]].kind = "dir")
    BY ServerAssumption DEF KindOf
<1>5. /\ t \in [Path -> Node] /\ t[q] = tree[p] /\ (p # q => t[p] = Nothing)
      /\ \A x \in Path : x # p /\ x # q => t[x] = tree[x]
    <2> DEFINE s == [tree EXCEPT ![p] = Nothing]
    <2>1. s \in [Path -> Node] /\ s[p] = Nothing /\ \A x \in Path : x # p => s[x] = tree[x]
        BY <1>1, <1>2
    <2>2. t = [s EXCEPT ![q] = tree[p]]
        OBVIOUS
    <2>3. tree[p] \in Node
        BY <1>2
    <2> HIDE DEF s, t
    <2> QED
        BY <2>1, <2>2, <2>3
<1> HIDE DEF t
<1>6. ASSUME NEW x \in Path, t[x].kind # "none"
      PROVE  Under[x] = Top \/ (Under[x] \in Path /\ t[Under[x]].kind = "dir")
    <2>1. Under[x] = Top \/ (Under[x] \in Path /\ tree[Under[x]].kind = "dir")
        <3>1. CASE x = q
            BY <3>1, <1>4
        <3>2. CASE x # q
            <4>1. x # p
                BY <3>2, <1>1, <1>5, <1>6
            <4>2. tree[x].kind # "none"
                BY <3>2, <4>1, <1>5, <1>6
            <4> QED
                BY <4>2, <1>2 DEF Consistent
        <3> QED
            BY <3>1, <3>2
    <2>2. Under[x] # p /\ Under[x] # q
        BY <2>1, <1>3, ServerAssumption
    <2> QED
        BY <2>1, <2>2, <1>5
<1>7. Consistent(t)
    BY <1>6 DEF Consistent
<1> QED
    BY <1>5, <1>7 DEF t

\* Serving a request leaves a tree.
LEMMA ServedTree ==
    ASSUME TreeTypes, NEW r, r = Head(req), r.op \in Op, ArgsRight(r), r.ser \in Nat, Serve
    PROVE  TreeTypes'
<1> DEFINE Right(t) == t \in [Path -> Node] /\ Consistent(t)
           Done == tree' \in [Path -> Node] /\ Consistent(tree')
<1>0. Done => TreeTypes'
    BY DEF TreeTypes, Serve, Consistent
<1>1. ASSUME KeepTree PROVE Done
    BY <1>1 DEF KeepTree, TreeTypes, Consistent
<1>2. ASSUME NEW s, Refuse(s) PROVE Done
    BY <1>1, <1>2 DEF Refuse
<1>3. ASSUME NEW t, SetTree(t), t \in [Path -> Node] /\ Consistent(t) PROVE Done
    BY <1>3 DEF SetTree
<1>4. ASSUME NEW p, Stat(p) \/ OpenDir(p) \/ ReadLink(p) PROVE Done
    BY <1>1, <1>2, <1>4 DEF Stat, OpenDir, ReadLink
<1>5. ASSUME NEW h, ReadDir(h) \/ Close(h) PROVE Done
    BY <1>1, <1>2, <1>5 DEF ReadDir, Close
<1>6. ASSUME NEW h, NEW offset, NEW x, Read(h, offset, x) \/ Write(h, offset, x) PROVE Done
    BY <1>1, <1>2, <1>6 DEF Read, Write
<1>7. ASSUME NEW p \in Path, NEW mode, Open(p, mode) PROVE Done
    <2>1. CASE KeepTree
        BY <1>1, <2>1
    <2>2. CASE ~ KeepTree
        <3>1. /\ KindOf(p) = "none" /\ KindOf(Under[p]) = "dir"
              /\ SetTree([tree EXCEPT ![p] = [kind |-> "file", ino |-> Head(req).ser]])
            BY <1>7, <2>2 DEF Open, Refuse
        <3>2. r.ser \in Path \cup Nat
            OBVIOUS
        <3> QED
            BY <1>3, <3>1, <3>2, MadeTree
    <2> QED
        BY <2>1, <2>2
<1>8. ASSUME NEW p \in Path, MkDir(p) PROVE Done
    <2>1. CASE KeepTree
        BY <1>1, <2>1
    <2>2. CASE ~ KeepTree
        <3>1. /\ KindOf(p) = "none" /\ KindOf(Under[p]) = "dir"
              /\ SetTree([tree EXCEPT ![p] = [kind |-> "dir", ino |-> 0]])
            BY <1>8, <2>2 DEF MkDir, Refuse
        <3>2. 0 \in Path \cup Nat
            OBVIOUS
        <3> QED
            BY <1>3, <3>1, <3>2, MadeTree
    <2> QED
        BY <2>1, <2>2
<1>9. ASSUME NEW p \in Path, NEW kinds, Unlink(p, kinds) PROVE Done
    BY <1>2, <1>3, <1>9, UnlinkedTree DEF Unlink
<1>10. ASSUME NEW p \in Path, NEW q \in Path, NEW replace, Rename(p, q, replace) PROVE Done
    <2>1. CASE KeepTree
        BY <1>1, <2>1
    <2>2. CASE ~ KeepTree
        <3>1. /\ KindOf(p) \in {"file", "link"} /\ KindOf(Under[q]) = "dir" /\ KindOf(q) # "dir"
              /\ SetTree([tree EXCEPT ![p] = Nothing, ![q] = tree[p]])
            BY <1>10, <2>2 DEF Rename, Refuse
        <3> QED
            BY <1>3, <3>1, RenamedTree
    <2> QED
        BY <2>1, <2>2
<1>11. ASSUME NEW p \in Path, NEW q \in Path, Extended(p, q) PROVE Done
    BY <1>2, <1>10, <1>11 DEF Extended
<1> HIDE DEF Done
<1>12. Done
    <2>1. /\ r.op \in {"MKDIR", "REMOVE", "RMDIR"} => r.arg \in Path
          /\ r.op = "OPEN" => r.arg[1] \in Path
          /\ r.op \in {"RENAME", "POSIX_RENAME"} => r.arg[1] \in Path /\ r.arg[2] \in Path
        BY DEF ArgsRight
    <2>2. \/ Stat(r.arg) \/ OpenDir(r.arg) \/ ReadLink(r.arg)
          \/ ReadDir(r.arg) \/ Close(r.arg)
          \/ Read(r.arg[1], r.arg[2], r.arg[3]) \/ Write(r.arg[1], r.arg[2], r.arg[3])
          \/ r.op = "OPEN" /\ Open(r.arg[1], r.arg[2])
          \/ r.op = "MKDIR" /\ MkDir(r.arg)
          \/ r.op = "REMOVE" /\ Unlink(r.arg, Kind \ {"dir"})
          \/ r.op = "RMDIR" /\ Unlink(r.arg, {"dir"})
          \/ r.op = "RENAME" /\ Rename(r.arg[1], r.arg[2], FALSE)
          \/ r.op = "POSIX_RENAME" /\ Extended(r.arg[1], r.arg[2])
        BY DEF Serve
    <2> QED
        BY <1>4, <1>5, <1>6, <1>7, <1>8, <1>9, <1>10, <1>11, <2>1, <2>2
<1> QED
    BY <1>0, <1>12

LEMMA EnvironmentTree ==
    ASSUME SftpInv, Environment
    PROVE  TreeTypes'
<1>1. TreeTypes
    BY DEF SftpInv, TypeOK, TreeTypes
<1>2. CASE Serve
    <2>1. req # <<>> /\ IsSeq(req)
        BY <1>2 DEF Serve, SftpInv, Shape
    <2>2. 1 \in DOMAIN req /\ Head(req) = req[1]
        BY <2>1, TailSeq
    <2>3. req[1].op \in Op /\ req[1].ser \in Nat /\ ArgsRight(req[1])
        BY <2>2 DEF SftpInv, TypeOK, IsRequest, Shape
    <2> QED
        BY <1>1, <1>2, <2>2, <2>3, ServedTree
<1>3. CASE Fail
    BY <1>1, <1>3, ServerAssumption DEF TreeTypes, Fail, Refuse, KeepTree, Consistent
<1>4. CASE HangUp
    <2>1. up' \in BOOLEAN /\ tree' = tree /\ changes' = changes
        BY <1>4 DEF HangUp
    <2>2. faults' \in 0 .. MaxFaults
        BY <1>1, <1>4, ServerAssumption DEF HangUp, TreeTypes
    <2> QED
        BY <1>1, <2>1, <2>2 DEF TreeTypes, Consistent
<1>5. ASSUME NEW p \in Path, Change(p)
      PROVE  TreeTypes'
    <2>1. PICK k \in Kind \ {tree[p].kind} :
             LET t == [tree EXCEPT ![p] = [kind |-> k, ino |-> IF k = "file" THEN p ELSE 0]]
             IN Consistent(t) /\ SetTree(t)
        BY <1>5 DEF Change
    <2> DEFINE n == [kind |-> k, ino |-> IF k = "file" THEN p ELSE 0]
               t == [tree EXCEPT ![p] = n]
    <2>2. n \in Node
        BY ServerAssumption DEF Node
    <2> HIDE DEF n
    <2>3. t \in [Path -> Node]
        BY <1>1, <2>2 DEF TreeTypes
    <2>4. Consistent(t) /\ tree' = t
        BY <2>1 DEF SetTree, n
    <2>5. up' = up /\ changes' \in 0 .. MaxChanges /\ faults' = faults
        BY <1>1, <1>5, ServerAssumption DEF Change, TreeTypes
    <2> QED
        BY <1>1, <2>3, <2>4, <2>5 DEF TreeTypes, Consistent
<1> QED
    BY <1>2, <1>3, <1>4, <1>5 DEF Environment

----------------------------------------------------------------------------
(***************************************************************************)
(* Requests and replies on their way.                                      *)
(***************************************************************************)
LEMMA TicketFields ==
    ASSUME NEW r
    PROVE  Ticket(r).id = r.id /\ Ticket(r).ser = r.ser
BY DEF Ticket

LEMMA OfTail ==
    ASSUME NEW s, IsSeq(s), s # <<>>, Single(s)
    PROVE  /\ Ticket(s[1]) \in Of(s) /\ Of(Tail(s)) \subseteq Of(s)
           /\ \A t \in Of(Tail(s)) : t.ser # s[1].ser
           /\ Single(Tail(s))
<1>1. /\ IsSeq(Tail(s)) /\ 1 \in DOMAIN s
      /\ \A i \in DOMAIN Tail(s) : i + 1 \in DOMAIN s /\ Tail(s)[i] = s[i + 1] /\ i \in Nat \ {0}
    <2>1. IsSeq(Tail(s))
        BY TailSeq
    <2> QED
        BY <2>1, TailSeq, SeqLength
<1>2. \A i \in DOMAIN Tail(s) : s[i + 1].ser # s[1].ser
    BY <1>1 DEF Single
<1>3. Single(Tail(s))
    BY <1>1 DEF Single
<1>4. Ticket(s[1]) \in Of(s) /\ Of(Tail(s)) \subseteq Of(s)
    BY <1>1 DEF Of
<1>5. \A t \in Of(Tail(s)) : t.ser # s[1].ser
    BY <1>1, <1>2, TicketFields DEF Of
<1> QED
    BY <1>3, <1>4, <1>5

LEMMA OfAppend ==
    ASSUME NEW s, IsSeq(s), Single(s), NEW r, \A t \in Of(s) : t.ser # r.ser
    PROVE  Of(Append(s, r)) \subseteq Of(s) \cup {Ticket(r)} /\ Single(Append(s, r))
<1>1. /\ DOMAIN Append(s, r) = DOMAIN s \cup {Len(s) + 1}
      /\ \A i \in DOMAIN s : Append(s, r)[i] = s[i]
      /\ Append(s, r)[Len(s) + 1] = r
    BY AppendSeq
<1>2. \A i \in DOMAIN s : s[i].ser # r.ser
    BY TicketFields DEF Of
<1> DEFINE a == Append(s, r)
<1>3. DOMAIN a = DOMAIN s \cup {Len(s) + 1} /\ a[Len(s) + 1] = r
      /\ \A i \in DOMAIN s : a[i] = s[i]
    BY <1>1
<1> HIDE DEF a
<1>4. Single(a)
    BY <1>2, <1>3 DEF Single
<1>5. Of(a) \subseteq Of(s) \cup {Ticket(r)}
    BY <1>3 DEF Of
<1> QED
    BY <1>4, <1>5 DEF a

LEMMA OfRemoveAt ==
    ASSUME NEW s, IsSeq(s), Single(s), NEW k \in DOMAIN s
    PROVE  /\ Ticket(s[k]) \in Of(s) /\ Of(RemoveAt(s, k)) \subseteq Of(s)
           /\ \A t \in Of(RemoveAt(s, k)) : t.ser # s[k].ser
           /\ Single(RemoveAt(s, k))
<1> DEFINE j(i) == IF i < k THEN i ELSE i + 1
           a == RemoveAt(s, k)
<1>1. \A i \in DOMAIN a : j(i) \in DOMAIN s \ {k} /\ i \in Nat /\ a[i] = s[j(i)]
    BY RemoveAtSeq
<1>2. k \in Nat
    BY SeqLength
<1> HIDE DEF a
<1>3. \A x, y \in DOMAIN a : j(x) = j(y) => x = y
    BY <1>1, <1>2
<1> HIDE DEF j
<1>4. \A i \in DOMAIN a : a[i].ser # s[k].ser
    BY <1>1 DEF Single
<1>5. Single(a)
    BY <1>1, <1>3 DEF Single
<1>6. Ticket(s[k]) \in Of(s) /\ Of(a) \subseteq Of(s)
    BY <1>1 DEF Of
<1>7. \A t \in Of(a) : t.ser # s[k].ser
    BY <1>4, TicketFields DEF Of
<1> QED
    BY <1>5, <1>6, <1>7 DEF a

\* The next request to be sent.
LEMMA PosedTail ==
    ASSUME NEW s, IsSeq(s), s # <<>>, \A i, j \in Posed(s) : s[i].ser = s[j].ser => i = j
    PROVE  /\ \A i, j \in Posed(Tail(s)) : Tail(s)[i].ser = Tail(s)[j].ser => i = j
           /\ \A i \in Posed(Tail(s)) : i + 1 \in Posed(s) /\ Tail(s)[i] = s[i + 1]
           /\ Head(s).op # "flush" =>
                 /\ 1 \in Posed(s) /\ Head(s) = s[1]
                 /\ \A i \in Posed(Tail(s)) : Tail(s)[i].ser # s[1].ser
<1> DEFINE a == Tail(s)
<1>1. /\ 1 \in DOMAIN s /\ Head(s) = s[1]
      /\ \A i \in DOMAIN a : i + 1 \in DOMAIN s /\ a[i] = s[i + 1] /\ i \in Nat \ {0}
    <2>1. IsSeq(a)
        BY TailSeq
    <2> QED
        BY <2>1, TailSeq, SeqLength
<1> HIDE DEF a
<1>2. \A i \in Posed(a) : i + 1 \in Posed(s) /\ a[i] = s[i + 1] /\ i \in Nat \ {0}
    BY <1>1 DEF Posed
<1>3. \A i, j \in Posed(a) : a[i].ser = a[j].ser => i = j
    <2> SUFFICES ASSUME NEW i \in Posed(a), NEW j \in Posed(a), a[i].ser = a[j].ser
                 PROVE  i = j
        OBVIOUS
    <2>1. i + 1 = j + 1
        BY <1>2
    <2> QED
        BY <2>1, <1>2
<1>4. ASSUME Head(s).op # "flush"
      PROVE  1 \in Posed(s) /\ \A i \in Posed(a) : a[i].ser # s[1].ser
    <2>1. 1 \in Posed(s)
        BY <1>1, <1>4 DEF Posed
    <2>2. ASSUME NEW i \in Posed(a), a[i].ser = s[1].ser
          PROVE  FALSE
        <3>1. i + 1 = 1
            BY <1>2, <2>1, <2>2
        <3> QED
            BY <3>1, <1>2
    <2> QED
        BY <2>1, <2>2
<1> QED
    BY <1>1, <1>2, <1>3, <1>4 DEF a

LEMMA OfSendTail ==
    ASSUME IsSeq(send), send # <<>>, send' = Tail(send),
           \A i, j \in Asking : send[i].ser = send[j].ser => i = j
    PROVE  /\ OfSend' \subseteq OfSend
           /\ \A i, j \in Asking' : send'[i].ser = send'[j].ser => i = j
           /\ Head(send).op # "flush" =>
                 /\ Ticket(Head(send)) \in OfSend
                 /\ \A t \in OfSend' : t.ser # Head(send).ser
<1> DEFINE a == Tail(send)
           s == send
<1>1. IsSeq(s) /\ s # <<>> /\ \A i, j \in Posed(s) : s[i].ser = s[j].ser => i = j
    BY DEF Asking
<1>2. /\ \A i, j \in Posed(a) : a[i].ser = a[j].ser => i = j
      /\ \A i \in Posed(a) : i + 1 \in Posed(s) /\ a[i] = s[i + 1]
      /\ Head(s).op # "flush" =>
            /\ 1 \in Posed(s) /\ Head(s) = s[1]
            /\ \A i \in Posed(a) : a[i].ser # s[1].ser
    BY <1>1, PosedTail, Zenon
<1>3. /\ OfSend' = {Ticket(a[i]) : i \in Posed(a)} /\ OfSend = {Ticket(s[i]) : i \in Posed(s)}
      /\ Asking' = Posed(a) /\ send' = a
    BY Zenon DEF OfSend, Asking
<1> HIDE DEF a
<1>4. OfSend' \subseteq OfSend
    BY <1>2, <1>3
<1>5. Head(s).op # "flush" =>
         Ticket(Head(s)) \in OfSend /\ \A t \in OfSend' : t.ser # Head(s).ser
    BY <1>2, <1>3, TicketFields
<1> QED
    BY <1>2, <1>3, <1>4, <1>5, ZenonT(60)

\* Received replies that are let go leave the others in their places.
LEMMA OfReplies ==
    ASSUME DOMAIN replies' \subseteq DOMAIN replies,
           \A i \in DOMAIN replies' : replies'[i] = replies[i], Single(replies)
    PROVE  Of(replies') \subseteq Of(replies) /\ Single(replies')
BY DEF Of, Single

PipeTypes ==
    /\ IsSeq(send) /\ IsSeq(outbuf) /\ IsSeq(req) /\ IsSeq(rep)
    /\ \A i \in Asking : IsRequest(send[i]) /\ ArgsRight(send[i])
    /\ \A i \in DOMAIN outbuf : IsRequest(outbuf[i]) /\ ArgsRight(outbuf[i])
    /\ Len(req) <= ReqCap /\ \A i \in DOMAIN req : IsRequest(req[i]) /\ ArgsRight(req[i])
    /\ Len(rep) <= RepCap /\ \A i \in DOMAIN rep : IsReply(rep[i])

ReplyTypes == \A i \in DOMAIN replies : IsReply(replies[i]) /\ replies[i].id = i

NumberTypes ==
    /\ id \in 0 .. (IdMod - 1) /\ serial \in Nat /\ ignored \subseteq Id
    /\ \A t \in Expected : Issued(t)

Basic == PipeTypes /\ ReplyTypes /\ NumberTypes /\ TreeTypes /\ LocalTypes

LEMMA PartsOfInv ==
    ASSUME SftpInv
    PROVE  Basic /\ OnePlace
BY LocalTypesNow DEF SftpInv, TypeOK, Shape, Basic, PipeTypes, ReplyTypes, NumberTypes,
                     TreeTypes, Asking, Posed

\* No request is twice in the output buffer and the pipe.
LEMMA NoneTwice ==
    ASSUME IsSeq(outbuf), IsSeq(req), OnePlace
    PROVE  NoDuplicates(outbuf \o req)
<1>1. PICK S : outbuf \in Seq(S)
    BY DEF IsSeq
<1>2. PICK T : req \in Seq(T)
    BY DEF IsSeq
<1> DEFINE U == S \cup T
<1>3. outbuf \in Seq(U) /\ req \in Seq(U)
    BY <1>1, <1>2, SeqMonotonic
<1> HIDE DEF U
<1> DEFINE c == outbuf \o req
           m == Len(outbuf)
           n == Len(req)
<1>4. /\ c \in Seq(U) /\ Len(c) = m + n
      /\ \A i \in 1 .. m + n : c[i] = IF i <= m THEN outbuf[i] ELSE req[i - m]
    BY <1>3, ConcatProperties
<1>5. /\ m \in Nat /\ DOMAIN outbuf = 1 .. m /\ n \in Nat /\ DOMAIN req = 1 .. n
    BY SeqLength
<1>6. DOMAIN c = 1 .. m + n
    BY <1>4, LenProperties
<1> HIDE DEF c, m, n
<1>7. ASSUME NEW i \in DOMAIN c
      PROVE  \/ i <= m /\ i \in DOMAIN outbuf /\ c[i] = outbuf[i]
             \/ ~ (i <= m) /\ i - m \in DOMAIN req /\ c[i] = req[i - m]
    BY <1>4, <1>5, <1>6
<1>8. ASSUME NEW i \in DOMAIN outbuf, NEW j \in DOMAIN req
      PROVE  outbuf[i].ser # req[j].ser
    <2>1. Ticket(outbuf[i]) \in Of(outbuf) /\ Ticket(req[j]) \in Of(req)
        BY DEF Of
    <2> QED
        BY <2>1, TicketFields DEF OnePlace, Apart
<1>9. ASSUME NEW i \in DOMAIN c, NEW j \in DOMAIN c, c[i].ser = c[j].ser
      PROVE  i = j
    <2>1. CASE i <= m /\ j <= m
        BY <2>1, <1>7, <1>9 DEF OnePlace, Single
    <2>2. CASE ~ (i <= m) /\ ~ (j <= m)
        <3>1. i - m = j - m
            BY <2>2, <1>7, <1>9 DEF OnePlace, Single
        <3> QED
            BY <3>1, <1>5, <1>6
    <2>3. CASE i <= m /\ ~ (j <= m)
        BY <2>3, <1>7, <1>8, <1>9
    <2>4. CASE ~ (i <= m) /\ j <= m
        BY <2>4, <1>7, <1>8, <1>9
    <2> QED
        BY <2>1, <2>2, <2>3, <2>4
<1>10. NoDuplicates(c)
    BY <1>9 DEF NoDuplicates
<1> QED
    BY <1>10 DEF c

LEMMA InvOfParts ==
    ASSUME Basic, OnePlace
    PROVE  SftpInv
<1>1. NoDuplicates(outbuf \o req)
    BY NoneTwice DEF Basic, PipeTypes
<1>2. TypeOK
    BY <1>1 DEF Basic, PipeTypes, ReplyTypes, NumberTypes, TreeTypes, LocalTypes, CacheTypes,
                FileTypes, CallTypes, TypeOK, Asking, Posed
<1>3. Shape
    BY DEF Basic, PipeTypes, NumberTypes, LocalTypes, CacheTypes, FileTypes, CallTypes, Shape
<1> QED
    BY <1>2, <1>3 DEF SftpInv, Basic, LocalTypes

----------------------------------------------------------------------------
(***************************************************************************)
(* Types, and one place for each request, at every step.                   *)
(***************************************************************************)
\* Serial numbers of what is on its way are those of requests made so far.
LEMMA SerialsMade ==
    ASSUME Basic
    PROVE  /\ \A t \in Travelling : t.ser \in 1 .. serial /\ t.id \in Id
           /\ \A t \in Expected : t.ser \in 1 .. serial /\ t.id \in Id
<1>1. \A i \in Asking : Ticket(send[i]).ser \in 1 .. serial /\ Ticket(send[i]).id \in Id
    BY TicketFields DEF Basic, PipeTypes, IsRequest
<1>2. \A i \in DOMAIN outbuf : Ticket(outbuf[i]).ser \in 1 .. serial /\ Ticket(outbuf[i]).id \in Id
    BY TicketFields DEF Basic, PipeTypes, IsRequest
<1>3. \A i \in DOMAIN req : Ticket(req[i]).ser \in 1 .. serial /\ Ticket(req[i]).id \in Id
    BY TicketFields DEF Basic, PipeTypes, IsRequest
<1>4. \A i \in DOMAIN rep : Ticket(rep[i]).ser \in 1 .. serial /\ Ticket(rep[i]).id \in Id
    BY TicketFields DEF Basic, PipeTypes, IsReply
<1>5. \A i \in DOMAIN replies : Ticket(replies[i]).ser \in 1 .. serial /\ Ticket(replies[i]).id \in Id
    BY TicketFields DEF Basic, ReplyTypes, IsReply
<1>6. \A t \in Travelling : t.ser \in 1 .. serial /\ t.id \in Id
    BY <1>1, <1>2, <1>3, <1>4, <1>5 DEF Travelling, OfSend, Of
<1>7. \A t \in Expected : t.ser \in 1 .. serial /\ t.id \in Id
    BY DEF Basic, NumberTypes, Issued, Tickets
<1> QED
    BY <1>6, <1>7

LEMMA HandledInv ==
    ASSUME SftpInv, Handled
    PROVE  SftpInv'
<1>0. Basic /\ OnePlace /\ serial \in Nat /\ id \in 0 .. (IdMod - 1)
    BY PartsOfInv DEF Basic, NumberTypes
<1>1. PICK n \in Nat : Asks(n)
    BY DEF Handled
<1>2. Fresh(n) /\ serial' = serial + n /\ send = <<>> /\ IsSeq(send')
    BY <1>1 DEF Asks, Fresh
<1>3. UNCHANGED <<up, req, rep, tree, changes, faults, outbuf>> /\ Lets /\ LocalTypes'
    BY DEF Handled, ServerAlone
<1>4. \A i \in Asking' :
         /\ send'[i].op \in Op /\ send'[i].id \in Id
         /\ send'[i].ser \in serial + 1 .. serial + n /\ ArgsRight(send'[i])
    BY <1>2 DEF Fresh, Asking, Posed
<1>5. \A i, j \in Asking' : send'[i].ser = send'[j].ser => i = j
    BY <1>2 DEF Fresh, Asking, Posed
<1>6. \A t \in OfSend' : t \in Tickets /\ t.ser \in serial + 1 .. serial + n
    <2>1. \A i \in Asking' : Ticket(send'[i]) \in Tickets
                             /\ Ticket(send'[i]).ser \in serial + 1 .. serial + n
        BY <1>0, <1>4 DEF Tickets, Ticket
    <2> QED
        BY <2>1 DEF OfSend
<1>7. PipeTypes'
    <2>1. \A i \in Asking' : IsRequest(send[i])' /\ ArgsRight(send[i])'
        BY <1>0, <1>2, <1>4 DEF IsRequest, ArgsRight
    <2>2. \A i \in DOMAIN outbuf : IsRequest(outbuf[i])' /\ ArgsRight(outbuf[i])'
        BY <1>0, <1>2, <1>3 DEF Basic, PipeTypes, IsRequest, ArgsRight
    <2>3. \A i \in DOMAIN req : IsRequest(req[i])' /\ ArgsRight(req[i])'
        BY <1>0, <1>2, <1>3 DEF Basic, PipeTypes, IsRequest, ArgsRight
    <2>4. \A i \in DOMAIN rep : IsReply(rep[i])'
        BY <1>0, <1>2, <1>3 DEF Basic, PipeTypes, IsReply
    <2> QED
        BY <1>0, <1>2, <1>3, <2>1, <2>2, <2>3, <2>4 DEF Basic, PipeTypes
<1>8. ReplyTypes'
    BY <1>0, <1>2, <1>3 DEF Basic, ReplyTypes, IsReply, Lets
<1>9. NumberTypes'
    <2>1. id' \in 0 .. (IdMod - 1)
        <3>1. CASE id' = id
            BY <3>1, <1>0
        <3>2. CASE id' # id
            <4>1. id' = (NewId(n) + 1) % IdMod
                BY <3>2, <1>1 DEF Asks, Drawn
            <4>2. NewId(n) + 1 \in Int /\ IdMod \in Nat \ {0}
                BY <1>0, NewIdType, ClientAssumption DEF Id
            <4> QED
                BY <4>1, <4>2, Mod
        <3> QED
            BY <3>1, <3>2
    <2>2. \A t \in Expected' : Issued(t)'
        BY <1>0, <1>1, <1>2, <1>6 DEF Asks, Basic, NumberTypes, Issued
    <2> QED
        BY <1>0, <1>2, <1>3, <2>1, <2>2 DEF NumberTypes, Lets
<1>10. TreeTypes'
    BY <1>0, <1>3 DEF Basic, TreeTypes, Consistent
<1>11. OnePlace'
    <2>1. Of(replies') \subseteq Of(replies) /\ Single(replies')
        BY <1>0, <1>3, OfReplies DEF OnePlace, Lets
    <2>2. \A t \in Of(outbuf) \cup Of(req) \cup Of(rep) \cup Of(replies) : t.ser \in 1 .. serial
        BY <1>0, SerialsMade DEF Travelling
    <2>3. \A s \in OfSend', t \in Of(outbuf) \cup Of(req) \cup Of(rep) \cup Of(replies) :
             s.ser # t.ser
        BY <1>0, <1>6, <2>2
    <2>4. Of(outbuf)' = Of(outbuf) /\ Of(req)' = Of(req) /\ Of(rep)' = Of(rep)
          /\ Of(replies)' = Of(replies')
          /\ Single(outbuf)' = Single(outbuf) /\ Single(req)' = Single(req)
          /\ Single(rep)' = Single(rep) /\ Single(replies)' = Single(replies')
        BY <1>3 DEF Of, Single
    <2> QED
        BY <1>0, <1>5, <2>1, <2>3, <2>4 DEF OnePlace, Apart
<1> QED
    BY <1>3, <1>7, <1>8, <1>9, <1>10, <1>11, InvOfParts, PTL DEF Basic

\* Steps that make no request leave what nobody awaits alone.
LEMMA SameNumbers ==
    ASSUME Basic, UNCHANGED <<id, serial>>, Expected' \subseteq Expected, ignored' \subseteq Id
    PROVE  NumberTypes'
BY DEF Basic, NumberTypes, Issued

LEMMA SameTree ==
    ASSUME Basic, UNCHANGED <<up, tree, changes, faults>>
    PROVE  TreeTypes'
BY DEF Basic, TreeTypes, Consistent

LEMMA SameLocal ==
    ASSUME Basic, UNCHANGED <<inflight, existence, file, wait, got, posix_rename, calls, call>>,
           alive' \in BOOLEAN, call = Idle => send' = <<>>
    PROVE  LocalTypes' /\ Expected' = Expected
<1>1. LocalTypes
    BY DEF Basic
<1>2. CacheTypes' /\ FileTypes' /\ CallTypes'
    BY <1>1 DEF LocalTypes, CacheTypes, FileTypes, CallTypes
<1>3. Progress'
    BY <1>1 DEF LocalTypes, Progress
<1>4. Expected' = Expected
    BY DEF Expected, Kept
<1> QED
    BY <1>2, <1>3, <1>4 DEF LocalTypes

\* A step that makes no request, and takes none in or out of the program's
\* accounts.
Quiet ==
    /\ UNCHANGED <<id, serial, wait, got>> /\ Kept' = Kept
    /\ call' = call \/ call'.op # "contents"
    /\ Travelling' \subseteq Travelling

LEMMA PollInv ==
    ASSUME SftpInv, Poll
    PROVE  SftpInv' /\ Quiet
<1>0. Basic /\ OnePlace
    BY PartsOfInv
<1>1. IsSeq(rep) /\ rep # <<>>
    BY <1>0 DEF Basic, PipeTypes, Poll
<1>2. PICK k \in DOMAIN rep :
         /\ rep' = RemoveAt(rep, k)
         /\ \/ /\ rep[k].id \in ignored
               /\ ignored' = ignored \ {rep[k].id} /\ UNCHANGED replies
            \/ /\ rep[k].id \notin ignored
               /\ replies' = Put(replies, rep[k].id, rep[k]) /\ UNCHANGED ignored
    <2>1. 1 \in DOMAIN rep
        BY <1>1, TailSeq
    <2> QED
        BY <2>1 DEF Poll
<1>3. UNCHANGED <<up, req, tree, changes, faults, id, serial, round, cache, posix_rename,
                  file, call, alive, calls>>
    BY DEF Poll
<1> DEFINE r == rep[k]
<1>4. /\ IsSeq(rep') /\ Len(rep') = Len(rep) - 1
      /\ \A i \in DOMAIN rep' : \E j \in DOMAIN rep : rep'[i] = rep[j]
    BY <1>1, <1>2, RemoveAtSeq
<1>5. IsReply(r)
    BY <1>0 DEF Basic, PipeTypes
<1>6. PipeTypes'
    <2>1. \A i \in DOMAIN rep' : IsReply(rep[i])'
        BY <1>0, <1>3, <1>4 DEF Basic, PipeTypes, IsReply
    <2>2. Len(rep) \in Nat /\ RepCap \in Nat
        BY <1>1, SeqLength, ServerAssumption
    <2>3. UNCHANGED <<send, outbuf, req, serial, Asking>>
        BY <1>3 DEF round, Asking
    <2>4. /\ \A i \in Asking' : IsRequest(send[i])' /\ ArgsRight(send[i])'
          /\ \A i \in DOMAIN outbuf' : IsRequest(outbuf[i])' /\ ArgsRight(outbuf[i])'
          /\ \A i \in DOMAIN req' : IsRequest(req[i])' /\ ArgsRight(req[i])'
        BY <1>0, <2>3 DEF Basic, PipeTypes, IsRequest, ArgsRight
    <2> QED
        BY <1>0, <1>4, <2>1, <2>2, <2>3, <2>4 DEF Basic, PipeTypes
<1>7. /\ \A i \in DOMAIN replies' : (i \in DOMAIN replies /\ replies'[i] = replies[i])
                                    \/ (i = r.id /\ replies'[i] = r)
    <2>1. CASE UNCHANGED replies
        BY <2>1
    <2>2. CASE replies' = Put(replies, r.id, r)
        BY <2>2 DEF Put
    <2> QED
        BY <1>2, <2>1, <2>2
<1>8. ReplyTypes'
    BY <1>0, <1>3, <1>5, <1>7 DEF Basic, ReplyTypes, IsReply
<1>9. LocalTypes' /\ Expected' = Expected
    <2>1. call = Idle => send' = <<>>
        BY <1>0, <1>3 DEF Basic, LocalTypes, Progress, round
    <2>2. alive' \in BOOLEAN
        BY <1>0, <1>3 DEF Basic, LocalTypes, CallTypes
    <2> QED
        BY <1>0, <1>3, <2>1, <2>2, SameLocal DEF round, cache
<1>10. NumberTypes' /\ TreeTypes'
    <2>1. ignored' \subseteq Id
        BY <1>0, <1>2 DEF Basic, NumberTypes
    <2> QED
        BY <1>0, <1>3, <1>9, <2>1, SameNumbers, SameTree
<1>11. OnePlace' /\ Travelling' \subseteq Travelling
    <2>1. /\ Ticket(r) \in Of(rep) /\ Of(rep') \subseteq Of(rep)
          /\ \A t \in Of(rep') : t.ser # r.ser
          /\ Single(rep')
        BY <1>0, <1>1, <1>2, OfRemoveAt DEF OnePlace
    <2>2. Of(replies') \subseteq Of(replies) \cup {Ticket(r)}
        BY <1>7 DEF Of
    <2>3. \A t \in Of(replies) : t.ser # r.ser
        BY <1>0, <2>1, TicketFields DEF OnePlace, Apart
    <2>4. Single(replies')
        <3>1. \A i \in DOMAIN replies : replies[i].ser # r.ser
            BY <2>3, TicketFields DEF Of
        <3> QED
            BY <1>0, <1>7, <3>1 DEF OnePlace, Single
    <2>5. OfSend' = OfSend /\ Of(outbuf)' = Of(outbuf) /\ Of(req)' = Of(req)
          /\ Of(rep)' = Of(rep') /\ Of(replies)' = Of(replies')
          /\ Single(outbuf)' = Single(outbuf) /\ Single(req)' = Single(req)
          /\ Single(rep)' = Single(rep') /\ Single(replies)' = Single(replies')
          /\ Asking' = Asking /\ send' = send
        BY <1>3 DEF Of, OfSend, Asking, Single, round
    <2>6. Ticket(r).ser = r.ser
        BY TicketFields
    <2>7. Travelling' \subseteq Travelling
        BY <2>1, <2>2, <2>5 DEF Travelling
    <2> QED
        BY <1>0, <2>1, <2>2, <2>3, <2>4, <2>5, <2>6, <2>7 DEF OnePlace, Apart
<1>12. SftpInv'
    BY <1>6, <1>8, <1>9, <1>10, <1>11, InvOfParts, PTL DEF Basic
<1>13. Quiet
    BY <1>3, <1>11 DEF Quiet, Kept, round, cache
<1> QED
    BY <1>12, <1>13

\* What still has to be sent had to be sent before.
LEMMA SendShrinks ==
    ASSUME Basic, OnePlace, send' = send \/ (send # <<>> /\ send' = Tail(send))
    PROVE  /\ IsSeq(send') /\ \A i \in Asking' : \E j \in Asking : send'[i] = send[j]
           /\ OfSend' \subseteq OfSend
           /\ \A i, j \in Asking' : send'[i].ser = send'[j].ser => i = j
<1>1. IsSeq(send) /\ \A i, j \in Asking : send[i].ser = send[j].ser => i = j
    BY DEF Basic, PipeTypes, OnePlace
<1>2. CASE send' = send
    BY <1>1, <1>2 DEF Asking, OfSend
<1>3. CASE send # <<>> /\ send' = Tail(send)
    <2>1. \A i \in Posed(Tail(send)) : i + 1 \in Posed(send) /\ Tail(send)[i] = send[i + 1]
        BY <1>1, <1>3, PosedTail DEF Asking
    <2>2. \A i \in Posed(send') : \E j \in Posed(send) : send'[i] = send[j]
        BY <1>3, <2>1
    <2>3. IsSeq(send')
        BY <1>1, <1>3, TailSeq
    <2> QED
        BY <1>1, <1>3, <2>2, <2>3, OfSendTail DEF Asking
<1> QED
    BY <1>2, <1>3

LEMMA PutInv ==
    ASSUME SftpInv, PutRequest
    PROVE  SftpInv' /\ Quiet
<1> DEFINE r == Head(send)
<1>0. Basic /\ OnePlace
    BY PartsOfInv
<1>1. /\ send # <<>> /\ r.op # "flush" /\ send' = Tail(send) /\ outbuf' = Append(outbuf, r)
      /\ UNCHANGED <<up, req, rep, tree, changes, faults, id, serial, wait, got, cache,
                     posix_rename, file, call, alive, calls>>
    BY DEF PutRequest, MayPut, Sending, svars
<1>2. IsSeq(send) /\ IsSeq(outbuf)
    BY <1>0 DEF Basic, PipeTypes
<1>3. 1 \in Asking /\ r = send[1]
    <2>1. 1 \in DOMAIN send /\ r = send[1]
        BY <1>1, <1>2, TailSeq
    <2> QED
        BY <1>1, <2>1 DEF Asking, Posed
<1>4. IsRequest(r) /\ ArgsRight(r)
    BY <1>0, <1>3 DEF Basic, PipeTypes
<1>5. /\ IsSeq(send') /\ \A i \in Asking' : \E j \in Asking : send'[i] = send[j]
      /\ OfSend' \subseteq OfSend
      /\ \A i, j \in Asking' : send'[i].ser = send'[j].ser => i = j
    BY <1>0, <1>1, SendShrinks
<1>6. Ticket(r) \in OfSend /\ \A t \in OfSend' : t.ser # r.ser
    BY <1>0, <1>1, <1>2, OfSendTail DEF OnePlace
<1>7. Lets
    <2>1. CASE Ignore({r.id})
        BY <1>4, <2>1, IgnoreLets DEF IsRequest
    <2>2. CASE UNCHANGED <<replies, ignored>>
        BY <2>2, LocalTypesNow
    <2> QED
        BY <2>1, <2>2 DEF PutRequest
<1> HIDE DEF r
<1>8. /\ IsSeq(outbuf')
      /\ \A i \in DOMAIN outbuf' : outbuf'[i] = r \/ \E j \in DOMAIN outbuf : outbuf'[i] = outbuf[j]
    BY <1>1, <1>2, AppendSeq
<1>9. PipeTypes'
    <2>1. \A i \in Asking' : IsRequest(send[i])' /\ ArgsRight(send[i])'
        BY <1>0, <1>1, <1>5 DEF Basic, PipeTypes, IsRequest, ArgsRight
    <2>2. \A i \in DOMAIN outbuf' : IsRequest(outbuf[i])' /\ ArgsRight(outbuf[i])'
        BY <1>0, <1>1, <1>4, <1>8 DEF Basic, PipeTypes, IsRequest, ArgsRight
    <2>3. \A i \in DOMAIN req' : IsRequest(req[i])' /\ ArgsRight(req[i])'
        BY <1>0, <1>1 DEF Basic, PipeTypes, IsRequest, ArgsRight
    <2>4. \A i \in DOMAIN rep' : IsReply(rep[i])'
        BY <1>0, <1>1 DEF Basic, PipeTypes, IsReply
    <2> QED
        BY <1>0, <1>1, <1>5, <1>8, <2>1, <2>2, <2>3, <2>4 DEF Basic, PipeTypes
<1>10. ReplyTypes'
    BY <1>0, <1>1, <1>7 DEF Basic, ReplyTypes, IsReply, Lets
<1>11. LocalTypes' /\ Expected' = Expected
    <2>1. call = Idle => send' = <<>>
        BY <1>0, <1>1 DEF Basic, LocalTypes, Progress
    <2>2. alive' \in BOOLEAN
        BY <1>0, <1>1 DEF Basic, LocalTypes, CallTypes
    <2> QED
        BY <1>0, <1>1, <2>1, <2>2, SameLocal DEF cache
<1>12. NumberTypes' /\ TreeTypes'
    BY <1>0, <1>1, <1>7, <1>11, SameNumbers, SameTree DEF Lets
<1>13. OnePlace' /\ Travelling' \subseteq Travelling
    <2>1. \A t \in Of(outbuf) : t.ser # r.ser
        BY <1>0, <1>6, TicketFields DEF OnePlace, Apart
    <2>2. Of(outbuf') \subseteq Of(outbuf) \cup {Ticket(r)} /\ Single(outbuf')
        BY <1>0, <1>1, <1>2, <2>1, OfAppend DEF OnePlace
    <2>3. Of(replies') \subseteq Of(replies) /\ Single(replies')
        BY <1>0, <1>7, OfReplies DEF OnePlace, Lets
    <2>4. /\ Of(outbuf)' = Of(outbuf') /\ Of(req)' = Of(req)
          /\ Of(rep)' = Of(rep) /\ Of(replies)' = Of(replies')
          /\ Single(outbuf)' = Single(outbuf') /\ Single(req)' = Single(req)
          /\ Single(rep)' = Single(rep) /\ Single(replies)' = Single(replies')
        BY <1>1 DEF Of, Single
    <2>5. Ticket(r).ser = r.ser
        BY TicketFields
    <2>6. Travelling' \subseteq Travelling
        BY <1>5, <1>6, <2>2, <2>3, <2>4 DEF Travelling
    <2> QED
        BY <1>0, <1>5, <1>6, <2>2, <2>3, <2>4, <2>5, <2>6 DEF OnePlace, Apart
<1>14. SftpInv'
    BY <1>9, <1>10, <1>11, <1>12, <1>13, InvOfParts, PTL DEF Basic
<1>15. Quiet
    BY <1>1, <1>13 DEF Quiet, Kept, cache
<1> QED
    BY <1>14, <1>15

LEMMA FlushInv ==
    ASSUME SftpInv, FlushRequest
    PROVE  SftpInv' /\ Quiet
<1> DEFINE r == outbuf[1]
<1>0. Basic /\ OnePlace
    BY PartsOfInv
<1>1. /\ outbuf # <<>> /\ Len(req) < ReqCap /\ req' = Append(req, Head(outbuf))
      /\ outbuf' = Tail(outbuf) /\ send # <<>>
      /\ send' = send \/ (send # <<>> /\ send' = Tail(send))
      /\ UNCHANGED <<up, rep, tree, changes, faults, id, serial, replies, ignored, wait, got,
                     cache, posix_rename, file, call, alive, calls>>
    BY DEF FlushRequest, link
<1>2. IsSeq(req) /\ IsSeq(outbuf)
    BY <1>0 DEF Basic, PipeTypes
<1>3. /\ 1 \in DOMAIN outbuf /\ Head(outbuf) = r /\ IsSeq(outbuf')
      /\ \A i \in DOMAIN outbuf' : \E j \in DOMAIN outbuf : outbuf'[i] = outbuf[j]
    BY <1>1, <1>2, TailSeq
<1>4. IsRequest(r) /\ ArgsRight(r)
    BY <1>0, <1>3 DEF Basic, PipeTypes
<1>5. /\ IsSeq(send') /\ \A i \in Asking' : \E j \in Asking : send'[i] = send[j]
      /\ OfSend' \subseteq OfSend
      /\ \A i, j \in Asking' : send'[i].ser = send'[j].ser => i = j
    BY <1>0, <1>1, SendShrinks
<1>6. /\ Ticket(r) \in Of(outbuf) /\ Of(outbuf') \subseteq Of(outbuf)
      /\ \A t \in Of(outbuf') : t.ser # r.ser
      /\ Single(outbuf')
    BY <1>0, <1>1, <1>2, OfTail DEF OnePlace
<1> HIDE DEF r
<1>7. /\ IsSeq(req') /\ Len(req') = Len(req) + 1
      /\ \A i \in DOMAIN req' : req'[i] = r \/ \E j \in DOMAIN req : req'[i] = req[j]
    BY <1>1, <1>2, <1>3, AppendSeq
<1>8. PipeTypes'
    <2>1. \A i \in Asking' : IsRequest(send[i])' /\ ArgsRight(send[i])'
        BY <1>0, <1>1, <1>5 DEF Basic, PipeTypes, IsRequest, ArgsRight
    <2>2. \A i \in DOMAIN outbuf' : IsRequest(outbuf[i])' /\ ArgsRight(outbuf[i])'
        BY <1>0, <1>1, <1>3 DEF Basic, PipeTypes, IsRequest, ArgsRight
    <2>3. \A i \in DOMAIN req' : IsRequest(req[i])' /\ ArgsRight(req[i])'
        BY <1>0, <1>1, <1>4, <1>7 DEF Basic, PipeTypes, IsRequest, ArgsRight
    <2>4. \A i \in DOMAIN rep' : IsReply(rep[i])'
        BY <1>0, <1>1 DEF Basic, PipeTypes, IsReply
    <2>5. Len(req') <= ReqCap
        <3>1. Len(req) \in Nat /\ ReqCap \in Nat
            BY <1>2, SeqLength, ServerAssumption
        <3> QED
            BY <3>1, <1>1, <1>7
    <2> QED
        BY <1>0, <1>1, <1>3, <1>5, <1>7, <2>1, <2>2, <2>3, <2>4, <2>5 DEF Basic, PipeTypes
<1>9. ReplyTypes'
    BY <1>0, <1>1 DEF Basic, ReplyTypes, IsReply
<1>10. LocalTypes' /\ Expected' = Expected
    <2>1. call = Idle => send' = <<>>
        BY <1>0, <1>1 DEF Basic, LocalTypes, Progress
    <2>2. alive' \in BOOLEAN
        BY <1>0, <1>1 DEF Basic, LocalTypes, CallTypes
    <2> QED
        BY <1>0, <1>1, <2>1, <2>2, SameLocal DEF cache
<1>11. NumberTypes' /\ TreeTypes'
    <2>1. ignored' \subseteq Id
        BY <1>0, <1>1 DEF Basic, NumberTypes
    <2> QED
        BY <1>0, <1>1, <1>10, <2>1, SameNumbers, SameTree
<1>12. OnePlace' /\ Travelling' \subseteq Travelling
    <2>1. \A t \in Of(req) : t.ser # r.ser
        BY <1>0, <1>6, TicketFields DEF OnePlace, Apart
    <2>2. Of(req') \subseteq Of(req) \cup {Ticket(r)} /\ Single(req')
        BY <1>0, <1>1, <1>2, <1>3, <2>1, OfAppend DEF OnePlace
    <2>3. /\ Of(outbuf)' = Of(outbuf') /\ Of(req)' = Of(req')
          /\ Of(rep)' = Of(rep) /\ Of(replies)' = Of(replies)
          /\ Single(outbuf)' = Single(outbuf') /\ Single(req)' = Single(req')
          /\ Single(rep)' = Single(rep) /\ Single(replies)' = Single(replies)
        BY <1>1 DEF Of, Single
    <2>4. Ticket(r).ser = r.ser
        BY TicketFields
    <2>5. Travelling' \subseteq Travelling
        BY <1>5, <1>6, <2>2, <2>3 DEF Travelling
    <2> QED
        BY <1>0, <1>5, <1>6, <2>2, <2>3, <2>4, <2>5 DEF OnePlace, Apart
<1>13. SftpInv'
    BY <1>8, <1>9, <1>10, <1>11, <1>12, InvOfParts, PTL DEF Basic
<1>14. Quiet
    BY <1>1, <1>12 DEF Quiet, Kept, cache
<1> QED
    BY <1>13, <1>14


\* Steps of the client that leave the pipes alone.
LEMMA SamePipes ==
    ASSUME Basic, UNCHANGED <<send, outbuf, req, rep, serial>>
    PROVE  PipeTypes' /\ OfSend' = OfSend /\ Asking' = Asking
<1>1. OfSend' = OfSend /\ Asking' = Asking
    BY DEF OfSend, Asking
<1>2. /\ \A i \in Asking' : IsRequest(send[i])' /\ ArgsRight(send[i])'
      /\ \A i \in DOMAIN outbuf' : IsRequest(outbuf[i])' /\ ArgsRight(outbuf[i])'
      /\ \A i \in DOMAIN req' : IsRequest(req[i])' /\ ArgsRight(req[i])'
      /\ \A i \in DOMAIN rep' : IsReply(rep[i])'
    BY <1>1 DEF Basic, PipeTypes, IsRequest, ArgsRight, IsReply
<1> QED
    BY <1>1, <1>2 DEF Basic, PipeTypes

LEMMA SamePlaces ==
    ASSUME OnePlace, UNCHANGED <<send, outbuf, req, rep>>, Of(replies') \subseteq Of(replies),
           Single(replies')
    PROVE  OnePlace' /\ Travelling' \subseteq Travelling
<1>1. /\ OfSend' = OfSend /\ Asking' = Asking
      /\ Of(outbuf)' = Of(outbuf) /\ Of(req)' = Of(req)
      /\ Of(rep)' = Of(rep) /\ Of(replies)' = Of(replies')
      /\ Single(outbuf)' = Single(outbuf) /\ Single(req)' = Single(req)
      /\ Single(rep)' = Single(rep) /\ Single(replies)' = Single(replies')
    BY DEF Of, Single, OfSend, Asking
<1> QED
    BY <1>1 DEF OnePlace, Apart, Travelling

LEMMA AwaitInv ==
    ASSUME SftpInv, Await
    PROVE  SftpInv' /\ Travelling' \subseteq Travelling /\ Expected' \subseteq Expected
<1>0. Basic /\ OnePlace
    BY PartsOfInv
<1>1. /\ wait # <<>> /\ send = <<>> /\ wait' = Tail(wait)
      /\ got' = Append(got, [reply |-> replies[wait[1].id], ser |-> wait[1].ser])
      /\ UNCHANGED <<up, req, rep, tree, changes, faults, id, serial, ignored, send, outbuf,
                     inflight, existence, posix_rename, file, call, alive, calls>>
    BY DEF Await, svars, cache
<1>2. /\ DOMAIN replies' \subseteq DOMAIN replies
      /\ \A i \in DOMAIN replies' : replies'[i] = replies[i]
    BY DEF Await, RestrictDomain, Restrict
<1>3. wait \in Seq(Tickets) /\ IsSeq(got)
    BY <1>0 DEF Basic, LocalTypes, CallTypes
<1>4. wait' \in Seq(Tickets) /\ ToSet(wait') \subseteq ToSet(wait)
    <2>1. wait' \in Seq(Tickets)
        BY <1>1, <1>3, HeadTailProperties
    <2>2. IsSeq(wait)
        BY <1>3 DEF IsSeq
    <2>3. \A i \in DOMAIN wait' : i + 1 \in DOMAIN wait /\ wait'[i] = wait[i + 1]
        BY <1>1, <2>2, TailSeq
    <2> QED
        BY <2>1, <2>3 DEF ToSet
<1>5. IsSeq(got')
    BY <1>1, <1>3, AppendSeq
<1>6. Expected' \subseteq Expected
    BY <1>1, <1>4 DEF Expected, Kept
<1>7. Progress'
    <2>1. Progress
        BY <1>0 DEF Basic, LocalTypes
    <2>2. call.op \notin Silent
        BY <1>1, <2>1 DEF Progress
    <2>3. call.op = "exists" => inflight # <<>>
        BY <1>1, <2>1 DEF Progress
    <2> QED
        BY <1>1, <2>1, <2>2, <2>3 DEF Progress
<1>8. LocalTypes'
    BY <1>0, <1>1, <1>4, <1>5, <1>7 DEF Basic, LocalTypes, CacheTypes, FileTypes, CallTypes
<1>9. NumberTypes' /\ TreeTypes'
    <2>1. ignored' \subseteq Id
        BY <1>0, <1>1 DEF Basic, NumberTypes
    <2> QED
        BY <1>0, <1>1, <1>6, <2>1, SameNumbers, SameTree
<1>10. ReplyTypes'
    BY <1>0, <1>1, <1>2 DEF Basic, ReplyTypes, IsReply
<1>11. PipeTypes' /\ OnePlace' /\ Travelling' \subseteq Travelling
    <2>1. Of(replies') \subseteq Of(replies) /\ Single(replies')
        BY <1>0, <1>2, OfReplies DEF OnePlace
    <2> QED
        BY <1>0, <1>1, <2>1, SamePipes, SamePlaces
<1>12. SftpInv'
    BY <1>8, <1>9, <1>10, <1>11, InvOfParts, PTL DEF Basic
<1> QED
    BY <1>6, <1>11, <1>12

\* The call returns, or the program ends.
LEMMA EndInv ==
    ASSUME SftpInv, Die \/ Return
    PROVE  SftpInv' /\ Quiet
<1>0. Basic /\ OnePlace
    BY PartsOfInv
<1>1. /\ UNCHANGED <<up, req, rep, tree, changes, faults, id, serial, replies, ignored, send,
                     outbuf, wait, got, inflight, existence, posix_rename, file, calls>>
      /\ alive' \in BOOLEAN
      /\ call' = call \/ (call' = Idle /\ send = <<>> /\ wait = <<>> /\ call.op \in Silent)
    BY <1>0 DEF Die, Return, Finished, svars, link, round, cache, Silent, Basic, LocalTypes,
                CallTypes
<1>2. LocalTypes'
    <2>1. LocalTypes
        BY <1>0 DEF Basic
    <2>2. CacheTypes' /\ FileTypes' /\ CallTypes'
        BY <1>1, <2>1 DEF LocalTypes, CacheTypes, FileTypes, CallTypes
    <2>3. Progress'
        <3>1. CASE call' = call
            BY <1>1, <2>1, <3>1 DEF LocalTypes, Progress
        <3>2. CASE call' = Idle /\ send = <<>> /\ wait = <<>> /\ call.op \in Silent
            <4>1. got = <<>>
                BY <2>1, <3>2 DEF LocalTypes, Progress
            <4>2. call'.op = "none"
                BY <3>2, OpsDiffer
            <4> QED
                BY <1>1, <3>2, <4>1, <4>2 DEF Progress
        <3> QED
            BY <1>1, <3>1, <3>2
    <2> QED
        BY <2>2, <2>3 DEF LocalTypes
<1>3. Expected' = Expected
    BY <1>1 DEF Expected, Kept
<1>4. NumberTypes' /\ TreeTypes'
    <2>1. ignored' \subseteq Id
        BY <1>0, <1>1 DEF Basic, NumberTypes
    <2> QED
        BY <1>0, <1>1, <1>3, <2>1, SameNumbers, SameTree
<1>5. ReplyTypes'
    BY <1>0, <1>1 DEF Basic, ReplyTypes, IsReply
<1>6. PipeTypes' /\ OnePlace' /\ Travelling' \subseteq Travelling
    BY <1>0, <1>1, SamePipes, SamePlaces DEF OnePlace
<1>7. SftpInv'
    BY <1>2, <1>4, <1>5, <1>6, InvOfParts, PTL DEF Basic
<1>8. Quiet
    BY <1>1, <1>6 DEF Quiet, Kept, Idle
<1> QED
    BY <1>7, <1>8


\* The server answers the request that came first; the others leave the pipes
\* alone, and nobody else touches what the client keeps.
LEMMA EnvironmentPipes ==
    ASSUME SftpInv, Environment
    PROVE  /\ UNCHANGED cvars
           /\ \/ UNCHANGED <<req, rep>>
              \/ /\ req # <<>> /\ Len(rep) < RepCap /\ req' = Tail(req)
                 /\ \E a : /\ a.type \in ReplyType /\ a.id = req[1].id /\ a.ser = req[1].ser
                           /\ rep' = Append(rep, a)
<1>1. CASE Serve \/ Fail
    <2>1. PICK type, val : type \in ReplyType /\ Reply(type, val)
        BY <1>1, ServerReplies
    <2>2. req # <<>> /\ Len(rep) < RepCap
        BY <1>1, ServerReplies
    <2>3. Head(req) = req[1]
        BY <2>2, TailSeq DEF SftpInv, Shape
    <2> DEFINE a == [id |-> Head(req).id, ser |-> Head(req).ser, type |-> type, val |-> val]
    <2>4. req' = Tail(req) /\ rep' = Append(rep, a)
        BY <2>1 DEF Reply
    <2>5. a.type \in ReplyType /\ a.id = req[1].id /\ a.ser = req[1].ser
        BY <2>1, <2>3
    <2> HIDE DEF a
    <2> QED
        BY <2>2, <2>4, <2>5 DEF Environment
<1>2. CASE HangUp \/ \E p \in Path : Change(p)
    BY <1>2 DEF Environment, HangUp, Change
<1> QED
    BY <1>1, <1>2 DEF Environment

LEMMA EnvironmentInv ==
    ASSUME SftpInv, Environment
    PROVE  SftpInv' /\ Quiet
<1>0. Basic /\ OnePlace
    BY PartsOfInv
<1>1. UNCHANGED <<id, serial, replies, ignored, send, outbuf, wait, got, inflight, existence,
                  posix_rename, file, call, alive, calls>>
    BY EnvironmentPipes DEF cvars, link, round, cache
<1>2. LocalTypes' /\ Expected' = Expected
    <2>1. call = Idle => send' = <<>>
        BY <1>0, <1>1 DEF Basic, LocalTypes, Progress
    <2>2. alive' \in BOOLEAN
        BY <1>0, <1>1 DEF Basic, LocalTypes, CallTypes
    <2> QED
        BY <1>0, <1>1, <2>1, <2>2, SameLocal
<1>3. NumberTypes' /\ TreeTypes'
    <2>1. ignored' \subseteq Id
        BY <1>0, <1>1 DEF Basic, NumberTypes
    <2> QED
        BY <1>0, <1>1, <1>2, <2>1, SameNumbers, EnvironmentTree
<1>4. ReplyTypes'
    BY <1>0, <1>1 DEF Basic, ReplyTypes, IsReply
<1>5. PipeTypes' /\ OnePlace' /\ Travelling' \subseteq Travelling
    <2>1. CASE UNCHANGED <<req, rep>>
        BY <1>0, <1>1, <2>1, SamePipes, SamePlaces DEF OnePlace
    <2>2. CASE /\ req # <<>> /\ Len(rep) < RepCap /\ req' = Tail(req)
               /\ \E a : /\ a.type \in ReplyType /\ a.id = req[1].id /\ a.ser = req[1].ser
                         /\ rep' = Append(rep, a)
        <3>1. PICK a : /\ a.type \in ReplyType /\ a.id = req[1].id /\ a.ser = req[1].ser
                       /\ rep' = Append(rep, a)
            BY <2>2
        <3>2. IsSeq(req) /\ IsSeq(rep)
            BY <1>0 DEF Basic, PipeTypes
        <3>3. /\ IsSeq(req') /\ Len(req') = Len(req) - 1 /\ 1 \in DOMAIN req
              /\ \A i \in DOMAIN req' : \E j \in DOMAIN req : req'[i] = req[j]
            BY <2>2, <3>2, TailSeq
        <3>4. /\ IsSeq(rep') /\ Len(rep') = Len(rep) + 1
              /\ \A i \in DOMAIN rep' : rep'[i] = a \/ \E j \in DOMAIN rep : rep'[i] = rep[j]
            BY <3>1, <3>2, AppendSeq
        <3>5. IsReply(a)
            BY <1>0, <3>1, <3>3 DEF Basic, PipeTypes, IsRequest, IsReply
        <3>6. OfSend' = OfSend /\ Asking' = Asking
            BY <1>1 DEF OfSend, Asking
        <3>7. PipeTypes'
            <4>1. \A i \in Asking' : IsRequest(send[i])' /\ ArgsRight(send[i])'
                BY <1>0, <1>1, <3>6 DEF Basic, PipeTypes, IsRequest, ArgsRight
            <4>2. \A i \in DOMAIN outbuf' : IsRequest(outbuf[i])' /\ ArgsRight(outbuf[i])'
                BY <1>0, <1>1 DEF Basic, PipeTypes, IsRequest, ArgsRight
            <4>3. \A i \in DOMAIN req' : IsRequest(req[i])' /\ ArgsRight(req[i])'
                BY <1>0, <1>1, <3>3 DEF Basic, PipeTypes, IsRequest, ArgsRight
            <4>4. \A i \in DOMAIN rep' : IsReply(rep[i])'
                BY <1>0, <1>1, <3>4, <3>5 DEF Basic, PipeTypes, IsReply
            <4>5. Len(req') <= ReqCap /\ Len(rep') <= RepCap
                <5>1. /\ Len(req) \in Nat /\ ReqCap \in Nat /\ Len(rep) \in Nat /\ RepCap \in Nat
                      /\ Len(req) <= ReqCap
                    BY <1>0, <3>2, SeqLength, ServerAssumption DEF Basic, PipeTypes
                <5> QED
                    BY <5>1, <2>2, <3>3, <3>4
            <4> QED
                BY <1>0, <1>1, <3>3, <3>4, <4>1, <4>2, <4>3, <4>4, <4>5 DEF Basic, PipeTypes
        <3>8. /\ Ticket(req[1]) \in Of(req) /\ Of(req') \subseteq Of(req)
              /\ \A t \in Of(req') : t.ser # req[1].ser
              /\ Single(req')
            BY <1>0, <2>2, <3>2, OfTail DEF OnePlace
        <3>9. Ticket(a) = Ticket(req[1]) /\ Ticket(a).ser = a.ser
            BY <3>1, TicketFields DEF Ticket
        <3>10. \A t \in Of(rep) : t.ser # a.ser
            BY <1>0, <3>8, <3>9 DEF OnePlace, Apart
        <3>11. Of(rep') \subseteq Of(rep) \cup {Ticket(a)} /\ Single(rep')
            BY <1>0, <3>1, <3>2, <3>10, OfAppend DEF OnePlace
        <3>12. /\ Of(outbuf)' = Of(outbuf) /\ Of(req)' = Of(req')
               /\ Of(rep)' = Of(rep') /\ Of(replies)' = Of(replies)
               /\ Single(outbuf)' = Single(outbuf) /\ Single(req)' = Single(req')
               /\ Single(rep)' = Single(rep') /\ Single(replies)' = Single(replies)
            BY <1>1 DEF Of, Single
        <3>13. OnePlace'
            BY <1>0, <1>1, <3>1, <3>6, <3>8, <3>9, <3>11, <3>12 DEF OnePlace, Apart
        <3>14. Travelling' \subseteq Travelling
            BY <3>6, <3>8, <3>9, <3>11, <3>12 DEF Travelling
        <3> QED
            BY <3>7, <3>13, <3>14
    <2> QED
        BY <2>1, <2>2, EnvironmentPipes
<1>6. SftpInv'
    BY <1>2, <1>3, <1>4, <1>5, InvOfParts, PTL DEF Basic
<1>7. Quiet
    BY <1>1, <1>5 DEF Quiet, Kept
<1> QED
    BY <1>6, <1>7

LEMMA InitInv ==
    ASSUME Init
    PROVE  SftpInv
<1>1. PICK k \in [Path -> Kind] :
         tree = [p \in Path |-> [kind |-> k[p], ino |-> IF k[p] = "file" THEN p ELSE 0]]
    BY DEF Init, ServerInit
<1>2. tree \in [Path -> Node]
    <2>1. \A p \in Path : [kind |-> k[p], ino |-> IF k[p] = "file" THEN p ELSE 0] \in Node
        BY <1>1, ServerAssumption DEF Node
    <2> QED
        BY <1>1, <2>1
<1>3. TreeTypes
    BY <1>2, ServerAssumption DEF TreeTypes, Init, ServerInit
<1>4. /\ send = <<>> /\ outbuf = <<>> /\ req = <<>> /\ rep = <<>> /\ replies = <<>>
      /\ wait = <<>> /\ got = <<>> /\ inflight = <<>> /\ existence = <<>>
      /\ id = 0 /\ serial = 0 /\ ignored = {} /\ file = NoFile /\ call = Idle
      /\ posix_rename = TRUE /\ alive = TRUE /\ calls = 0
    BY DEF Init, ServerInit, ClientInit
<1>5. DOMAIN <<>> = {} /\ IsSeq(<<>>) /\ Len(<<>>) = 0
    BY SmallSeqs, SeqLength
<1>6. Of(<<>>) = {} /\ Asking = {} /\ OfSend = {} /\ Single(<<>>)
    BY <1>4, <1>5 DEF Of, Asking, Posed, OfSend, Single
<1>7. PipeTypes /\ ReplyTypes
    BY <1>4, <1>5, <1>6, ServerAssumption DEF PipeTypes, ReplyTypes
<1>8. LocalTypes
    BY <1>4, <1>5, EmptyTypes, ClientAssumption
       DEF LocalTypes, CacheTypes, FileTypes, CallTypes, Progress, Idle, Silent
<1>9. Expected = {}
    BY <1>4, <1>5, EmptyTypes DEF Expected, Kept
<1>10. NumberTypes
    BY <1>4, <1>9, ClientAssumption DEF NumberTypes
<1>11. OnePlace
    BY <1>4, <1>6 DEF OnePlace, Apart
<1> QED
    BY <1>3, <1>7, <1>8, <1>10, <1>11, InvOfParts DEF Basic

Move == Poll \/ PutRequest \/ FlushRequest \/ Await \/ Die \/ Return

LEMMA StepsAre ==
    ASSUME Next
    PROVE  ((StartCall \/ CallStep) /\ ~ Rest) \/ Move \/ Environment
BY DEF Next, Rest, Move

LEMMA NextInv ==
    ASSUME SftpInv, [Next]_vars
    PROVE  SftpInv'
<1>1. CASE Next
    BY <1>1, StepsAre, StepsHandled, HandledInv, PollInv, PutInv, FlushInv, AwaitInv, EndInv,
       EnvironmentInv DEF Move
<1>2. CASE UNCHANGED vars
    <2>0. Basic /\ OnePlace
        BY PartsOfInv
    <2>1. UNCHANGED <<up, req, rep, tree, changes, faults, id, serial, replies, ignored, send,
                      outbuf, wait, got, inflight, existence, posix_rename, file, call, alive,
                      calls>>
        BY <1>2 DEF vars, svars, cvars, link, round, cache
    <2>2. LocalTypes' /\ Expected' = Expected
        <3>1. (call = Idle => send' = <<>>) /\ alive' \in BOOLEAN
            BY <2>0, <2>1 DEF Basic, LocalTypes, CallTypes, Progress
        <3> QED
            BY <2>0, <2>1, <3>1, SameLocal
    <2>3. NumberTypes' /\ TreeTypes'
        <3>1. ignored' \subseteq Id
            BY <2>0, <2>1 DEF Basic, NumberTypes
        <3> QED
            BY <2>0, <2>1, <2>2, <3>1, SameNumbers, SameTree
    <2>4. ReplyTypes'
        BY <2>0, <2>1 DEF Basic, ReplyTypes, IsReply
    <2>5. PipeTypes' /\ OnePlace'
        BY <2>0, <2>1, SamePipes, SamePlaces DEF OnePlace
    <2> QED
        BY <2>2, <2>3, <2>4, <2>5, InvOfParts, PTL DEF Basic
<1> QED
    BY <1>1, <1>2

LEMMA AlwaysInv == Spec => []SftpInv
BY InitInv, NextInv, PTL DEF Spec

\* Requests, replies, the answers of the cache, the open file and the names on
\* the server are what the code takes them for, at all times and whatever
\* order calls, replies, faults and other users come in (SftpFilesystem and
\* SftpFile, sftp.cc:190-241, 253-354, 800-841).
THEOREM SftpTypes == Spec => []TypeOK
<1>1. SftpInv => TypeOK
    BY DEF SftpInv
<1> QED
    BY <1>1, AlwaysInv, PTL


----------------------------------------------------------------------------
(***************************************************************************)
(* Replies and requests.  As long as ids have not wrapped around, two      *)
(* requests on their way or awaited have different ids, but for the        *)
(* READDIRs of one contents(): and of those only one is ever on its way.   *)
(***************************************************************************)
FewRequests == serial < IdMod - 1

Known ==
    /\ id <= serial + 1 /\ (id = 0 => serial = 0)
    /\ \A t \in Travelling \cup Expected : t.id < id

SameSer == \A t, u \in Travelling \cup Expected : t.id = u.id => t.ser = u.ser

Listing ==
    call.op = "contents" =>
        /\ call.more.id < id
        /\ \A t \in Kept : t.id # call.more.id
        /\ got = <<>> => \E t : wait = <<t>> /\ t.id = call.more.id
        /\ got # <<>> => \A t \in Travelling \cup Expected : t.id # call.more.id

MatchInv == FewRequests => Known /\ SameSer /\ Listing /\ ReplyMatches

\* newid() goes on from where it was.
LEMMA NewIds ==
    ASSUME id \in Nat, serial \in Nat, id <= serial + 1,
           NEW n \in Nat, serial + n < IdMod - 1
    PROVE  \E b \in Nat :
              /\ id <= b + 1 /\ b <= serial
              /\ \A k \in 1 .. n : NewId(k) = b + k
              /\ n > 0 => (NewId(n) + 1) % IdMod = b + n + 1
<1> DEFINE b == IF id = 0 THEN 0 ELSE id - 1
<1>1. b \in Nat /\ id <= b + 1 /\ b <= serial
    OBVIOUS
<1>2. IdMod \in Nat /\ IdMod > 2
    BY ClientAssumption
<1>3. \A k : NewId(k) = 1 + ((b + k - 1) % (IdMod - 1))
    BY DEF NewId
<1> HIDE DEF b
<1>4. \A x \in Nat, m \in Nat \ {0} : x < m => x % m = x
    OBVIOUS
<1>5. ASSUME NEW k \in 1 .. n
      PROVE  NewId(k) = b + k
    <2>1. b + k - 1 \in Nat /\ IdMod - 1 \in Nat \ {0} /\ b + k - 1 < IdMod - 1
        BY <1>1, <1>2
    <2>2. (b + k - 1) % (IdMod - 1) = b + k - 1
        BY <1>4, <2>1
    <2> QED
        BY <1>1, <1>3, <2>2
<1>6. ASSUME n > 0
      PROVE  (NewId(n) + 1) % IdMod = b + n + 1
    <2>1. NewId(n) = b + n
        BY <1>5, <1>6
    <2>2. b + n + 1 \in Nat /\ IdMod \in Nat \ {0} /\ b + n + 1 < IdMod
        BY <1>1, <1>2
    <2> QED
        BY <1>4, <2>1, <2>2
<1> QED
    BY <1>1, <1>5, <1>6

\* What is on its way after a call has asked: what was, and what it asked.
LEMMA TravelHandled ==
    ASSUME SftpInv, Handled
    PROVE  Travelling' \subseteq Travelling \cup OfSend'
<1>1. UNCHANGED <<req, rep, outbuf>> /\ Lets
    BY DEF Handled, ServerAlone
<1>2. Of(replies') \subseteq Of(replies)
    BY <1>1, OfReplies DEF Lets, SftpInv, OnePlace
<1>3. Of(outbuf)' = Of(outbuf) /\ Of(req)' = Of(req) /\ Of(rep)' = Of(rep)
      /\ Of(replies)' = Of(replies')
    BY <1>1 DEF Of
<1> QED
    BY <1>2, <1>3 DEF Travelling

LEMMA HandledMatch ==
    ASSUME SftpInv, MatchInv, Handled
    PROVE  MatchInv'
<1>0. PICK n \in Nat : Asks(n)
    BY DEF Handled
<1>1. Fresh(n) /\ serial' = serial + n /\ serial \in Nat /\ id \in Nat /\ IdMod \in Nat
    BY <1>0, ClientAssumption DEF Asks, Fresh, SftpInv, TypeOK
<1> SUFFICES ASSUME FewRequests'
             PROVE  (Known /\ SameSer /\ Listing /\ ReplyMatches)'
    BY DEF MatchInv
<1>2. FewRequests /\ serial + n < IdMod - 1
    BY <1>1 DEF FewRequests
<1>3. Known /\ SameSer /\ Listing /\ ReplyMatches
    BY <1>2 DEF MatchInv
<1>4. Travelling' \subseteq Travelling \cup OfSend' /\ Expected' \subseteq Expected \cup OfSend'
    BY <1>0, TravelHandled DEF Asks
<1>5. \A t \in OfSend' : \E i \in DOMAIN send' :
         send'[i].op # "flush" /\ t.id = send'[i].id /\ t.ser = send'[i].ser
    BY TicketFields DEF OfSend, Asking, Posed
<1>6. \A t \in OfSend' : t.ser \in serial + 1 .. serial + n
    BY <1>1, <1>5 DEF Fresh
<1>7. \A t \in Travelling \cup Expected : t.id \in Nat
    <2>1. Basic
        BY PartsOfInv
    <2> QED
        BY <2>1, <1>1, SerialsMade DEF Id
<1>8. ReplyMatches'
    <2>1. got' = got \/ got' = <<>>
        BY <1>0 DEF Asks
    <2> QED
        BY <1>3, <2>1, SmallSeqs DEF ReplyMatches
<1> DEFINE Old == Travelling \cup Expected
\* Old and new requests make up what there is; the new ones have new ids.
<1>9. ASSUME id' \in Nat, id <= id', id' <= serial' + 1, id' = 0 => serial' = 0,
             \A t \in OfSend' : t.id < id' /\ \A u \in Old : t.id # u.id,
             \A t, u \in OfSend' : t.id = u.id => t.ser = u.ser
      PROVE  Known' /\ SameSer'
    <2>1. \A t \in (Travelling \cup Expected)' : t \in Old \/ t \in OfSend'
        BY <1>4
    <2>2. \A t \in Old : t.id < id'
        BY <1>1, <1>3, <1>7, <1>9 DEF Known
    <2>3. \A t, u \in Old : t.id = u.id => t.ser = u.ser
        BY <1>3 DEF SameSer
    <2> HIDE DEF Old
    <2>4. Known'
        BY <1>9, <2>1, <2>2 DEF Known
    <2>5. SameSer'
        BY <1>9, <2>1, <2>3 DEF SameSer
    <2> QED
        BY <2>4, <2>5
<1>10. CASE Drawn(n)
    <2>1. PICK b \in Nat :
             /\ id <= b + 1 /\ b <= serial
             /\ \A k \in 1 .. n : NewId(k) = b + k
             /\ n > 0 => (NewId(n) + 1) % IdMod = b + n + 1
        BY <1>1, <1>2, <1>3, NewIds DEF Known
    <2>2. n = 0 => id' = id
        BY <1>10 DEF Drawn
    <2>3. n > 0 => id' = b + n + 1
        BY <1>10, <2>1 DEF Drawn
    <2>4. \A t \in OfSend' : n > 0 /\ t.id = b + (t.ser - serial) /\ t.ser \in Int
        <3> SUFFICES ASSUME NEW t \in OfSend'
                     PROVE  n > 0 /\ t.id = b + (t.ser - serial) /\ t.ser \in Int
            OBVIOUS
        <3>1. t.ser \in serial + 1 .. serial + n
            BY <1>6
        <3>2. t.id = NewId(t.ser - serial)
            BY <1>5, <1>10 DEF Drawn
        <3>3. t.ser - serial \in 1 .. n
            BY <1>1, <3>1
        <3> QED
            BY <1>1, <2>1, <3>1, <3>2, <3>3
    <2>5. id' \in Nat /\ id <= id' /\ id' <= serial' + 1 /\ (id' = 0 => serial' = 0)
        <3>1. CASE n = 0
            BY <3>1, <1>1, <1>3, <2>2 DEF Known
        <3>2. CASE n > 0
            BY <3>2, <1>1, <2>1, <2>3
        <3> QED
            BY <3>1, <3>2
    <2>6. \A t \in OfSend' : t.id < id' /\ id <= t.id /\ t.id \in Int
        BY <1>1, <1>6, <2>1, <2>3, <2>4
    <2>7. \A t \in OfSend' : \A u \in Old : t.id # u.id
        BY <1>1, <1>3, <1>7, <2>6 DEF Known
    <2>8. \A t, u \in OfSend' : t.id = u.id => t.ser = u.ser
        BY <1>1, <2>1, <2>4
    <2>9. Known' /\ SameSer'
        BY <1>9, <2>5, <2>6, <2>7, <2>8
    <2>10. Listing'
        <3>1. CASE call'.op # "contents"
            BY <3>1 DEF Listing
        <3>2. CASE AsksList
            <4>1. PICK t : t.id = call'.more.id /\ wait' = <<t>> /\ OfSend' = {t}
                BY <3>2 DEF AsksList
            <4>2. t \in OfSend'
                BY <4>1
            <4>3. \A u \in Kept : u \in Old
                BY DEF Expected
            <4>4. Kept' = Kept /\ got' = <<>>
                BY <3>2 DEF AsksList
            <4>5. \A u \in Kept' : u.id # t.id
                BY <2>7, <4>2, <4>3, <4>4
            <4>6. t.id < id'
                BY <2>6, <4>2
            <4> HIDE DEF Old
            <4> QED
                BY <4>1, <4>4, <4>5, <4>6 DEF Listing
        <3> QED
            BY <1>0, <3>1, <3>2 DEF Asks
    <2> QED
        BY <1>8, <2>9, <2>10
<1>11. CASE /\ n = 1 /\ id' = id /\ AsksList
            /\ call.op = "contents" /\ got # <<>> /\ call'.more.id = call.more.id
    <2>1. PICK t : t.id = call'.more.id /\ wait' = <<t>> /\ OfSend' = {t}
        BY <1>11 DEF AsksList
    <2>2. t.id = call.more.id /\ t.id < id /\ (\A u \in Kept : u.id # t.id)
          /\ \A u \in Old : u.id # t.id
        BY <1>3, <1>11, <2>1 DEF Listing
    <2>3. Kept' = Kept /\ got' = <<>>
        BY <1>11 DEF AsksList
    <2>4. id # 0 \/ serial = 0
        BY <1>3 DEF Known
    <2>5. id' \in Nat /\ id <= id' /\ id' <= serial' + 1 /\ id' # 0
        <3>1. t.id \in Nat
            <4>1. call.more.id \in Id
                BY <1>11 DEF SftpInv, Progress
            <4> QED
                BY <4>1, <2>2 DEF Id
        <3> QED
            BY <1>1, <1>3, <1>11, <2>2, <3>1 DEF Known
    <2> HIDE DEF Old
    <2>6. Known' /\ SameSer'
        BY <1>9, <1>11, <2>1, <2>2, <2>5
    <2>7. Listing'
        BY <1>11, <2>1, <2>2, <2>3 DEF Listing
    <2> QED
        BY <1>8, <2>6, <2>7
<1> QED
    BY <1>0, <1>10, <1>11 DEF Asks

LEMMA QuietMatch ==
    ASSUME MatchInv, Quiet
    PROVE  MatchInv'
<1> SUFFICES ASSUME FewRequests'
             PROVE  (Known /\ SameSer /\ Listing /\ ReplyMatches)'
    BY DEF MatchInv
<1>1. UNCHANGED <<id, serial, wait, got>> /\ Kept' = Kept
      /\ (call' = call \/ call'.op # "contents") /\ Travelling' \subseteq Travelling
    BY DEF Quiet
<1>2. FewRequests
    BY <1>1 DEF FewRequests
<1>3. Known /\ SameSer /\ Listing /\ ReplyMatches
    BY <1>2 DEF MatchInv
<1>4. Expected' = Expected
    BY <1>1 DEF Expected
<1>5. Known' /\ SameSer'
    BY <1>1, <1>3, <1>4 DEF Known, SameSer
<1>6. Listing' /\ ReplyMatches'
    BY <1>1, <1>3, <1>4 DEF Listing, ReplyMatches
<1> QED
    BY <1>5, <1>6

LEMMA AwaitMatch ==
    ASSUME SftpInv, MatchInv, Await
    PROVE  MatchInv'
<1> SUFFICES ASSUME FewRequests'
             PROVE  (Known /\ SameSer /\ Listing /\ ReplyMatches)'
    BY DEF MatchInv
<1> DEFINE w == wait[1]
           r == replies[w.id]
<1>1. /\ wait # <<>> /\ wait' = Tail(wait) /\ w.id \in DOMAIN replies
      /\ got' = Append(got, [reply |-> r, ser |-> w.ser])
      /\ replies' = RestrictDomain(replies, LAMBDA i : i # w.id)
      /\ UNCHANGED <<id, serial, call, inflight, file, send, outbuf, req, rep>>
    BY DEF Await, Awaiting, svars, cache
<1>2. FewRequests
    BY <1>1 DEF FewRequests
<1>3. Known /\ SameSer /\ Listing /\ ReplyMatches
    BY <1>2 DEF MatchInv
<1>4. Travelling' \subseteq Travelling /\ Expected' \subseteq Expected /\ Kept' = Kept
    BY <1>1, AwaitInv DEF Kept
<1>5. Known' /\ SameSer'
    BY <1>1, <1>3, <1>4 DEF Known, SameSer
<1>6. w \in Expected
    <2>1. IsSeq(wait)
        BY DEF SftpInv, TypeOK, IsSeq
    <2> QED
        BY <1>1, <2>1, TailSeq DEF Expected, ToSet
<1>7. r.id = w.id /\ Ticket(r) \in Of(replies) /\ Ticket(r).id = r.id /\ Ticket(r).ser = r.ser
    BY <1>1, TicketFields DEF SftpInv, TypeOK, Of
<1>8. r.ser = w.ser
    BY <1>3, <1>6, <1>7 DEF SameSer, Travelling
<1>9. IsSeq(got)
    BY DEF SftpInv, Shape
<1> DEFINE e == [reply |-> r, ser |-> w.ser]
<1>10. e.reply.ser = e.ser /\ got' = Append(got, e)
    BY <1>1, <1>8
<1> HIDE DEF e
<1>11. /\ DOMAIN got' = DOMAIN got \cup {Len(got) + 1}
       /\ \A i \in DOMAIN got : got'[i] = got[i]
       /\ got'[Len(got) + 1] = e /\ got' # <<>>
    BY <1>9, <1>10, AppendSeq, SeqLength
<1>12. ReplyMatches'
    BY <1>3, <1>10, <1>11 DEF ReplyMatches
\* The reply is gone, and with it all that had its id.
<1>13. \A t \in Travelling' : t.id # w.id
    <2> SUFFICES ASSUME NEW t \in Travelling', t.id = w.id
                 PROVE  FALSE
        OBVIOUS
    <2>1. t.ser = Ticket(r).ser
        BY <1>3, <1>4, <1>7, <1>8, <1>6 DEF SameSer
    <2>2. t \notin OfSend \cup Of(outbuf) \cup Of(req) \cup Of(rep)
        BY <1>7, <2>1 DEF SftpInv, OnePlace, Apart
    <2>3. OfSend' = OfSend /\ Of(outbuf)' = Of(outbuf) /\ Of(req)' = Of(req)
          /\ Of(rep)' = Of(rep) /\ Of(replies)' = Of(replies')
        BY <1>1 DEF OfSend, Asking, Of
    <2>4. t \in Of(replies')
        BY <2>2, <2>3 DEF Travelling
    <2>5. PICK i \in DOMAIN replies' : t = Ticket(replies'[i])
        BY <2>4 DEF Of
    <2>6. i \in DOMAIN replies /\ i # w.id /\ replies'[i] = replies[i]
        BY <1>1, <2>5 DEF RestrictDomain, Restrict
    <2>7. t.id = i
        BY <2>5, <2>6, TicketFields DEF SftpInv, TypeOK
    <2> QED
        BY <2>6, <2>7
<1>14. Listing'
    <2> SUFFICES ASSUME call.op = "contents"
                 PROVE  Listing'
        BY <1>1 DEF Listing
    <2>1. \A t \in (Travelling \cup Expected)' : t.id # call.more.id
        <3>1. CASE got = <<>>
            <4>1. PICK t : wait = <<t>> /\ t.id = call.more.id
                BY <1>3, <3>1 DEF Listing
            <4>2. w.id = call.more.id /\ wait' = <<>>
                BY <1>1, <4>1
            <4>3. Expected' = Kept
                BY <1>4, <4>2, EmptyTypes DEF Expected
            <4> QED
                BY <1>3, <1>13, <4>2, <4>3 DEF Listing
        <3>2. CASE got # <<>>
            BY <1>3, <1>4, <3>2 DEF Listing
        <3> QED
            BY <3>1, <3>2
    <2> QED
        BY <1>1, <1>3, <1>4, <1>11, <2>1 DEF Listing
<1> QED
    BY <1>5, <1>12, <1>14

LEMMA InitMatch ==
    ASSUME Init
    PROVE  MatchInv
<1>1. /\ send = <<>> /\ outbuf = <<>> /\ req = <<>> /\ rep = <<>> /\ replies = <<>>
      /\ wait = <<>> /\ got = <<>> /\ inflight = <<>> /\ file = NoFile /\ call = Idle
      /\ id = 0 /\ serial = 0
    BY DEF Init, ServerInit, ClientInit
<1>2. DOMAIN <<>> = {} /\ ToSet(<<>>) = {}
    BY SmallSeqs, EmptyTypes
<1>3. Travelling = {} /\ Expected = {}
    BY <1>1, <1>2 DEF Travelling, OfSend, Asking, Posed, Of, Expected, Kept
<1>4. Known /\ SameSer /\ Listing /\ ReplyMatches
    BY <1>1, <1>2, <1>3, OpsDiffer DEF Known, SameSer, Listing, ReplyMatches
<1> QED
    BY <1>4 DEF MatchInv

LEMMA NextMatch ==
    ASSUME SftpInv, MatchInv, [Next]_vars
    PROVE  MatchInv'
<1>1. CASE Next
    BY <1>1, StepsAre, StepsHandled, HandledMatch, AwaitMatch, QuietMatch, PollInv, PutInv,
       FlushInv, EndInv, EnvironmentInv DEF Move
<1>2. CASE UNCHANGED vars
    BY <1>2, QuietMatch
       DEF vars, svars, cvars, link, round, cache, Quiet, Kept, Travelling, OfSend, Asking, Of
<1> QED
    BY <1>1, <1>2

\* await() returns the reply to the very request it is called for, whatever
\* order replies come in, whichever of them are ignored or kept for a later
\* call, and although contents() uses its first id again for each READDIR: all
\* this until newid() has given out every id once (newid, poll, await and
\* ignore, sftp.cc:800-841; contents, sftp.cc:683-733).
THEOREM RepliesMatch == Spec => [](serial < IdMod - 1 => ReplyMatches)
<1>1. SftpInv /\ MatchInv /\ [Next]_vars => SftpInv' /\ MatchInv'
    BY NextInv, NextMatch
<1>2. Init => SftpInv /\ MatchInv
    BY InitInv, InitMatch
<1>3. MatchInv => (serial < IdMod - 1 => ReplyMatches)
    BY DEF MatchInv, FewRequests
<1> QED
    BY <1>1, <1>2, <1>3, PTL DEF Spec

----------------------------------------------------------------------------
(***************************************************************************)
(* Handles and data.  Nobody but the call that writes changes a file that  *)
(* is open, so what it has written is there when it returns.               *)
(***************************************************************************)
\* Requests that the server has not served, and replies that no call has got.
Posted ==
    {send[i] : i \in Asking} \cup {outbuf[i] : i \in DOMAIN outbuf}
       \cup {req[i] : i \in DOMAIN req}
Received == {rep[i] : i \in DOMAIN rep} \cup {replies[i] : i \in DOMAIN replies}
Taken == {got[i].reply : i \in DOMAIN got}

\* The request h has been answered, and the answer used.
Settled(h) == h \in 0 .. serial /\ \A x \in Posted \cup Received \cup Taken : x.ser # h

\* Handles have the number of the request they were given out for; those that
\* the client knows are of requests that are settled, and none is closed twice
\* or while the file is open.
HandleInv ==
    /\ \A a \in Taken : a.ser \in 1 .. serial /\ \A x \in Posted \cup Received : x.ser # a.ser
    /\ \A a \in Received \cup Taken : a.type = "HANDLE" => a.val = a.ser
    /\ \A r \in Posted : r.op = "CLOSE" =>
          Settled(r.arg) /\ (file # NoFile => r.arg # file.handle)
    /\ file # NoFile => file.handle # 0 /\ Settled(file.handle)
    /\ call.op = "contents" =>
          Settled(call.more.handle) /\ (file # NoFile => call.more.handle # file.handle)
    /\ call.op = "type" => Len(wait) + Len(got) = 3

\* What the server looks up is there.
ServerData ==
    /\ Path \subseteq DOMAIN data
    /\ \A p \in Path : tree[p].kind = "file" => tree[p].ino \in DOMAIN data
    /\ \A h \in DOMAIN handles : \E ino, left : handles[h] = [ino |-> ino, left |-> left]

Changing(r) == r.op = "WRITE" \/ (r.op = "OPEN" /\ r.arg[2] # "ReadOnly")
Holds(h, d) ==
    h \in DOMAIN handles /\ handles[h].ino \in DOMAIN data /\ data[handles[h].ino] = d
Written == file # NoFile /\ file.mode # "ReadOnly"

\* s is the only request of this call.
OneRequest(s) ==
    /\ s \in 1 .. serial
    /\ \/ got = <<>> /\ \E t : wait = <<t>> /\ t.ser = s
       \/ wait = <<>> /\ \E g : got = <<g>> /\ g.reply.ser = s

Opening(s) ==
    /\ file = NoFile
    /\ \A r \in Posted : Changing(r) => r.ser = s
    /\ \A r \in Posted : r.ser = s => r.op = "OPEN" /\ r.arg = <<call.path, call.more>>
    /\ \A a \in Received \cup Taken :
          a.ser = s /\ a.type = "HANDLE" /\ call.more # "ReadOnly" => Holds(s, <<>>)

Storing(s) ==
    /\ Written /\ call.more \in Seq(Byte) /\ file.done \in Seq(Byte)
    /\ file.offset = Len(file.done) + Len(call.more)
    /\ \A r \in Posted : Changing(r) => r.ser = s
    /\ \A r \in Posted : r.ser = s =>
          /\ r.op = "WRITE" /\ r.arg = <<file.handle, Len(file.done), call.more>>
          /\ Holds(file.handle, file.done)
    /\ \A a \in Received \cup Taken : a.ser = s =>
          a.type = "STATUS" /\ (a.val = "OK" => Holds(file.handle, file.done \o call.more))

Calm ==
    /\ \A r \in Posted : ~ Changing(r)
    /\ Written => /\ file.done \in Seq(Byte) /\ file.offset = Len(file.done)
                  /\ Holds(file.handle, file.done)
    /\ call.op = "read" => file.mode = "ReadOnly"

\* Nobody changes a file that is open but the call that writes.
FileInv ==
    /\ call.op = "open" => \E s \in 1 .. serial : OneRequest(s) /\ Opening(s)
    /\ call.op = "write" => \E s \in 1 .. serial : OneRequest(s) /\ Storing(s)
    /\ call.op \notin {"open", "write"} => Calm

StoredInv == FewRequests => HandleInv /\ ServerData /\ FileInv

----------------------------------------------------------------------------
(***************************************************************************)
(* Where requests and replies go.                                          *)
(***************************************************************************)
LEMMA PostedTickets ==
    /\ \A x \in Posted : Ticket(x) \in OfSend \cup Of(outbuf) \cup Of(req)
    /\ \A x \in Received : Ticket(x) \in Of(rep) \cup Of(replies)
    /\ \A x \in Posted \cup Received : Ticket(x) \in Travelling
BY DEF Posted, Received, OfSend, Of, Travelling

\* No request has been answered yet.
LEMMA PostedApart ==
    ASSUME SftpInv
    PROVE  /\ \A x \in Posted, y \in Received : x.ser # y.ser
           /\ \A x \in Posted \cup Received : x.ser \in 1 .. serial
<1>1. Basic /\ OnePlace
    BY PartsOfInv
<1>2. \A x \in Posted \cup Received : x.ser \in 1 .. serial
    <2> SUFFICES ASSUME NEW x \in Posted \cup Received PROVE x.ser \in 1 .. serial
        OBVIOUS
    <2>1. Ticket(x) \in Travelling /\ Ticket(x).ser = x.ser
        BY PostedTickets, TicketFields
    <2> QED
        BY <1>1, <2>1, SerialsMade
<1>3. ASSUME NEW x \in Posted, NEW y \in Received
      PROVE  x.ser # y.ser
    <2>1. /\ Ticket(x) \in OfSend \cup Of(outbuf) \cup Of(req) /\ Ticket(x).ser = x.ser
          /\ Ticket(y) \in Of(rep) \cup Of(replies) /\ Ticket(y).ser = y.ser
        BY PostedTickets, TicketFields
    <2> QED
        BY <1>1, <2>1 DEF OnePlace, Apart
<1> QED
    BY <1>2, <1>3

LEMMA PollPosted ==
    ASSUME SftpInv, Poll
    PROVE  /\ Posted' = Posted /\ Received' \subseteq Received
           /\ UNCHANGED <<data, handles, tree, file, serial, wait, got, call>>
<1>1. UNCHANGED <<data, handles, tree, file, serial, wait, got, call, send, outbuf, req>>
    BY DEF Poll, round
<1>2. PICK i \in DOMAIN rep : rep' = RemoveAt(rep, i)
                              /\ (replies' = replies \/ replies' = Put(replies, rep[i].id, rep[i]))
    <2>1. IsSeq(rep) /\ rep # <<>>
        BY DEF SftpInv, Shape, Poll
    <2>2. 1 \in DOMAIN rep
        BY <2>1, TailSeq
    <2> QED
        BY <2>2 DEF Poll
<1>3. \A j \in DOMAIN rep' : \E k \in DOMAIN rep : rep'[j] = rep[k]
    BY <1>2, RemoveAtSeq DEF SftpInv, Shape
<1>4. \A j \in DOMAIN replies' : replies'[j] \in Received
    BY <1>2 DEF Put, Received
<1> QED
    BY <1>1, <1>3, <1>4 DEF Posted, Received, Asking

LEMMA PutPosted ==
    ASSUME SftpInv, PutRequest
    PROVE  /\ Posted' \subseteq Posted /\ Received' \subseteq Received
           /\ UNCHANGED <<data, handles, tree, file, serial, wait, got, call>>
<1>1. /\ UNCHANGED <<data, handles, tree, file, serial, wait, got, call, rep, req>>
      /\ send # <<>> /\ Head(send).op # "flush"
      /\ outbuf' = Append(outbuf, Head(send)) /\ send' = Tail(send)
      /\ replies' = replies \/ \E X : Ignore(X)
    BY DEF PutRequest, MayPut, Sending, svars
<1>2. IsSeq(send) /\ IsSeq(outbuf)
    BY DEF SftpInv, Shape
<1>3. /\ 1 \in DOMAIN send /\ Head(send) = send[1]
      /\ \A i \in DOMAIN send' : i + 1 \in DOMAIN send /\ send'[i] = send[i + 1]
    BY <1>1, <1>2, TailSeq
<1>4. \A i \in DOMAIN outbuf' : outbuf'[i] = Head(send) \/ \E k \in DOMAIN outbuf : outbuf'[i] = outbuf[k]
    BY <1>1, <1>2, AppendSeq
<1>5. Head(send) \in Posted
    BY <1>1, <1>3 DEF Posted, Asking, Posed
<1>6. \A i \in Asking' : send'[i] \in Posted
    BY <1>3 DEF Posted, Asking, Posed
<1>7. \A j \in DOMAIN replies' : j \in DOMAIN replies /\ replies'[j] = replies[j]
    BY <1>1 DEF Ignore, RestrictDomain, Restrict
<1>8. \A i \in DOMAIN outbuf' : outbuf'[i] \in Posted
    BY <1>4, <1>5 DEF Posted
<1>9. Posted' \subseteq Posted
    BY <1>1, <1>6, <1>8, ZenonT(60) DEF Posted
<1>10. Received' \subseteq Received
    BY <1>1, <1>7 DEF Received
<1> QED
    BY <1>1, <1>9, <1>10

LEMMA FlushPosted ==
    ASSUME SftpInv, FlushRequest
    PROVE  /\ Posted' \subseteq Posted /\ Received' = Received
           /\ UNCHANGED <<data, handles, tree, file, serial, wait, got, call>>
<1>1. /\ UNCHANGED <<data, handles, tree, file, serial, wait, got, call, rep, replies>>
      /\ outbuf # <<>> /\ send # <<>>
      /\ req' = Append(req, Head(outbuf)) /\ outbuf' = Tail(outbuf)
      /\ send' = send \/ send' = Tail(send)
    BY DEF FlushRequest, link
<1>2. IsSeq(send) /\ IsSeq(outbuf) /\ IsSeq(req)
    BY DEF SftpInv, Shape
<1>3. \A i \in DOMAIN Tail(send) : i + 1 \in DOMAIN send /\ Tail(send)[i] = send[i + 1]
    BY <1>1, <1>2, TailSeq
<1>4. /\ 1 \in DOMAIN outbuf /\ Head(outbuf) = outbuf[1]
      /\ \A i \in DOMAIN outbuf' : i + 1 \in DOMAIN outbuf /\ outbuf'[i] = outbuf[i + 1]
    BY <1>1, <1>2, TailSeq
<1>5. \A i \in DOMAIN req' : req'[i] = Head(outbuf) \/ \E k \in DOMAIN req : req'[i] = req[k]
    BY <1>1, <1>2, AppendSeq
<1>6. \A i \in Asking' : send'[i] \in Posted
    BY <1>1, <1>3 DEF Posted, Asking, Posed
<1>7. \A i \in DOMAIN outbuf' : outbuf'[i] \in Posted
    BY <1>4 DEF Posted
<1>8. \A i \in DOMAIN req' : req'[i] \in Posted
    BY <1>4, <1>5 DEF Posted
<1> QED
    BY <1>1, <1>6, <1>7, <1>8 DEF Posted, Received

\* The reply that a call awaits is its own, and there is no other like it.
LEMMA AwaitPosted ==
    ASSUME SftpInv, MatchInv, FewRequests, Await
    PROVE  /\ wait # <<>> /\ wait' = Tail(wait)
           /\ Posted' = Posted /\ Received' \subseteq Received
           /\ UNCHANGED <<data, handles, tree, file, serial, call>>
           /\ \E a \in Received : \E g :
                 /\ a.ser = wait[1].ser /\ g.reply = a /\ got' = Append(got, g)
                 /\ Taken' = Taken \cup {a}
                 /\ \A x \in Posted' \cup Received' : x.ser # a.ser
<1> DEFINE w == wait[1]
           r == replies[w.id]
           g == [reply |-> r, ser |-> w.ser]
<1>1. /\ wait # <<>> /\ wait' = Tail(wait) /\ w.id \in DOMAIN replies
      /\ got' = Append(got, g)
      /\ replies' = RestrictDomain(replies, LAMBDA i : i # w.id)
      /\ UNCHANGED <<data, handles, tree, file, serial, call, send, outbuf, req, rep>>
    BY DEF Await, Awaiting, svars
<1>2. DOMAIN replies' = DOMAIN replies \ {w.id} /\ \A i \in DOMAIN replies' : replies'[i] = replies[i]
    BY <1>1 DEF RestrictDomain, Restrict
<1>3. Posted' = Posted /\ Received' \subseteq Received /\ r \in Received
    BY <1>1, <1>2, ZenonT(60) DEF Posted, Received, Asking
<1>4. w \in Expected
    <2>1. IsSeq(wait)
        BY DEF SftpInv, TypeOK, IsSeq
    <2> QED
        BY <1>1, <2>1, TailSeq DEF Expected, ToSet
<1>5. r.ser = w.ser
    <2>1. r.id = w.id /\ Ticket(r) \in Travelling /\ Ticket(r).id = r.id /\ Ticket(r).ser = r.ser
        BY <1>1, <1>3, PostedTickets, TicketFields DEF SftpInv, TypeOK
    <2>2. SameSer
        BY DEF MatchInv
    <2> QED
        BY <1>4, <2>1, <2>2 DEF SameSer
<1>6. ASSUME NEW x \in Received'
      PROVE  x.ser # r.ser
    <2>1. Single(replies) /\ Apart(Of(rep), Of(replies))
        BY DEF SftpInv, OnePlace
    <2>2. CASE x \in {rep[i] : i \in DOMAIN rep}
        <3>1. Ticket(x) \in Of(rep) /\ Ticket(r) \in Of(replies)
            BY <1>1, <2>2 DEF Of
        <3> QED
            BY <2>1, <3>1, TicketFields DEF Apart
    <2>3. CASE \E i \in DOMAIN replies' : x = replies[i]
        BY <1>1, <1>2, <2>1, <2>3 DEF Single
    <2> QED
        BY <1>1, <1>2, <2>2, <2>3 DEF Received
<1>7. \A x \in Posted' : x.ser # r.ser
    BY <1>3, PostedApart
<1>8. Taken' = Taken \cup {r}
    <2>1. g.reply = r
        OBVIOUS
    <2> HIDE DEF g, r
    <2>2. IsSeq(got)
        BY DEF SftpInv, Shape
    <2>3. /\ DOMAIN got' = DOMAIN got \cup {Len(got) + 1}
          /\ \A i \in DOMAIN got : got'[i] = got[i]
          /\ got'[Len(got) + 1] = g
        BY <1>1, <2>2, AppendSeq
    <2>4. Taken' = {got'[i].reply : i \in DOMAIN got'}
        BY DEF Taken
    <2>5. \A i \in DOMAIN got' : got'[i].reply \in Taken \cup {r}
        BY <2>1, <2>3 DEF Taken
    <2>6. \A i \in DOMAIN got : got[i].reply \in Taken'
        BY <2>3, <2>4
    <2>7. r \in Taken'
        BY <2>1, <2>3, <2>4
    <2> QED
        BY <2>4, <2>5, <2>6, <2>7 DEF Taken
<1>9. g.reply = r
    OBVIOUS
<1> HIDE DEF g, r
<1> QED
    BY <1>1, <1>3, <1>5, <1>6, <1>7, <1>8, <1>9

\* The server takes the first request, and there is no other like it.
LEMMA ServePosted ==
    ASSUME SftpInv, Serve \/ Fail, UNCHANGED cvars, NEW r, r = Head(req),
           NEW type, NEW val, Reply(type, val)
    PROVE  /\ r \in Posted /\ r.op \in Op /\ ArgsRight(r) /\ r.ser \in 1 .. serial
           /\ Posted' \subseteq Posted /\ \A x \in Posted' : x.ser # r.ser
           /\ UNCHANGED <<file, serial, wait, got, call>> /\ Taken' = Taken
           /\ \E a : /\ a.ser = r.ser /\ a.type = type /\ a.val = val
                     /\ Received' = Received \cup {a}
<1>1. req # <<>> /\ IsSeq(req) /\ IsSeq(rep)
    BY ServerReplies DEF SftpInv, Shape
<1>2. /\ 1 \in DOMAIN req /\ r = req[1]
      /\ \A i \in DOMAIN Tail(req) : i + 1 \in DOMAIN req /\ Tail(req)[i] = req[i + 1]
    BY <1>1, TailSeq
<1>3. DOMAIN req = 1 .. Len(req) /\ DOMAIN Tail(req) = 1 .. Len(Tail(req))
    BY <1>1, TailSeq, SeqLength
<1> DEFINE a == [id |-> r.id, ser |-> r.ser, type |-> type, val |-> val]
<1>4. /\ req' = Tail(req) /\ rep' = Append(rep, a)
      /\ UNCHANGED <<file, serial, wait, got, call, send, outbuf, replies>>
    BY DEF Reply, cvars, link, round
<1>5. r \in Posted /\ r.op \in Op /\ ArgsRight(r) /\ r.ser \in 1 .. serial
    BY <1>2 DEF Posted, SftpInv, TypeOK, Shape, IsRequest
<1>6. \A i \in DOMAIN req' : req'[i] \in Posted /\ req'[i].ser # r.ser
    <2> SUFFICES ASSUME NEW i \in DOMAIN req' PROVE req'[i] \in Posted /\ req'[i].ser # r.ser
        OBVIOUS
    <2>1. i + 1 \in DOMAIN req /\ req'[i] = req[i + 1] /\ i \in 1 .. Len(Tail(req))
        BY <1>2, <1>3, <1>4
    <2>2. i + 1 # 1
        BY <2>1
    <2>3. Single(req)
        BY DEF SftpInv, OnePlace
    <2> QED
        BY <1>2, <2>1, <2>2, <2>3 DEF Single, Posted
<1>7. \A i \in Asking : send[i].ser # r.ser
    <2>1. Apart(OfSend, Of(req)) /\ Ticket(r) \in Of(req)
        BY <1>2 DEF SftpInv, OnePlace, Of
    <2>2. \A i \in Asking : Ticket(send[i]) \in OfSend
        BY DEF OfSend
    <2> QED
        BY <2>1, <2>2, TicketFields DEF Apart
<1>8. \A i \in DOMAIN outbuf : outbuf[i].ser # r.ser
    <2>1. Apart(Of(outbuf), Of(req)) /\ Ticket(r) \in Of(req)
        BY <1>2 DEF SftpInv, OnePlace, Of
    <2>2. \A i \in DOMAIN outbuf : Ticket(outbuf[i]) \in Of(outbuf)
        BY DEF Of
    <2> QED
        BY <2>1, <2>2, TicketFields DEF Apart
<1>9. Posted' \subseteq Posted /\ \A x \in Posted' : x.ser # r.ser
    BY <1>4, <1>6, <1>7, <1>8 DEF Posted, Asking
<1>10. a.ser = r.ser /\ a.type = type /\ a.val = val
    OBVIOUS
<1> HIDE DEF a
<1>11. /\ DOMAIN rep' = DOMAIN rep \cup {Len(rep) + 1}
       /\ \A i \in DOMAIN rep : rep'[i] = rep[i]
       /\ rep'[Len(rep) + 1] = a
    BY <1>1, <1>4, AppendSeq
<1>12. Received' = Received \cup {a}
    <2>1. \A x \in Received' : x \in Received \cup {a}
        BY <1>4, <1>11 DEF Received
    <2>2. \A x \in Received : x \in Received'
        BY <1>4, <1>11 DEF Received
    <2>3. a \in Received'
        BY <1>11 DEF Received
    <2> QED
        BY <2>1, <2>2, <2>3
<1> QED
    BY <1>4, <1>5, <1>9, <1>10, <1>12 DEF Taken

\* What a call asks is new.
News == {send[i] : i \in Asking}

LEMMA HandledPosted ==
    ASSUME SftpInv, Handled
    PROVE  /\ Posted' \subseteq Posted \cup News' /\ Received' \subseteq Received
           /\ (got' = got \/ got' = <<>>) /\ Taken' \subseteq Taken
           /\ serial' \in Nat /\ serial <= serial' /\ tree' = tree
           /\ \A x \in News' : x.ser > serial /\ x.ser <= serial' /\ x.ser \in Nat
<1>1. PICK n \in Nat : Asks(n)
    BY DEF Handled
<1>2. /\ serial \in Nat /\ serial' = serial + n
      /\ \A i \in Asking' : send'[i].ser \in serial + 1 .. serial + n
    BY <1>1 DEF Asks, Fresh, SftpInv, TypeOK, Asking, Posed
<1>3. UNCHANGED <<req, outbuf, rep, tree>> /\ Lets
    BY DEF Handled, ServerAlone
<1>4. Posted' \subseteq Posted \cup News'
    BY <1>3 DEF Posted, News
<1>5. Received' \subseteq Received
    BY <1>3 DEF Received, Lets
<1>6. got' = got \/ got' = <<>>
    BY <1>1 DEF Asks
<1>7. Taken' \subseteq Taken
    <2>1. DOMAIN <<>> = {}
        BY SmallSeqs
    <2> QED
        BY <1>6, <2>1 DEF Taken
<1>8. \A x \in News' : x.ser > serial /\ x.ser <= serial' /\ x.ser \in Nat
    BY <1>2 DEF News
<1> QED
    BY <1>2, <1>3, <1>4, <1>5, <1>6, <1>7, <1>8

----------------------------------------------------------------------------
(***************************************************************************)
(* What the server does with data and handles.                             *)
(***************************************************************************)
\* The handles but that of the request r, and the one that it closes, stay.
HandlesStay(r) ==
    \A h \in DOMAIN handles :
       h # r.ser /\ (r.op = "CLOSE" => h # r.arg) =>
          h \in DOMAIN handles' /\ handles'[h].ino = handles[h].ino

HandleTypes == \A h \in DOMAIN handles : \E ino, left : handles[h] = [ino |-> ino, left |-> left]
FilesHaveData ==
    /\ Path \subseteq DOMAIN data
    /\ \A p \in Path : tree[p].kind = "file" => tree[p].ino \in DOMAIN data

\* What is written is what was asked for, where it was asked for.
Writes(r, type, val) ==
    /\ type = "STATUS"
    /\ val = "OK" => \A d \in Seq(Byte) :
          Holds(r.arg[1], d) /\ r.arg[2] = Len(d) /\ r.arg[3] \in Seq(Byte) =>
             Holds(r.arg[1], d \o r.arg[3])'

\* A file that is opened for writing is empty.
Empties(r, type, val) ==
    IF type = "HANDLE" THEN Holds(r.ser, <<>>)' ELSE data' = data

ServedRight(r, type, val) ==
    /\ Reply(type, val)
    /\ type = "HANDLE" => val = r.ser /\ r.ser \in DOMAIN handles'
    /\ HandlesStay(r) /\ HandleTypes' /\ FilesHaveData'
    /\ ~ Changing(r) => data' = data
    /\ r.op = "OPEN" /\ Changing(r) => Empties(r, type, val)
    /\ r.op = "WRITE" => Writes(r, type, val)

LEMMA RefuseData ==
    ASSUME ServerData, NEW r, r = Head(req), NEW s, s # "OK", Refuse(s)
    PROVE  ServedRight(r, "STATUS", s)
<1>1. UNCHANGED <<tree, data, handles>> /\ Reply("STATUS", s)
    BY DEF Refuse, KeepTree, Status
<1> QED
    BY <1>1 DEF ServedRight, HandlesStay, HandleTypes, FilesHaveData, ServerData, Empties, Writes

\* A new handle.
LEMMA NewHandleData ==
    ASSUME ServerData, NEW r, r = Head(req), NEW ino, NEW left, NewHandle(ino, left)
    PROVE  /\ Reply("HANDLE", r.ser) /\ r.ser \in DOMAIN handles' /\ HandlesStay(r) /\ HandleTypes'
           /\ handles'[r.ser].ino = ino
<1>1. /\ Reply("HANDLE", r.ser)
      /\ handles' = Put(handles, r.ser, [ino |-> ino, left |-> left])
    BY DEF NewHandle
<1>2. /\ DOMAIN handles' = DOMAIN handles \cup {r.ser}
      /\ \A h \in DOMAIN handles' :
            handles'[h] = IF h = r.ser THEN [ino |-> ino, left |-> left] ELSE handles[h]
    BY <1>1 DEF Put
<1>3. HandleTypes'
    <2> SUFFICES ASSUME NEW h \in DOMAIN handles'
                 PROVE  \E i, l : handles'[h] = [ino |-> i, left |-> l]
        BY DEF HandleTypes
    <2>1. CASE h = r.ser
        <3>1. handles'[h] = [ino |-> ino, left |-> left]
            BY <1>2, <2>1
        <3> QED
            BY <3>1, Zenon
    <2>2. CASE h # r.ser
        <3>1. h \in DOMAIN handles /\ handles'[h] = handles[h]
            BY <1>2, <2>2
        <3>2. \E i, l : handles[h] = [ino |-> i, left |-> l]
            BY <3>1 DEF ServerData
        <3> QED
            BY <3>1, <3>2
    <2> QED
        BY <2>1, <2>2
<1>4. HandlesStay(r)
    BY <1>2 DEF HandlesStay
<1>5. handles'[r.ser].ino = ino
    BY <1>2
<1> QED
    BY <1>1, <1>2, <1>3, <1>4, <1>5

LEMMA OpenData ==
    ASSUME ServerData, DOMAIN tree = Path, NEW r, r = Head(req), r.op = "OPEN", NEW p \in Path, NEW mode,
           r.arg[2] = mode, Open(p, mode)
    PROVE  \E type, val : ServedRight(r, type, val)
<1>1. ASSUME NEW s, s # "OK", Refuse(s) PROVE \E type, val : ServedRight(r, type, val)
    BY <1>1, RefuseData
<1>2. KindOf(p) = tree[p].kind
    BY ServerAssumption DEF KindOf
<1>3. Missing(p) # "OK"
    BY DEF Missing
<1>4. CASE mode = "ReadOnly"
    <2>1. CASE NewHandle(tree[p].ino, {}) /\ KeepTree /\ UNCHANGED data
        <3>1. FilesHaveData'
            BY <2>1 DEF KeepTree, FilesHaveData, ServerData
        <3>2. ~ Changing(r)
            BY <1>4 DEF Changing
        <3>3. /\ Reply("HANDLE", r.ser) /\ r.ser \in DOMAIN handles'
              /\ HandlesStay(r) /\ HandleTypes'
            BY <2>1, NewHandleData
        <3>4. ServedRight(r, "HANDLE", r.ser)
            BY <2>1, <3>1, <3>2, <3>3 DEF ServedRight
        <3> QED
            BY <3>4
    <2> QED
        BY <1>1, <1>3, <1>4, <2>1 DEF Open
<1>5. CASE mode # "ReadOnly" /\ ~ \E s : s # "OK" /\ Refuse(s)
    <2>1. PICK ino, left :
             /\ NewHandle(ino, left) /\ ino \in DOMAIN data' /\ data'[ino] = <<>>
             /\ DOMAIN data' = DOMAIN data \cup {ino}
             /\ \/ tree' = tree
                \/ tree' = [tree EXCEPT ![p] = [kind |-> "file", ino |-> ino]]
        <3>1. CASE /\ mode = "Overwrite" /\ KindOf(p) = "file"
                   /\ NewHandle(tree[p].ino, {}) /\ KeepTree
                   /\ data' = [data EXCEPT ![tree[p].ino] = <<>>]
            <4>1. tree[p].ino \in DOMAIN data
                BY <1>2, <3>1 DEF ServerData
            <4> QED
                BY <3>1, <4>1 DEF KeepTree
        <3>2. CASE LET ino == Head(req).ser IN
                     /\ NewHandle(ino, {})
                     /\ data' = Put(data, ino, <<>>)
                     /\ SetTree([tree EXCEPT ![p] = [kind |-> "file", ino |-> ino]])
            <4>1. /\ NewHandle(r.ser, {}) /\ data' = Put(data, r.ser, <<>>)
                  /\ tree' = [tree EXCEPT ![p] = [kind |-> "file", ino |-> r.ser]]
                BY <3>2 DEF SetTree
            <4> QED
                BY <4>1 DEF Put
        <3> QED
            BY <1>3, <1>5, <3>1, <3>2 DEF Open
    <2>2. /\ Reply("HANDLE", r.ser) /\ r.ser \in DOMAIN handles'
          /\ HandlesStay(r) /\ HandleTypes' /\ handles'[r.ser].ino = ino
        BY <2>1, NewHandleData
    <2>3. FilesHaveData'
        <3>1. Path \subseteq DOMAIN data'
            BY <2>1 DEF ServerData
        <3>2. \A q \in Path : tree'[q] = tree[q] \/ tree'[q] = [kind |-> "file", ino |-> ino]
            BY <2>1
        <3>3. ASSUME NEW q \in Path, tree'[q].kind = "file"
              PROVE  tree'[q].ino \in DOMAIN data'
            <4>1. CASE tree'[q] = tree[q]
                BY <2>1, <3>3, <4>1 DEF ServerData
            <4>2. CASE tree'[q] = [kind |-> "file", ino |-> ino]
                BY <2>1, <4>2
            <4> QED
                BY <3>2, <4>1, <4>2
        <3> QED
            BY <3>1, <3>3 DEF FilesHaveData
    <2>4. Empties(r, "HANDLE", r.ser)
        BY <2>1, <2>2 DEF Empties, Holds
    <2>5. ServedRight(r, "HANDLE", r.ser)
        BY <1>5, <2>2, <2>3, <2>4 DEF ServedRight, Changing
    <2> QED
        BY <2>5
<1> QED
    BY <1>1, <1>4, <1>5


\* Whatever changes names only.
LEMMA NamesData ==
    ASSUME ServerData, DOMAIN tree = Path, NEW r, r = Head(req), r.op # "WRITE", ~ Changing(r),
           NEW type, NEW val, type # "HANDLE", Reply(type, val), UNCHANGED <<data, handles>>,
           \A p \in Path : tree'[p].kind = "file" => \E q \in Path : tree'[p] = tree[q]
    PROVE  ServedRight(r, type, val)
<1>1. HandlesStay(r) /\ HandleTypes'
    BY DEF HandlesStay, HandleTypes, ServerData
<1>2. FilesHaveData'
    BY DEF FilesHaveData, ServerData
<1> QED
    BY <1>1, <1>2 DEF ServedRight

LEMMA NameOpsData ==
    ASSUME ServerData, DOMAIN tree = Path, NEW r, r = Head(req), ~ Changing(r),
           \/ \E p \in Path : MkDir(p)
           \/ \E p \in Path : \E kinds : Unlink(p, kinds)
           \/ \E p, q \in Path : \E replace : Rename(p, q, replace)
           \/ \E p, q \in Path : Extended(p, q)
           \/ \E p : Stat(p) \/ ReadLink(p)
    PROVE  \E type, val : ServedRight(r, type, val)
<1>1. ASSUME NEW s, s # "OK", Refuse(s) PROVE \E type, val : ServedRight(r, type, val)
    BY <1>1, RefuseData
<1>2. \A p : Missing(p) # "OK"
    BY DEF Missing
<1>3. r.op # "WRITE"
    BY DEF Changing
<1>4. ASSUME NEW t, SetTree(t), Status("OK"), UNCHANGED <<data, handles>>,
             \A p \in Path : t[p].kind = "file" => \E q \in Path : t[p] = tree[q]
      PROVE  \E type, val : ServedRight(r, type, val)
    <2>1. Reply("STATUS", "OK") /\ tree' = t
        BY <1>4 DEF Status, SetTree
    <2>2. ServedRight(r, "STATUS", "OK")
        BY <1>3, <1>4, <2>1, NamesData
    <2> QED
        BY <2>2
<1>5. ASSUME NEW p \in Path, MkDir(p) PROVE \E type, val : ServedRight(r, type, val)
    <2> DEFINE t == [tree EXCEPT ![p] = [kind |-> "dir", ino |-> 0]]
    <2>1. \A q \in Path : t[q].kind = "file" => t[q] = tree[q]
        OBVIOUS
    <2>2. CASE SetTree(t) /\ Status("OK") /\ UNCHANGED <<data, handles>>
        <3> HIDE DEF t
        <3> QED
            BY <1>4, <2>1, <2>2
    <2> QED
        BY <1>1, <1>5, <2>2 DEF MkDir
<1>6. ASSUME NEW p \in Path, NEW kinds, Unlink(p, kinds)
      PROVE  \E type, val : ServedRight(r, type, val)
    <2> DEFINE t == [tree EXCEPT ![p] = Nothing]
    <2>1. \A q \in Path : t[q].kind = "file" => t[q] = tree[q]
        BY DEF Nothing
    <2>2. CASE SetTree(t) /\ Status("OK") /\ UNCHANGED <<data, handles>>
        <3> HIDE DEF t
        <3> QED
            BY <1>4, <2>1, <2>2
    <2> QED
        BY <1>1, <1>2, <1>6, <2>2 DEF Unlink
<1>7. ASSUME NEW p \in Path, NEW q \in Path, NEW replace, Rename(p, q, replace)
      PROVE  \E type, val : ServedRight(r, type, val)
    <2> DEFINE t == [tree EXCEPT ![p] = Nothing, ![q] = tree[p]]
    <2>1. \A x \in Path : t[x].kind = "file" => t[x] = tree[x] \/ t[x] = tree[p]
        BY DEF Nothing
    <2>2. CASE SetTree(t) /\ Status("OK") /\ UNCHANGED <<data, handles>>
        <3> HIDE DEF t
        <3> QED
            BY <1>4, <2>1, <2>2
    <2> QED
        BY <1>1, <1>2, <1>7, <2>2 DEF Rename
<1>8. ASSUME NEW p \in Path, NEW q \in Path, Extended(p, q)
      PROVE  \E type, val : ServedRight(r, type, val)
    BY <1>1, <1>7, <1>8 DEF Extended
<1>9. ASSUME NEW p, Stat(p) \/ ReadLink(p) PROVE \E type, val : ServedRight(r, type, val)
    <2>1. CASE \E type \in {"ATTRS", "NAME"} : \E val :
                  Reply(type, val) /\ KeepTree /\ UNCHANGED <<data, handles>>
        <3>1. PICK type \in {"ATTRS", "NAME"} : \E val :
                  Reply(type, val) /\ KeepTree /\ UNCHANGED <<data, handles>>
            BY <2>1
        <3>2. PICK val : Reply(type, val) /\ UNCHANGED <<tree, data, handles>>
            BY <3>1 DEF KeepTree
        <3>3. ServedRight(r, type, val)
            BY <1>3, <3>2, NamesData
        <3> QED
            BY <3>3
    <2> QED
        BY <1>1, <1>2, <1>9, <2>1 DEF Stat, ReadLink
<1> QED
    BY <1>5, <1>6, <1>7, <1>8, <1>9


\* Handles are closed, directories opened and read, files read.
LEMMA HandleOpsData ==
    ASSUME ServerData, NEW r, r = Head(req), ~ Changing(r),
           \/ \E p : OpenDir(p)
           \/ \E h : ReadDir(h) /\ r.op = "READDIR"
           \/ \E h, o, n : Read(h, o, n)
           \/ Close(r.arg) /\ r.op = "CLOSE"
    PROVE  \E type, val : ServedRight(r, type, val)
<1>1. ASSUME NEW s, s # "OK", Refuse(s) PROVE \E type, val : ServedRight(r, type, val)
    BY <1>1, RefuseData
<1>2. \A p : Missing(p) # "OK"
    BY DEF Missing
<1>3. r.op # "WRITE"
    BY DEF Changing
<1>4. KeepTree /\ data' = data => FilesHaveData'
    BY DEF KeepTree, FilesHaveData, ServerData
<1>5. ASSUME NEW p, OpenDir(p) PROVE \E type, val : ServedRight(r, type, val)
    <2>1. CASE \E left : NewHandle(0, left) /\ KeepTree /\ UNCHANGED data
        <3>1. PICK left : NewHandle(0, left) /\ KeepTree /\ UNCHANGED data
            BY <2>1
        <3>2. /\ Reply("HANDLE", r.ser) /\ r.ser \in DOMAIN handles'
              /\ HandlesStay(r) /\ HandleTypes'
            BY <3>1, NewHandleData
        <3>3. ServedRight(r, "HANDLE", r.ser)
            BY <1>3, <1>4, <3>1, <3>2 DEF ServedRight
        <3> QED
            BY <3>3
    <2> QED
        BY <1>1, <1>2, <1>5, <2>1 DEF OpenDir
<1>6. ASSUME NEW h, ReadDir(h), r.op = "READDIR" PROVE \E type, val : ServedRight(r, type, val)
    <2>1. CASE \E s : /\ Reply("NAME", s) /\ KeepTree /\ UNCHANGED data
                      /\ handles' = [handles EXCEPT ![h].left = @ \ s]
        <3>1. PICK s : /\ Reply("NAME", s) /\ KeepTree /\ UNCHANGED data
                       /\ handles' = [handles EXCEPT ![h].left = @ \ s]
            BY <2>1
        <3>2. DOMAIN handles' = DOMAIN handles
            BY <3>1
        <3>3. ASSUME NEW x \in DOMAIN handles
              PROVE  \E ino, left, l : /\ handles[x] = [ino |-> ino, left |-> left]
                                       /\ handles'[x] = [ino |-> ino, left |-> l]
            <4>1. PICK ino, left : handles[x] = [ino |-> ino, left |-> left]
                BY DEF ServerData
            <4>2. CASE x = h
                <5>1. handles'[x] = [handles[x] EXCEPT !.left = @ \ s]
                    BY <3>1, <4>2
                <5>2. handles'[x] = [ino |-> ino, left |-> left \ s]
                    BY <4>1, <5>1
                <5> QED
                    BY <4>1, <5>2
            <4>3. CASE x # h
                <5>1. handles'[x] = handles[x]
                    BY <3>1, <4>3
                <5> QED
                    BY <4>1, <5>1
            <4> QED
                BY <4>2, <4>3
        <3>4. HandleTypes'
            BY <3>2, <3>3 DEF HandleTypes
        <3>5. HandlesStay(r)
            <4>1. ASSUME NEW x \in DOMAIN handles PROVE handles'[x].ino = handles[x].ino
                <5>1. PICK ino, left, l : /\ handles[x] = [ino |-> ino, left |-> left]
                                          /\ handles'[x] = [ino |-> ino, left |-> l]
                    BY <3>3
                <5> QED
                    BY <5>1
            <4> QED
                BY <3>2, <4>1 DEF HandlesStay
        <3>6. ServedRight(r, "NAME", s)
            BY <1>3, <1>4, <3>1, <3>4, <3>5 DEF ServedRight
        <3> QED
            BY <3>6
    <2> QED
        BY <1>1, <1>6, <2>1 DEF ReadDir
<1>7. ASSUME NEW h, NEW o, NEW n, Read(h, o, n) PROVE \E type, val : ServedRight(r, type, val)
    <2>1. CASE \E s : Reply("DATA", s) /\ KeepTree /\ UNCHANGED <<data, handles>>
        <3>1. PICK s : Reply("DATA", s) /\ KeepTree /\ UNCHANGED <<data, handles>>
            BY <2>1
        <3>2. HandlesStay(r) /\ HandleTypes'
            BY <3>1 DEF HandlesStay, HandleTypes, ServerData
        <3>3. ServedRight(r, "DATA", s)
            BY <1>3, <1>4, <3>1, <3>2 DEF ServedRight
        <3> QED
            BY <3>3
    <2> QED
        BY <1>1, <1>7, <2>1 DEF Read
<1>8. ASSUME Close(r.arg), r.op = "CLOSE" PROVE \E type, val : ServedRight(r, type, val)
    <2>1. /\ Reply("STATUS", "OK") /\ KeepTree /\ UNCHANGED data
          /\ DOMAIN handles' = DOMAIN handles \ {r.arg}
          /\ \A h \in DOMAIN handles' : handles'[h] = handles[h]
        BY <1>8 DEF Close, Status, RestrictDomain, Restrict
    <2>2. HandlesStay(r) /\ HandleTypes'
        BY <1>8, <2>1 DEF HandlesStay, HandleTypes, ServerData
    <2>3. ServedRight(r, "STATUS", "OK")
        BY <1>3, <1>4, <1>8, <2>1, <2>2 DEF ServedRight
    <2> QED
        BY <2>3
<1> QED
    BY <1>5, <1>6, <1>7, <1>8

\* What a file of data d holds once b is written at offset o.
PutAt(d, o, b) ==
    [i \in 1..(IF o + Len(b) > Len(d) THEN o + Len(b) ELSE Len(d)) |->
        IF i \in o + 1 .. o + Len(b) THEN b[i - o] ELSE d[i]]

\* Writing at the end of a file appends to it.
LEMMA AppendedIsConcat ==
    ASSUME NEW d \in Seq(Byte), NEW b \in Seq(Byte)
    PROVE  PutAt(d, Len(d), b) = d \o b
<1> DEFINE c == d \o b
           o == Len(d)
           top == IF o + Len(b) > o THEN o + Len(b) ELSE o
<1>1. /\ c \in Seq(Byte) /\ Len(c) = Len(d) + Len(b)
      /\ \A i \in 1 .. Len(d) + Len(b) :
            c[i] = IF i <= Len(d) THEN d[i] ELSE b[i - Len(d)]
    BY ConcatProperties
<1>2. o \in Nat /\ Len(b) \in Nat /\ o = Len(d)
    BY LenProperties
<1>3. top = o + Len(b)
    BY <1>2
<1>4. PutAt(d, Len(d), b) = [i \in 1 .. top |-> IF i \in o + 1 .. o + Len(b) THEN b[i - o] ELSE d[i]]
    BY DEF PutAt
<1> HIDE DEF c, top, o
<1>5. c \in [1 .. top -> Byte]
    BY <1>1, <1>2, <1>3, LenProperties
<1>6. \A i \in 1 .. top : c[i] = IF i \in o + 1 .. o + Len(b) THEN b[i - o] ELSE d[i]
    BY <1>1, <1>2, <1>3
<1>7. c = [i \in 1 .. top |-> IF i \in o + 1 .. o + Len(b) THEN b[i - o] ELSE d[i]]
    BY <1>5, <1>6
<1> QED
    BY <1>4, <1>7 DEF c

LEMMA WriteData ==
    ASSUME ServerData, NEW r, r = Head(req), r.op = "WRITE",
           Write(r.arg[1], r.arg[2], r.arg[3])
    PROVE  ServedRight(r, "STATUS", "OK")
<1> DEFINE h == r.arg[1]
           offset == r.arg[2]
           b == r.arg[3]
           ino == handles[h].ino
           New(d) == PutAt(d, offset, b)
<1>1. /\ Reply("STATUS", "OK") /\ tree' = tree /\ handles' = handles
      /\ data' = [data EXCEPT ![ino] = New(data[ino])]
    BY DEF Write, KeepTree, Status, PutAt
<1>2. DOMAIN data' = DOMAIN data /\ (ino \in DOMAIN data => data'[ino] = New(data[ino]))
    BY <1>1, SMTT(60)
<1>3. Writes(r, "STATUS", "OK")
    <2> SUFFICES ASSUME NEW d \in Seq(Byte), Holds(h, d), offset = Len(d), b \in Seq(Byte)
                 PROVE  Holds(h, d \o b)'
        BY DEF Writes
    <2>1. ino \in DOMAIN data /\ data[ino] = d /\ h \in DOMAIN handles
        BY DEF Holds
    <2>2. data'[ino] = New(d)
        BY <1>2, <2>1
    <2>3. New(d) = d \o b
        BY AppendedIsConcat
    <2> HIDE DEF New
    <2> QED
        BY <1>1, <1>2, <2>1, <2>2, <2>3 DEF Holds
<1> HIDE DEF New
<1>4. HandlesStay(r) /\ HandleTypes' /\ FilesHaveData'
    BY <1>1, <1>2 DEF HandlesStay, HandleTypes, FilesHaveData, ServerData
<1>5. Changing(r)
    BY DEF Changing
<1> QED
    BY <1>1, <1>3, <1>4, <1>5, SMTT(60) DEF ServedRight

\* A request is served or refused.
LEMMA ServeData ==
    ASSUME SftpInv, ServerData, Serve \/ Fail, NEW r, r = Head(req), r.op \in Op, ArgsRight(r)
    PROVE  \E type, val : ServedRight(r, type, val)
<1>1. CASE Fail
    <2>1. ServedRight(r, "STATUS", "FAILURE")
        BY <1>1, RefuseData DEF Fail
    <2> QED
        BY <2>1
<1>2. CASE Serve
    <2>1. DOMAIN tree = Path
        BY DEF SftpInv, TypeOK
    <2>2. ASSUME r.op # "WRITE", r.op # "OPEN" PROVE ~ Changing(r)
        BY <2>2 DEF Changing
    <2>3. CASE r.op = "WRITE"
        <3>1. Write(r.arg[1], r.arg[2], r.arg[3])
            BY <1>2, <2>3 DEF Serve
        <3> QED
            BY <2>3, <3>1, WriteData
    <2>4. CASE r.op = "OPEN"
        <3>1. Open(r.arg[1], r.arg[2]) /\ r.arg[1] \in Path
            BY <1>2, <2>4 DEF Serve, ArgsRight
        <3> QED
            BY <2>1, <2>4, <3>1, OpenData
    <2>5. CASE r.op \in {"STAT", "READLINK", "MKDIR", "REMOVE", "RMDIR", "RENAME", "POSIX_RENAME"}
        <3>1. \/ \E p : Stat(p) \/ ReadLink(p)
              \/ \E p \in Path : MkDir(p)
              \/ \E p \in Path : \E kinds : Unlink(p, kinds)
              \/ \E p, q \in Path : \E replace : Rename(p, q, replace)
              \/ \E p, q \in Path : Extended(p, q)
            BY <1>2, <2>5 DEF Serve, ArgsRight
        <3>2. ~ Changing(r)
            BY <2>2, <2>5
        <3> QED
            BY <2>1, <3>1, <3>2, NameOpsData
    <2>6. CASE r.op \in {"OPENDIR", "READDIR", "READ", "CLOSE"}
        <3>1. \/ \E p : OpenDir(p)
              \/ \E h : ReadDir(h) /\ r.op = "READDIR"
              \/ \E h, o, n : Read(h, o, n)
              \/ Close(r.arg) /\ r.op = "CLOSE"
            BY <1>2, <2>6 DEF Serve
        <3>2. ~ Changing(r)
            BY <2>2, <2>6
        <3> QED
            BY <3>1, <3>2, HandleOpsData
    <2> QED
        BY <2>3, <2>4, <2>5, <2>6 DEF Op
<1> QED
    BY <1>1, <1>2

----------------------------------------------------------------------------
(***************************************************************************)
(* Steps of the server, of other users, and of the round.                  *)
(***************************************************************************)
LEMMA SettledStays ==
    ASSUME serial \in Nat, serial' \in Nat, serial <= serial',
           \A x \in Posted' \cup Received' \cup Taken' :
              x.ser > serial \/ \E y \in Posted \cup Received \cup Taken : y.ser = x.ser,
           NEW h, Settled(h)
    PROVE  Settled(h)'
<1>1. h \in 0 .. serial' /\ h <= serial /\ \A y \in Posted \cup Received \cup Taken : y.ser # h
    BY DEF Settled
<1>2. \A x \in Posted' \cup Received' \cup Taken' : x.ser # h
    BY <1>1
<1> QED
    BY <1>1, <1>2 DEF Settled

LEMMA HoldsStays ==
    ASSUME NEW h, NEW d, Holds(h, d), NEW r, HandlesStay(r), data' = data,
           h # r.ser, r.op = "CLOSE" => h # r.arg
    PROVE  Holds(h, d)'
BY DEF Holds, HandlesStay

\* A step that takes nothing but requests and replies away.
Shrinks ==
    /\ Posted' \subseteq Posted /\ Received' \subseteq Received
    /\ UNCHANGED <<data, handles, file, serial, wait, got>>
    /\ \/ call' = call
       \/ call.op \in {"return", "prefigure", "close"} /\ call' = Idle

LEMMA ShrinksInv ==
    ASSUME SftpInv, HandleInv, FileInv, Shrinks
    PROVE  HandleInv' /\ FileInv'
<1>1. /\ Posted' \subseteq Posted /\ Received' \subseteq Received /\ Taken' = Taken
      /\ UNCHANGED <<data, handles, file, serial, wait, got>>
      /\ (call' = call \/ (call.op \in {"return", "prefigure", "close"} /\ call' = Idle))
      /\ serial \in Nat
    BY DEF Shrinks, Taken, SftpInv, TypeOK
<1>2. \A h : Settled(h) => Settled(h)'
    BY <1>1 DEF Settled
<1>3. Idle.op = "none"
    BY DEF Idle
<1>4. HandleInv'
    <2>1. \A a \in Taken' : a.ser \in 1 .. serial' /\ \A x \in Posted' \cup Received' : x.ser # a.ser
        BY <1>1 DEF HandleInv
    <2>2. \A a \in Received' \cup Taken' : a.type = "HANDLE" => a.val = a.ser
        BY <1>1 DEF HandleInv
    <2>3. \A r \in Posted' : r.op = "CLOSE" =>
             Settled(r.arg)' /\ (file' # NoFile => r.arg # file'.handle)
        BY <1>1, <1>2 DEF HandleInv
    <2>4. file' # NoFile => file'.handle # 0 /\ Settled(file.handle)'
        BY <1>1, <1>2 DEF HandleInv
    <2>5. call'.op = "contents" =>
             Settled(call.more.handle)' /\ (file' # NoFile => call'.more.handle # file'.handle)
        BY <1>1, <1>2, <1>3 DEF HandleInv
    <2>6. call'.op = "type" => Len(wait') + Len(got') = 3
        BY <1>1, <1>3 DEF HandleInv
    <2> QED
        BY <2>1, <2>2, <2>3, <2>4, <2>5, <2>6 DEF HandleInv
<1>5. \A h, d : Holds(h, d)' <=> Holds(h, d)
    BY <1>1 DEF Holds
<1>6. Written' <=> Written
    BY <1>1 DEF Written
<1>7. \A s : OneRequest(s) => OneRequest(s)'
    BY <1>1 DEF OneRequest
<1>8. CASE call.op = "open"
    <2>1. PICK s \in 1 .. serial : OneRequest(s) /\ Opening(s)
        BY <1>8 DEF FileInv
    <2>2. call' = call
        BY <1>1, <1>8
    <2>3. Opening(s)'
        BY <1>1, <1>5, <2>1, <2>2 DEF Opening
    <2> QED
        BY <1>1, <1>4, <1>7, <1>8, <2>1, <2>2, <2>3 DEF FileInv
<1>9. CASE call.op = "write"
    <2>1. PICK s \in 1 .. serial : OneRequest(s) /\ Storing(s)
        BY <1>9 DEF FileInv
    <2>2. call' = call
        BY <1>1, <1>9
    <2>3. Storing(s)'
        BY <1>1, <1>5, <1>6, <2>1, <2>2 DEF Storing
    <2> QED
        BY <1>1, <1>4, <1>7, <1>9, <2>1, <2>2, <2>3 DEF FileInv
<1>10. CASE call.op \notin {"open", "write"}
    <2>1. Calm
        BY <1>10 DEF FileInv
    <2>2. Calm'
        BY <1>1, <1>3, <1>5, <1>6, <2>1 DEF Calm
    <2> QED
        BY <1>1, <1>3, <1>4, <1>10, <2>2 DEF FileInv
<1> QED
    BY <1>8, <1>9, <1>10

LEMMA ServeFile ==
    ASSUME SftpInv, HandleInv, ServerData, FileInv, Serve \/ Fail, UNCHANGED cvars
    PROVE  HandleInv' /\ ServerData' /\ FileInv'
<1>0. PICK r : r = Head(req)
    OBVIOUS
<1>1. PICK type, val : type \in ReplyType /\ Reply(type, val)
    BY ServerReplies
<1>2. r \in Posted /\ r.op \in Op /\ ArgsRight(r)
    BY <1>0, <1>1, ServePosted
<1>3. PICK t, v : ServedRight(r, t, v)
    BY <1>0, <1>2, ServeData
<1>4. /\ Reply(t, v) /\ HandlesStay(r) /\ HandleTypes' /\ FilesHaveData'
      /\ t = "HANDLE" => v = r.ser
      /\ ~ Changing(r) => data' = data
      /\ r.op = "OPEN" /\ Changing(r) => Empties(r, t, v)
      /\ r.op = "WRITE" => Writes(r, t, v)
    BY <1>3 DEF ServedRight
<1>5. /\ r.ser \in 1 .. serial
      /\ Posted' \subseteq Posted /\ \A x \in Posted' : x.ser # r.ser
      /\ UNCHANGED <<file, serial, wait, got, call>> /\ Taken' = Taken
      /\ \E a : /\ a.ser = r.ser /\ a.type = t /\ a.val = v
                /\ Received' = Received \cup {a}
    BY <1>0, <1>4, ServePosted
<1>6. PICK a : /\ a.ser = r.ser /\ a.type = t /\ a.val = v
               /\ Received' = Received \cup {a}
    BY <1>5
<1>7. serial \in Nat
    BY DEF SftpInv, TypeOK
<1>8. \A h : Settled(h) => Settled(h)'
    <2>1. \A x \in Posted' \cup Received' \cup Taken' :
             \E y \in Posted \cup Received \cup Taken : y.ser = x.ser
        BY <1>2, <1>5, <1>6
    <2> QED
        BY <1>5, <1>7, <2>1, SettledStays
<1>9. ServerData'
    BY <1>4 DEF ServerData, HandleTypes, FilesHaveData
<1>10. HandleInv'
    <2>1. \A b \in Taken' : b.ser \in 1 .. serial' /\ \A x \in Posted' \cup Received' : x.ser # b.ser
        BY <1>2, <1>5, <1>6 DEF HandleInv
    <2>2. \A b \in Received' \cup Taken' : b.type = "HANDLE" => b.val = b.ser
        BY <1>4, <1>5, <1>6 DEF HandleInv
    <2>3. \A x \in Posted' : x.op = "CLOSE" =>
             Settled(x.arg)' /\ (file' # NoFile => x.arg # file'.handle)
        BY <1>5, <1>8 DEF HandleInv
    <2>4. file' # NoFile => file'.handle # 0 /\ Settled(file.handle)'
        BY <1>5, <1>8 DEF HandleInv
    <2>5. call'.op = "contents" =>
             Settled(call.more.handle)' /\ (file' # NoFile => call'.more.handle # file'.handle)
        BY <1>5, <1>8 DEF HandleInv
    <2>6. call'.op = "type" => Len(wait') + Len(got') = 3
        BY <1>5 DEF HandleInv
    <2> QED
        BY <2>1, <2>2, <2>3, <2>4, <2>5, <2>6 DEF HandleInv
\* A request that changes nothing leaves open files alone.
<1>11. ASSUME ~ Changing(r), file # NoFile, NEW d, Holds(file.handle, d)
       PROVE  Holds(file.handle, d)'
    <2>1. file.handle # r.ser /\ (r.op = "CLOSE" => file.handle # r.arg)
        BY <1>2, <1>11 DEF HandleInv, Settled
    <2>2. Holds(file.handle, d)' <=> (Holds(file.handle, d)' /\ file' = file)
        BY <1>5
    <2>3. PICK h : h = file.handle /\ h = file'.handle
        BY <1>5
    <2>4. Holds(h, d)'
        BY <1>4, <1>11, <2>1, <2>3, HoldsStays
    <2> QED
        BY <2>3, <2>4 DEF Holds
<1>12. \A s : OneRequest(s) => OneRequest(s)'
    BY <1>5 DEF OneRequest
<1>13. CASE call.op = "open"
    <2>1. PICK s \in 1 .. serial : OneRequest(s) /\ Opening(s)
        BY <1>13 DEF FileInv
    <2>2. ASSUME NEW b \in Received' \cup Taken', b.ser = s, b.type = "HANDLE",
                 call.more # "ReadOnly"
          PROVE  Holds(s, <<>>)'
        <3>1. CASE b = a
            <4>1. r.ser = s /\ r.op = "OPEN" /\ r.arg[2] = call.more
                BY <1>2, <1>6, <2>1, <2>2, <3>1 DEF Opening
            <4>2. Changing(r)
                BY <2>2, <4>1 DEF Changing
            <4> QED
                BY <1>4, <1>6, <2>2, <3>1, <4>1, <4>2 DEF Empties, Holds
        <3>2. CASE b \in Received \cup Taken
            <4>1. Holds(s, <<>>)
                BY <2>1, <2>2, <3>2 DEF Opening
            <4>2. r.ser # s
                BY <1>2, <2>2, <3>2, PostedApart DEF HandleInv
            <4>3. ~ Changing(r)
                BY <1>2, <2>1, <4>2 DEF Opening
            <4>4. r.op = "CLOSE" => s # r.arg
                BY <1>2, <2>2, <3>2 DEF HandleInv, Settled
            <4> QED
                BY <1>4, <4>1, <4>2, <4>3, <4>4, HoldsStays
        <3> QED
            BY <1>5, <1>6, <3>1, <3>2
    <2>3. Opening(s)'
        BY <1>5, <2>1, <2>2 DEF Opening
    <2> QED
        BY <1>5, <1>9, <1>10, <1>12, <1>13, <2>1, <2>3 DEF FileInv
<1>14. CASE call.op = "write"
    <2>1. PICK s \in 1 .. serial : OneRequest(s) /\ Storing(s)
        BY <1>14 DEF FileInv
    <2>2. /\ file # NoFile /\ call.more \in Seq(Byte) /\ file.done \in Seq(Byte)
          /\ file.offset = Len(file.done) + Len(call.more) /\ Written
        BY <2>1 DEF Storing, Written
    <2>3. ASSUME NEW b \in Received' \cup Taken', b.ser = s
          PROVE  b.type = "STATUS" /\ (b.val = "OK" => Holds(file.handle, file.done \o call.more)')
        <3>1. CASE b = a
            <4>1. PICK h, d, m : /\ h = file.handle /\ d = file.done /\ m = call.more
                                 /\ h = file'.handle /\ d = file'.done /\ m = call'.more
                BY <1>5
            <4>2. /\ r.op = "WRITE" /\ r.arg = <<h, Len(d), m>> /\ Holds(h, d)
                  /\ d \in Seq(Byte) /\ m \in Seq(Byte)
                BY <1>2, <1>6, <2>1, <2>2, <2>3, <3>1, <4>1 DEF Storing
            <4>3. r.arg[1] = h /\ r.arg[2] = Len(d) /\ r.arg[3] = m
                BY <4>2
            <4>4. Writes(r, t, v)
                BY <1>4, <4>2
            <4>5. t = "STATUS" /\ (v = "OK" => Holds(h, d \o m)')
                BY <4>2, <4>3, <4>4 DEF Writes
            <4> QED
                BY <1>6, <3>1, <4>1, <4>5
        <3>2. CASE b \in Received \cup Taken
            <4>1. b.type = "STATUS" /\ (b.val = "OK" => Holds(file.handle, file.done \o call.more))
                BY <2>1, <2>3, <3>2 DEF Storing
            <4>2. r.ser # s
                BY <1>2, <2>3, <3>2, PostedApart DEF HandleInv
            <4>3. ~ Changing(r)
                BY <1>2, <2>1, <4>2 DEF Storing
            <4>4. PICK d : d = file.done \o call.more /\ d = file'.done \o call'.more
                BY <1>5
            <4>5. Holds(file.handle, d) => Holds(file.handle, d)'
                BY <1>11, <2>2, <4>3
            <4> QED
                BY <4>1, <4>4, <4>5
        <3> QED
            BY <1>5, <1>6, <3>1, <3>2
    <2>4. ASSUME NEW x \in Posted', x.ser = s
          PROVE  /\ x.op = "WRITE" /\ x.arg = <<file'.handle, Len(file'.done), call'.more>>
                 /\ Holds(file.handle, file.done)'
        <3>1. /\ x.op = "WRITE" /\ x.arg = <<file.handle, Len(file.done), call.more>>
              /\ Holds(file.handle, file.done) /\ r.ser # s
            BY <1>5, <2>1, <2>4 DEF Storing
        <3>2. ~ Changing(r)
            BY <1>2, <2>1, <3>1 DEF Storing
        <3>3. PICK d : d = file.done /\ d = file'.done
            BY <1>5
        <3>4. Holds(file.handle, d)'
            BY <1>11, <2>2, <3>1, <3>2, <3>3
        <3> QED
            BY <1>5, <3>1, <3>3, <3>4
    <2>5. \A x \in Posted' : Changing(x) => x.ser = s
        BY <1>5, <2>1 DEF Storing
    <2>6. /\ Written' /\ call'.more \in Seq(Byte) /\ file'.done \in Seq(Byte)
          /\ file'.offset = Len(file'.done) + Len(call'.more)
        BY <1>5, <2>2 DEF Written
    <2>7. \A b \in Received' \cup Taken' : b.ser = s =>
             b.type = "STATUS" /\ (b.val = "OK" => Holds(file.handle, file.done \o call.more)')
        BY <2>3
    <2>8. Storing(s)'
        BY <2>4, <2>5, <2>6, <2>7 DEF Storing
    <2> QED
        BY <1>5, <1>9, <1>10, <1>12, <1>14, <2>1, <2>8 DEF FileInv
<1>15. CASE call.op \notin {"open", "write"}
    <2>1. Calm
        BY <1>15 DEF FileInv
    <2>2. ~ Changing(r)
        BY <1>2, <2>1 DEF Calm
    <2>3. Written' => /\ file'.done \in Seq(Byte) /\ file'.offset = Len(file'.done)
                      /\ Holds(file.handle, file.done)'
        <3> SUFFICES ASSUME Written'
                     PROVE  /\ file'.done \in Seq(Byte) /\ file'.offset = Len(file'.done)
                            /\ Holds(file.handle, file.done)'
            OBVIOUS
        <3>1. /\ file # NoFile /\ file.done \in Seq(Byte) /\ file.offset = Len(file.done)
              /\ Holds(file.handle, file.done)
            BY <1>5, <2>1 DEF Written, Calm
        <3>2. PICK d : d = file.done /\ d = file'.done
            BY <1>5
        <3>3. Holds(file.handle, d)'
            BY <1>11, <2>2, <3>1, <3>2
        <3> QED
            BY <1>5, <3>1, <3>2, <3>3
    <2>4. Calm'
        BY <1>5, <2>1, <2>3 DEF Calm
    <2> QED
        BY <1>5, <1>9, <1>10, <1>15, <2>4 DEF FileInv
<1> QED
    BY <1>9, <1>10, <1>13, <1>14, <1>15

LEMMA AwaitFile ==
    ASSUME SftpInv, MatchInv, FewRequests, HandleInv, FileInv, Await
    PROVE  HandleInv' /\ FileInv'
<1>1. /\ wait # <<>> /\ wait' = Tail(wait) /\ Posted' = Posted /\ Received' \subseteq Received
      /\ UNCHANGED <<data, handles, tree, file, serial, call>>
    BY AwaitPosted
<1>2. PICK a, g : /\ a \in Received /\ a.ser = wait[1].ser
                  /\ g.reply = a /\ got' = Append(got, g)
                  /\ Taken' = Taken \cup {a}
                  /\ \A x \in Posted' \cup Received' : x.ser # a.ser
    BY AwaitPosted
<1>3. a.ser \in 1 .. serial /\ serial \in Nat
    BY <1>2, PostedApart DEF SftpInv, TypeOK
<1>4. \A h : Settled(h) => Settled(h)'
    BY <1>1, <1>2 DEF Settled
<1>5. /\ IsSeq(wait) /\ IsSeq(got) /\ Len(wait') = Len(wait) - 1 /\ Len(got') = Len(got) + 1
      /\ Len(wait) \in Nat /\ Len(got) \in Nat
    <2>1. IsSeq(wait) /\ IsSeq(got)
        BY DEF SftpInv, TypeOK, Shape, IsSeq
    <2> QED
        BY <1>1, <1>2, <2>1, TailSeq, AppendSeq, SeqLength
<1>6. HandleInv'
    <2>1. \A b \in Taken' : b.ser \in 1 .. serial' /\ \A x \in Posted' \cup Received' : x.ser # b.ser
        BY <1>1, <1>2, <1>3 DEF HandleInv
    <2>2. \A b \in Received' \cup Taken' : b.type = "HANDLE" => b.val = b.ser
        BY <1>1, <1>2 DEF HandleInv
    <2>3. \A x \in Posted' : x.op = "CLOSE" =>
             Settled(x.arg)' /\ (file' # NoFile => x.arg # file'.handle)
        BY <1>1, <1>4 DEF HandleInv
    <2>4. file' # NoFile => file'.handle # 0 /\ Settled(file.handle)'
        BY <1>1, <1>4 DEF HandleInv
    <2>5. call'.op = "contents" =>
             Settled(call.more.handle)' /\ (file' # NoFile => call'.more.handle # file'.handle)
        BY <1>1, <1>4 DEF HandleInv
    <2>6. call'.op = "type" => Len(wait') + Len(got') = 3
        BY <1>1, <1>5 DEF HandleInv
    <2> QED
        BY <2>1, <2>2, <2>3, <2>4, <2>5, <2>6 DEF HandleInv
<1>7. \A h, d : Holds(h, d)' <=> Holds(h, d)
    BY <1>1 DEF Holds
<1>8. Written' <=> Written
    BY <1>1 DEF Written
<1>9. ASSUME NEW s, OneRequest(s) PROVE OneRequest(s)'
    <2>1. PICK t : got = <<>> /\ wait = <<t>> /\ t.ser = s
        BY <1>1, <1>9 DEF OneRequest
    <2>2. wait' = <<>> /\ got' = <<g>> /\ a.ser = s
        BY <1>1, <1>2, <2>1
    <2> QED
        BY <1>1, <1>2, <1>9, <2>2 DEF OneRequest
<1>10. \A b \in Received' \cup Taken' : b \in Received \cup Taken
    BY <1>1, <1>2
<1>11. CASE call.op = "open"
    <2>1. PICK s \in 1 .. serial : OneRequest(s) /\ Opening(s)
        BY <1>11 DEF FileInv
    <2>2. Opening(s)'
        BY <1>1, <1>7, <1>10, <2>1 DEF Opening
    <2> QED
        BY <1>1, <1>6, <1>9, <1>11, <2>1, <2>2 DEF FileInv
<1>12. CASE call.op = "write"
    <2>1. PICK s \in 1 .. serial : OneRequest(s) /\ Storing(s)
        BY <1>12 DEF FileInv
    <2>2. Storing(s)'
        BY <1>1, <1>7, <1>8, <1>10, <2>1 DEF Storing
    <2> QED
        BY <1>1, <1>6, <1>9, <1>12, <2>1, <2>2 DEF FileInv
<1>13. CASE call.op \notin {"open", "write"}
    <2>1. Calm
        BY <1>13 DEF FileInv
    <2>2. Calm'
        BY <1>1, <1>7, <1>8, <2>1 DEF Calm
    <2> QED
        BY <1>1, <1>6, <1>13, <2>2 DEF FileInv
<1> QED
    BY <1>11, <1>12, <1>13

\* Other users make and remove names.
LEMMA ChangeData ==
    ASSUME SftpInv, ServerData, NEW p \in Path, Change(p)
    PROVE  ServerData'
<1>1. PICK k \in Kind \ {tree[p].kind} :
         SetTree([tree EXCEPT ![p] = [kind |-> k, ino |-> IF k = "file" THEN p ELSE 0]])
    BY DEF Change
<1>2. UNCHANGED <<data, handles>> /\ DOMAIN tree = Path
    BY DEF Change, SftpInv, TypeOK
<1>3. tree' = [tree EXCEPT ![p] = [kind |-> k, ino |-> IF k = "file" THEN p ELSE 0]]
    BY <1>1 DEF SetTree
<1>4. ASSUME NEW q \in Path, tree'[q].kind = "file" PROVE tree'[q].ino \in DOMAIN data
    <2>1. CASE q = p
        <3>1. tree'[q] = [kind |-> k, ino |-> IF k = "file" THEN p ELSE 0]
            BY <1>2, <1>3, <2>1
        <3>2. tree'[q].ino = p
            BY <1>4, <3>1
        <3> QED
            BY <3>2 DEF ServerData
    <2>2. CASE q # p
        BY <1>2, <1>3, <1>4, <2>2 DEF ServerData
    <2> QED
        BY <2>1, <2>2
<1> QED
    BY <1>2, <1>4 DEF ServerData

\* A step that leaves requests and replies where they are.
LEMMA NothingPosted ==
    ASSUME UNCHANGED <<send, outbuf, req, rep, replies>>
    PROVE  Posted' = Posted /\ Received' = Received
BY DEF Posted, Received, Asking

LEMMA RestFile ==
    ASSUME SftpInv, MatchInv, FewRequests, HandleInv, ServerData, FileInv,
           Move \/ Environment \/ UNCHANGED vars
    PROVE  HandleInv' /\ ServerData' /\ FileInv'
<1>1. UNCHANGED <<tree, data, handles>> => ServerData'
    BY DEF ServerData
<1>2. CASE Poll
    BY <1>1, <1>2, PollPosted, ShrinksInv DEF Shrinks
<1>3. CASE PutRequest
    BY <1>1, <1>3, PutPosted, ShrinksInv DEF Shrinks
<1>4. CASE FlushRequest
    BY <1>1, <1>4, FlushPosted, ShrinksInv DEF Shrinks
<1>5. CASE Await
    BY <1>1, <1>5, AwaitFile, AwaitPosted
<1>6. CASE Die \/ Return \/ UNCHANGED vars
    <2>1. /\ UNCHANGED <<send, outbuf, req, rep, replies, tree, data, handles, file, serial, wait, got>>
          /\ \/ call' = call
             \/ call.op \in {"return", "prefigure", "close"} /\ call' = Idle
        BY <1>6 DEF Die, Return, vars, svars, cvars, link, round
    <2> QED
        BY <1>1, <2>1, NothingPosted, ShrinksInv DEF Shrinks
<1>7. CASE HangUp /\ UNCHANGED cvars
    <2>1. UNCHANGED <<send, outbuf, req, rep, replies, tree, data, handles, file, serial, wait, got, call>>
        BY <1>7 DEF HangUp, cvars, link, round
    <2> QED
        BY <1>1, <2>1, NothingPosted, ShrinksInv DEF Shrinks
<1>8. CASE (\E p \in Path : Change(p)) /\ UNCHANGED cvars
    <2>1. UNCHANGED <<send, outbuf, req, rep, replies, data, handles, file, serial, wait, got, call>>
        BY <1>8 DEF Change, cvars, link, round
    <2>2. ServerData'
        BY <1>8, ChangeData
    <2> QED
        BY <2>1, <2>2, NothingPosted, ShrinksInv DEF Shrinks
<1>9. CASE (Serve \/ Fail) /\ UNCHANGED cvars
    BY <1>9, ServeFile
<1> QED
    BY <1>2, <1>3, <1>4, <1>5, <1>6, <1>7, <1>8, <1>9 DEF Move, Environment


----------------------------------------------------------------------------
(***************************************************************************)
(* Steps of calls that write nothing.                                      *)
(***************************************************************************)
\* The handle h may be closed, or kept to be closed: the answer that gave it
\* has been used, or it is that of the listing or of the file that ends.
Closable(h) ==
    \/ got' = <<>> /\ \E a \in Taken : a.ser = h
    \/ call.op = "contents" /\ h = call.more.handle
    \/ file # NoFile /\ file' = NoFile /\ h = file.handle

FileStays ==
    \/ file' = file
    \/ CloseCall /\ file' = NoFile
    \/ /\ file # NoFile /\ file'.handle = file.handle
       /\ file.mode = "ReadOnly" /\ file'.mode = "ReadOnly"

Harmless ==
    /\ call.op \notin {"open", "write"} /\ call'.op \notin {"open", "write"}
    /\ UNCHANGED <<data, handles>> /\ FileStays
    /\ \A x \in News' : ~ Changing(x) /\ (x.op = "CLOSE" => Closable(x.arg))
    /\ call'.op = "contents" => call'.more.handle = 0 \/ Closable(call'.more.handle)
    /\ call'.op = "type" => Len(wait') + Len(got') = 3
    /\ call'.op = "read" => file'.mode = "ReadOnly"

\* What has been settled stays so, and what is closable is settled.
LEMMA HandledSettled ==
    ASSUME SftpInv, HandleInv, Handled
    PROVE  /\ \A h : Settled(h) => Settled(h)'
           /\ Settled(0)'
           /\ got' = <<>> => \A a \in Taken : Settled(a.ser)'
<1>1. /\ Posted' \subseteq Posted \cup News' /\ Received' \subseteq Received
      /\ Taken' \subseteq Taken /\ serial' \in Nat /\ serial <= serial'
      /\ \A x \in News' : x.ser > serial /\ x.ser <= serial' /\ x.ser \in Nat
      /\ serial \in Nat
    BY HandledPosted DEF SftpInv, TypeOK
<1>2. ASSUME NEW h, Settled(h) PROVE Settled(h)'
    <2>1. \A x \in Posted' \cup Received' \cup Taken' :
             x.ser > serial \/ \E y \in Posted \cup Received \cup Taken : y.ser = x.ser
        BY <1>1
    <2> QED
        BY <1>1, <1>2, <2>1, SettledStays
<1>3. \A x \in Posted \cup Received \cup Taken : x.ser \in 1 .. serial
    BY PostedApart DEF HandleInv
<1>4. Settled(0)
    BY <1>1, <1>3 DEF Settled
<1>5. ASSUME got' = <<>>, NEW a \in Taken PROVE Settled(a.ser)'
    <2>1. a.ser \in 1 .. serial /\ \A x \in Posted \cup Received : x.ser # a.ser
        BY DEF HandleInv
    <2>2. Taken' = {}
        BY <1>5, SmallSeqs DEF Taken
    <2>3. \A x \in Posted' \cup Received' : x.ser # a.ser
        BY <1>1, <2>1
    <2>4. a.ser \in 0 .. serial'
        BY <1>1, <2>1
    <2> QED
        BY <2>2, <2>3, <2>4 DEF Settled
<1> QED
    BY <1>2, <1>4, <1>5

\* The answers that are left are those there were.
LEMMA HandledAnswers ==
    ASSUME SftpInv, HandleInv, Handled
    PROVE  /\ \A a \in Taken' :
                 a.ser \in 1 .. serial' /\ \A x \in Posted' \cup Received' : x.ser # a.ser
           /\ \A a \in Received' \cup Taken' : a.type = "HANDLE" => a.val = a.ser
<1>1. /\ Posted' \subseteq Posted \cup News' /\ Received' \subseteq Received
      /\ Taken' \subseteq Taken /\ serial' \in Nat /\ serial <= serial'
      /\ \A x \in News' : x.ser > serial /\ x.ser <= serial' /\ x.ser \in Nat
      /\ serial \in Nat
    BY HandledPosted DEF SftpInv, TypeOK
<1>2. \A a \in Taken : a.ser \in 1 .. serial /\ \A x \in Posted \cup Received : x.ser # a.ser
    BY DEF HandleInv
<1>3. ASSUME NEW a \in Taken'
      PROVE  a.ser \in 1 .. serial' /\ \A x \in Posted' \cup Received' : x.ser # a.ser
    <2>1. a \in Taken
        BY <1>1
    <2> QED
        BY <1>1, <1>2, <2>1
<1> QED
    BY <1>1, <1>3 DEF HandleInv

LEMMA HarmlessInv ==
    ASSUME SftpInv, HandleInv, FileInv, Handled, Harmless
    PROVE  HandleInv' /\ FileInv'
<1>1. /\ Posted' \subseteq Posted \cup News'
      /\ \A h : Settled(h) => Settled(h)'
      /\ Settled(0)'
      /\ got' = <<>> => \A a \in Taken : Settled(a.ser)'
    BY HandledPosted, HandledSettled
<1>2. /\ \A a \in Taken' :
            a.ser \in 1 .. serial' /\ \A x \in Posted' \cup Received' : x.ser # a.ser
      /\ \A a \in Received' \cup Taken' : a.type = "HANDLE" => a.val = a.ser
    BY HandledAnswers
<1>3. /\ call.op \notin {"open", "write"} /\ call'.op \notin {"open", "write"}
      /\ UNCHANGED <<data, handles>> /\ FileStays
      /\ \A x \in News' : ~ Changing(x) /\ (x.op = "CLOSE" => Closable(x.arg))
      /\ call'.op = "contents" => call'.more.handle = 0 \/ Closable(call'.more.handle)
      /\ call'.op = "type" => Len(wait') + Len(got') = 3
      /\ call'.op = "read" => file'.mode = "ReadOnly"
    BY DEF Harmless
<1>4. file' # NoFile => file # NoFile /\ file'.handle = file.handle
    BY <1>3 DEF FileStays
<1>5. file # NoFile => file.handle # 0 /\ Settled(file.handle)
    BY DEF HandleInv
<1>6. ASSUME NEW h, Closable(h)
      PROVE  Settled(h)' /\ (file' # NoFile => h # file'.handle)
    <2>1. CASE got' = <<>> /\ \E a \in Taken : a.ser = h
        <3>1. PICK a \in Taken : a.ser = h
            BY <2>1
        <3>2. Settled(h)'
            BY <1>1, <2>1, <3>1
        <3>3. file # NoFile => h # file.handle
            BY <1>5, <3>1 DEF Settled
        <3> QED
            BY <1>4, <3>2, <3>3
    <2>2. CASE call.op = "contents" /\ h = call.more.handle
        <3>1. Settled(h) /\ (file # NoFile => h # file.handle)
            BY <2>2 DEF HandleInv
        <3> QED
            BY <1>1, <1>4, <3>1
    <2>3. CASE file # NoFile /\ file' = NoFile /\ h = file.handle
        BY <1>1, <1>5, <2>3
    <2> QED
        BY <1>6, <2>1, <2>2, <2>3 DEF Closable
<1>7. HandleInv'
    <2>1. ASSUME NEW x \in Posted', x.op = "CLOSE"
          PROVE  Settled(x.arg)' /\ (file' # NoFile => x.arg # file'.handle)
        <3>1. CASE x \in Posted
            <4>1. Settled(x.arg) /\ (file # NoFile => x.arg # file.handle)
                BY <2>1, <3>1 DEF HandleInv
            <4> QED
                BY <1>1, <1>4, <4>1
        <3>2. CASE x \in News'
            BY <1>3, <1>6, <2>1, <3>2
        <3> QED
            BY <1>1, <3>1, <3>2
    <2>2. file' # NoFile => file'.handle # 0 /\ Settled(file.handle)'
        BY <1>1, <1>4, <1>5
    <2>3. call'.op = "contents" =>
             Settled(call.more.handle)' /\ (file' # NoFile => call'.more.handle # file'.handle)
        BY <1>1, <1>3, <1>6, <2>2
    <2> QED
        BY <1>2, <1>3, <2>1, <2>2, <2>3 DEF HandleInv
<1>8. Calm'
    <2>1. Calm
        BY <1>3 DEF FileInv
    <2>2. \A x \in Posted' : ~ Changing(x)
        BY <1>1, <1>3, <2>1 DEF Calm
    <2>3. Written' => Written /\ file' = file
        BY <1>3 DEF FileStays, Written
    <2>4. \A h, d : Holds(h, d)' <=> Holds(h, d)
        BY <1>3 DEF Holds
    <2>5. Written' => /\ file'.done \in Seq(Byte) /\ file'.offset = Len(file'.done)
                      /\ Holds(file.handle, file.done)'
        BY <2>1, <2>3, <2>4 DEF Calm
    <2> QED
        BY <1>3, <2>2, <2>5 DEF Calm
<1> QED
    BY <1>3, <1>7, <1>8 DEF FileInv


\* What the two ways of asking send.
LEMMA AskNews ==
    ASSUME NEW op, op # "flush", NEW arg, Ask(op, arg)
    PROVE  /\ News' = {Request(1, op, arg)}
           /\ serial' = serial + 1
<1> DEFINE r == Request(1, op, arg)
<1>1. send' = <<r, Flush>> /\ r.op = op
    BY RequestFields DEF Ask
<1>2. serial' = serial + 1
    BY DEF Ask, Draw
<1> HIDE DEF r
<1>3. DOMAIN send' = 1 .. 2 /\ send'[1] = r /\ send'[2] = Flush /\ Flush.op = "flush"
    BY <1>1, SmallSeqs DEF Flush
<1>4. Asking' = {1}
    BY <1>1, <1>3 DEF Asking, Posed
<1>5. News' = {r}
    BY <1>3, <1>4 DEF News
<1> QED
    BY <1>2, <1>5 DEF r

LEMMA LeaveNews ==
    ASSUME NEW status, NEW val, NEW hs, IsSeq(hs), Leave(status, val, hs),
           NEW x \in News'
    PROVE  x.op = "CLOSE" /\ \E i \in DOMAIN hs : x.arg = hs[i]
<1>1. send' = [i \in DOMAIN hs |-> Request(i, "CLOSE", hs[i])]
    BY DEF Leave
<1>2. PICK i \in DOMAIN hs : x = Request(i, "CLOSE", hs[i])
    BY <1>1 DEF News, Asking, Posed
<1> QED
    BY <1>2, RequestFields

LEMMA NoNews ==
    ASSUME send = <<>>, send' = send
    PROVE  News' = {}
BY SmallSeqs DEF News, Asking, Posed

\* A call of these ends, or asks for one more thing.
LEMMA EndsHarmless ==
    ASSUME SftpInv, call.op \notin {"open", "write"},
           NEW status, NEW val, NEW hs, IsSeq(hs), Leave(status, val, hs), FileStays,
           \A i \in DOMAIN hs : Closable(hs[i])
    PROVE  Harmless
<1>1. \A x \in News' : x.op = "CLOSE" /\ Closable(x.arg)
    BY LeaveNews
<1>2. \A x \in News' : ~ Changing(x)
    BY <1>1 DEF Changing
<1>3. UNCHANGED <<data, handles>> /\ call'.op \in {"none", "return"}
    BY DEF Leave, svars, Idle
<1> QED
    BY <1>1, <1>2, <1>3 DEF Harmless

LEMMA EndsQuietly ==
    ASSUME SftpInv, call.op \notin {"open", "write"},
           NEW status, NEW val, Leave(status, val, <<>>), FileStays
    PROVE  Harmless
BY EndsHarmless, SmallSeqs

LEMMA AsksHarmless ==
    ASSUME NEW op, op \notin {"OPEN", "WRITE", "CLOSE", "flush"}, NEW arg, Ask(op, arg),
           call.op \notin {"open", "write"},
           call'.op \notin {"open", "write", "contents", "type", "read"},
           UNCHANGED <<data, handles>>, FileStays
    PROVE  Harmless
<1>1. \A x \in News' : x.op = op
    BY AskNews, RequestFields
<1>2. \A x \in News' : ~ Changing(x) /\ x.op # "CLOSE"
    BY <1>1 DEF Changing
<1> QED
    BY <1>2 DEF Harmless

\* mkdir, remove, rename, prefigure_exists and exists.
LEMMA NamesHarmless ==
    ASSUME SftpInv,
           \/ \E p \in Path : \/ MkdirCall(p) \/ RemoveCall(p) \/ PrefigureCall(p)
                              \/ ExistsCall(p) \/ \E q \in Path : RenameCall(p, q)
           \/ RenameFallback \/ RemoveDir \/ StatusReply
           \/ ExistsReap \/ ExistsStore \/ ExistsAnswer \/ ExistsUncached
    PROVE  Harmless
<1>1. file' = file => FileStays
    BY DEF FileStays
<1>2. ASSUME NEW p \in Path, NEW q \in Path,
             MkdirCall(p) \/ RemoveCall(p) \/ PrefigureCall(p) \/ RenameCall(p, q)
      PROVE  Harmless
    <2>1. \E op, arg : op \notin {"OPEN", "WRITE", "CLOSE", "flush"} /\ Ask(op, arg)
        BY <1>2 DEF MkdirCall, RemoveCall, PrefigureCall, RenameCall, RPC, RenameOp
    <2>2. /\ call = Idle /\ file' = file /\ UNCHANGED <<data, handles>>
          /\ call'.op \in {"mkdir", "remove", "prefigure", "rename"}
        <3>1. \/ Begin("mkdir", p, "") \/ Begin("remove", p, "") \/ Begin("prefigure", p, "")
              \/ Begin("rename", p, q)
            BY <1>2 DEF MkdirCall, RemoveCall, PrefigureCall, RenameCall
        <3>2. file' = file
            BY <1>2 DEF MkdirCall, RemoveCall, PrefigureCall, RenameCall
        <3>3. ASSUME NEW op \in {"mkdir", "remove", "prefigure", "rename"}, NEW more,
                     Begin(op, p, more)
              PROVE  call'.op = op /\ call = Idle /\ UNCHANGED <<data, handles>>
            BY <3>3 DEF Begin
        <3> QED
            BY <3>1, <3>2, <3>3
    <2> QED
        BY <1>1, <2>1, <2>2, OpsDiffer, AsksHarmless
<1>3. ASSUME NEW p \in Path, ExistsCall(p)
      PROVE  Harmless
    <2>1. call = Idle /\ file' = file /\ UNCHANGED <<data, handles, send>> /\ call'.op = "exists"
        BY <1>3 DEF ExistsCall, Begin
    <2>2. send = <<>>
        BY <2>1 DEF SftpInv, Progress
    <2> QED
        BY <1>1, <2>1, <2>2, OpsDiffer, NoNews DEF Harmless
<1>4. CASE RenameFallback \/ RemoveDir
    <2>1. \E op, arg : op \notin {"OPEN", "WRITE", "CLOSE", "flush"} /\ Ask(op, arg)
        BY <1>4 DEF RenameFallback, RemoveDir, Again, RPC
    <2>2. /\ call.op \in {"rename", "remove"} /\ file' = file /\ UNCHANGED <<data, handles>>
          /\ (call' = call \/ call' = [call EXCEPT !.op = "rmdir"])
        BY <1>4 DEF RenameFallback, RemoveDir, Again, Replied, svars
    <2>3. DOMAIN call = {"op", "path", "more"}
        BY <2>2 DEF SftpInv, Progress
    <2>4. call'.op \in {"rename", "remove", "rmdir"}
        BY <2>2, <2>3
    <2> QED
        BY <1>1, <2>1, <2>2, <2>4, AsksHarmless
<1>5. CASE StatusReply
    <2>1. /\ call.op \in {"mkdir", "rename", "remove", "rmdir"} /\ file' = file
          /\ Leave(Outcome, "", <<>>)
        BY <1>5 DEF StatusReply, Replied
    <2> QED
        BY <1>1, <2>1, EndsQuietly
<1>6. CASE ExistsReap \/ ExistsStore
    <2>1. /\ call.op = "exists" /\ call' = call /\ send = <<>>
          /\ UNCHANGED <<data, handles, send, file>>
        BY <1>6 DEF ExistsReap, ExistsStore, Replied, Finished, svars
    <2> QED
        BY <1>1, <2>1, NoNews DEF Harmless
<1>7. CASE ExistsAnswer
    <2>1. call.op = "exists" /\ file' = file /\ Leave("OK", existence[call.path], <<>>)
        BY <1>7 DEF ExistsAnswer, ExistsLookup
    <2> QED
        BY <1>1, <2>1, EndsQuietly
<1>8. CASE ExistsUncached
    <2>1. /\ call.op = "exists" /\ call' = call /\ UNCHANGED <<data, handles, file>>
          /\ Ask("STAT", call.path)
        BY <1>8 DEF ExistsUncached, ExistsLookup, svars
    <2> QED
        BY <1>1, <2>1, AsksHarmless
<1> QED
    BY <1>2, <1>3, <1>4, <1>5, <1>6, <1>7, <1>8


\* The handle of an answer that the call has got and lets go.
LEMMA GotClosable ==
    ASSUME HandleInv, NEW i \in DOMAIN got, Answer(i).type = "HANDLE", got' = <<>>
    PROVE  Closable(Answer(i).val)
<1>1. Answer(i) \in Taken
    BY DEF Answer, Taken
<1>2. Answer(i).val = Answer(i).ser
    BY <1>1 DEF HandleInv
<1> QED
    BY <1>1, <1>2 DEF Closable

LEMMA ListingHarmless ==
    ASSUME SftpInv, HandleInv, (\E d : ContentsCall(d)) \/ ContentsReply
    PROVE  Harmless
<1>0. file' = file /\ FileStays
    BY DEF ContentsCall, ContentsReply, FileStays
<1>1. CASE \E d : ContentsCall(d)
    <2>1. PICK d : ContentsCall(d)
        BY <1>1
    <2>2. /\ call = Idle /\ UNCHANGED <<data, handles>> /\ Ask("OPENDIR", d)
          /\ call' = [op |-> "contents", path |-> d,
                      more |-> [id |-> NewId(1), handle |-> 0, names |-> {}]]
        BY <2>1 DEF ContentsCall, Begin, RPC
    <2>3. call'.op = "contents" /\ call'.more.handle = 0
        BY <2>2
    <2>4. \A x \in News' : x.op = "OPENDIR"
        BY <2>2, AskNews, RequestFields
    <2> QED
        BY <1>0, <2>2, <2>3, <2>4, OpsDiffer DEF Harmless, Changing
<1>2. CASE ContentsReply
    <2> DEFINE r == Answer(1)
               m == call.more
    <2>1. /\ call.op = "contents" /\ got # <<>> /\ IsSeq(got)
          /\ DOMAIN call = {"op", "path", "more"}
          /\ DOMAIN m = {"id", "handle", "names"}
        BY <1>2 DEF ContentsReply, Replied, SftpInv, Shape, Progress
    <2>2. 1 \in DOMAIN got
        BY <2>1, TailSeq
    <2>3. Closable(m.handle)
        BY <2>1 DEF Closable
    <2>4. ASSUME NEW more, NextBatch(more), Closable(more.handle)
          PROVE  Harmless
        <3> DEFINE q == [id |-> more.id, ser |-> serial + 1, op |-> "READDIR", arg |-> more.handle]
        <3>1. /\ send' = <<q, Flush>> /\ call' = [call EXCEPT !.more = more]
              /\ UNCHANGED <<data, handles>>
            BY <2>4 DEF NextBatch, svars
        <3>2. q.op = "READDIR" /\ Flush.op = "flush"
            BY DEF Flush
        <3> HIDE DEF q
        <3>3. \A i \in DOMAIN send' : send'[i].op \in {"READDIR", "flush"}
            <4>1. DOMAIN send' = 1 .. 2 /\ send'[1] = q /\ send'[2] = Flush
                BY <3>1, SmallSeqs
            <4>2. \A i \in 1 .. 2 : i = 1 \/ i = 2
                OBVIOUS
            <4> QED
                BY <3>2, <4>1, <4>2
        <3>4. \A x \in News' : x.op = "READDIR"
            BY <3>3 DEF News, Asking, Posed
        <3>5. call'.op = "contents" /\ call'.more = more
            BY <2>1, <3>1
        <3> QED
            BY <1>0, <2>1, <2>4, <3>1, <3>4, <3>5 DEF Harmless, Changing
    <2>5. ASSUME NEW status, NEW val, NEW hs, hs = <<>> \/ hs = <<m.handle>>,
                 Leave(status, val, hs)
          PROVE  Harmless
        <3>1. IsSeq(hs) /\ \A i \in DOMAIN hs : Closable(hs[i])
            BY <2>3, <2>5, SmallSeqs
        <3> QED
            BY <1>0, <2>1, <2>5, <3>1, EndsHarmless
    <2>6. CASE r.type = "HANDLE" /\ NextBatch([m EXCEPT !.handle = r.val])
        <3> DEFINE more == [m EXCEPT !.handle = r.val]
        <3>1. got' = <<>>
            BY <2>6 DEF NextBatch
        <3>2. more.handle = r.val
            BY <2>1
        <3>3. Closable(more.handle)
            BY <2>2, <2>6, <3>1, <3>2, GotClosable
        <3> HIDE DEF more
        <3>4. NextBatch(more)
            BY <2>6 DEF more
        <3> QED
            BY <2>4, <3>3, <3>4
    <2>7. CASE NextBatch([m EXCEPT !.names = AddBatch(@, r.val)])
        <3> DEFINE more == [m EXCEPT !.names = AddBatch(@, r.val)]
        <3>1. more.handle = m.handle
            BY <2>1
        <3> HIDE DEF more
        <3>2. NextBatch(more)
            BY <2>7 DEF more
        <3> QED
            BY <2>3, <2>4, <3>1, <3>2
    <2>8. CASE Leave("OK", m.names, <<m.handle>>)
        BY <2>5, <2>8
    <2>9. CASE Leave(r.val, "", IF m.handle = 0 THEN <<>> ELSE <<m.handle>>)
        BY <2>5, <2>9
    <2> QED
        BY <1>2, <2>6, <2>7, <2>8, <2>9 DEF ContentsReply
<1> QED
    BY <1>1, <1>2

LEMMA TypeHarmless ==
    ASSUME SftpInv, HandleInv, (\E p \in Path : TypeCall(p)) \/ TypeReply
    PROVE  Harmless
<1>0. file' = file /\ FileStays
    BY DEF TypeCall, TypeReply, FileStays
<1>1. CASE \E p \in Path : TypeCall(p)
    <2>0. PICK p \in Path : TypeCall(p)
        BY <1>1
    <2>1. /\ call = Idle /\ got = <<>> /\ got' = <<>> /\ UNCHANGED <<data, handles>>
          /\ call' = [op |-> "type", path |-> p, more |-> ""]
        BY <2>0, BeginDone DEF TypeCall, Begin
    <2>2. PICK a, b, c :
             /\ a = Request(1, "OPEN", <<p, "ReadOnly">>) /\ b = Request(2, "OPENDIR", p)
             /\ c = Request(3, "READLINK", p)
        OBVIOUS
    <2>3. /\ send' = Append(<<a, b, c>>, Flush)
          /\ wait' = [i \in 1 .. 3 |-> Ticket(<<a, b, c>>[i])]
        <3> DEFINE u == Request(1, "OPEN", <<p, "ReadOnly">>)
                   v == Request(2, "OPENDIR", p)
                   w == Request(3, "READLINK", p)
        <3>1. /\ send' = Append(<<u, v, w>>, Flush)
              /\ wait' = [i \in 1 .. 3 |-> Ticket(<<u, v, w>>[i])]
            BY <2>0, Zenon DEF TypeCall
        <3>2. u = a /\ v = b /\ w = c
            BY <2>2
        <3> HIDE DEF u, v, w
        <3> QED
            BY <3>1, <3>2, Zenon
    <2>4. send' = <<a, b, c, Flush>>
        BY <2>3, FourthElement
    <2>5. Len(wait') + Len(got') = 3
        <3>1. Len(wait') = 3
            <4>1. wait' = [i \in 1 .. 3 |-> wait'[i]]
                BY <2>3
            <4> QED
                BY <4>1, FunctionIsSeq
        <3>2. IsSeq(got') /\ got' = <<>>
            BY <2>1, SmallSeqs
        <3>3. Len(got') = 0
            BY <3>2, SeqLength
        <3> QED
            BY <3>1, <3>3
    <2>6. /\ a.op = "OPEN" /\ a.arg = <<p, "ReadOnly">> /\ b.op = "OPENDIR"
          /\ c.op = "READLINK" /\ Flush.op = "flush"
        BY <2>2, RequestFields DEF Flush
    <2>7. ~ Changing(a) /\ ~ Changing(b) /\ ~ Changing(c)
        BY <2>6 DEF Changing
    <2>8. \A i \in DOMAIN send' : send'[i] \in {a, b, c, Flush}
        BY <2>4, SmallSeqs
    <2>9. \A x \in News' : x \in {a, b, c}
        BY <2>6, <2>8 DEF News, Asking, Posed
    <2>10. \A x \in News' : ~ Changing(x) /\ x.op # "CLOSE"
        BY <2>6, <2>7, <2>9
    <2>11. call'.op = "type" /\ call.op = "none" /\ UNCHANGED <<data, handles>>
        BY <2>1, OpsDiffer
    <2> QED
        BY <1>0, <2>5, <2>10, <2>11 DEF Harmless
<1>2. CASE TypeReply
    <2>1. call.op = "type" /\ wait = <<>> /\ IsSeq(got)
        BY <1>2 DEF TypeReply, Replied, Finished, SftpInv, Shape
    <2>2. Len(wait) = 0 /\ Len(got) \in Nat /\ Len(wait) + Len(got) = 3
        BY <2>1, SmallSeqs, SeqLength DEF HandleInv
    <2>3. 1 \in DOMAIN got /\ 2 \in DOMAIN got
        BY <2>1, <2>2, SeqLength
    <2>4. CASE Leave("NO_SUCH_FILE", "", <<>>)
        BY <1>0, <2>1, <2>4, EndsQuietly
    <2>5. CASE Leave("OK", TypeDeduced, TypeHandles)
        <3> DEFINE h(i) == IF Answer(i).type = "HANDLE" THEN <<Answer(i).val>> ELSE <<>>
                   S == {v \in {Answer(1).val, Answer(2).val} : Closable(v)}
        <3>1. got' = <<>>
            BY <2>5 DEF Leave
        <3>2. \A i \in {1, 2} : Answer(i).type = "HANDLE" => Answer(i).val \in S
            BY <2>3, <3>1, GotClosable
        <3>3. \A v \in S : Closable(v)
            OBVIOUS
        <3> HIDE DEF S
        <3>4. h(1) \in Seq(S) /\ h(2) \in Seq(S)
            BY <3>2, EmptySeq
        <3>5. h(1) \o h(2) \in Seq(S)
            BY <3>4, ConcatProperties
        <3>6. TypeHandles = h(1) \o h(2)
            BY DEF TypeHandles
        <3>7. TypeHandles \in Seq(S)
            BY <3>5, <3>6
        <3>8. IsSeq(TypeHandles) /\ \A i \in DOMAIN TypeHandles : TypeHandles[i] \in S
            BY <3>7, LenProperties DEF IsSeq
        <3> QED
            BY <1>0, <2>1, <2>5, <3>3, <3>8, EndsHarmless
    <2> QED
        BY <1>2, <2>4, <2>5 DEF TypeReply
<1> QED
    BY <1>1, <1>2

LEMMA ReadHarmless ==
    ASSUME SftpInv, FileInv,
           (\E n \in Space : ReadCall(n)) \/ ReadBuffered \/ ReadReply \/ CloseCall
    PROVE  Harmless
<1>1. CASE \E n \in Space : ReadCall(n)
    <2>1. PICK n \in Space : ReadCall(n)
        BY <1>1
    <2>2. PICK k, q, o :
             /\ k \in Nat
             /\ send' = [j \in 1..2*k |-> IF j % 2 = 1 THEN ReadAhead((j + 1) \div 2, n)
                                                      ELSE Flush]
             /\ file' = [file EXCEPT !.queue = q, !.offset = o]
        <3> DEFINE k == IF file.eof THEN 0 ELSE MaxOf(0, ReadQueue - Len(file.queue))
        <3>1. /\ send' = [j \in 1..2*k |-> IF j % 2 = 1 THEN ReadAhead((j + 1) \div 2, n)
                                                      ELSE Flush]
              /\ \E q, o : file' = [file EXCEPT !.queue = q, !.offset = o]
            BY <2>1, ZenonT(60) DEF ReadCall
        <3>2. file # NoFile
            BY <2>1 DEF ReadCall, Usable
        <3>3. file.queue \in Seq(Tickets)
            BY <3>2 DEF SftpInv, TypeOK
        <3>4. k \in Nat
            <4>1. Len(file.queue) \in Nat
                BY <3>3, LenProperties, SMTT(60)
            <4> QED
                BY <4>1, ClientAssumption DEF MaxOf
        <3> HIDE DEF k
        <3> QED
            BY <3>1, <3>4
    <2>3. /\ file # NoFile /\ file.mode = "ReadOnly" /\ DOMAIN file = FileFields
          /\ call = Idle /\ UNCHANGED <<data, handles>>
          /\ call' = [op |-> "read", path |-> file.handle, more |-> n]
        BY <2>1 DEF ReadCall, Usable, Begin, SftpInv, Shape
    <2>4. call'.op = "read"
        BY <2>3
    <2>5. file'.mode = "ReadOnly" /\ file'.handle = file.handle
        BY <2>2, <2>3 DEF FileFields
    <2>6. \A x \in News' : x.op = "READ"
        <3>1. \A i : ReadAhead(i, n).op = "READ"
            BY RequestFields DEF ReadAhead
        <3>2. Flush.op = "flush"
            BY DEF Flush
        <3> HIDE DEF ReadAhead
        <3>3. \A j \in DOMAIN send' : send'[j].op \in {"READ", "flush"}
            BY <2>2, <3>1, <3>2
        <3> QED
            BY <3>3 DEF News, Asking, Posed
    <2>7. FileStays
        BY <2>3, <2>5 DEF FileStays
    <2> QED
        BY <2>3, <2>4, <2>5, <2>6, <2>7, OpsDiffer DEF Harmless, Changing
<1>2. CASE ReadBuffered \/ ReadReply
    <2>1. call.op = "read"
        BY <1>2 DEF ReadBuffered, ReadReply, Replied
    <2>2. file # NoFile /\ file.mode = "ReadOnly" /\ DOMAIN file = FileFields
        BY <2>1, FileNow DEF FileInv, Calm
    <2>3. \E status, val : Leave(status, val, <<>>)
        BY <1>2 DEF ReadBuffered, ReadReply, Deliver
    <2>4. file'.handle = file.handle /\ file'.mode = file.mode
        <3>1. ASSUME NEW f, NEW bytes, Deliver(f, bytes), DOMAIN f = FileFields,
                     f.handle = file.handle, f.mode = file.mode
              PROVE  file'.handle = file.handle /\ file'.mode = file.mode
            <4>1. PICK b, d, e : file' = [f EXCEPT !.buf = b, !.done = d, !.end = e]
                BY <3>1 DEF Deliver
            <4> QED
                BY <3>1, <4>1 DEF FileFields
        <3>2. CASE \E bytes : Deliver(file, bytes)
            BY <2>2, <3>1, <3>2
        <3>3. CASE Deliver([file EXCEPT !.queue = <<>>, !.eof = TRUE], <<>>)
            <4> DEFINE f == [file EXCEPT !.queue = <<>>, !.eof = TRUE]
            <4>1. DOMAIN f = FileFields /\ f.handle = file.handle /\ f.mode = file.mode
                BY <2>2 DEF FileFields
            <4> HIDE DEF f
            <4>2. Deliver(f, <<>>)
                BY <3>3 DEF f
            <4> QED
                BY <3>1, <4>1, <4>2
        <3>4. CASE file' = [file EXCEPT !.failed = TRUE]
            BY <2>2, <3>4 DEF FileFields
        <3> QED
            BY <1>2, <3>2, <3>3, <3>4 DEF ReadBuffered, ReadReply
    <2>5. FileStays
        BY <2>2, <2>4 DEF FileStays
    <2> QED
        BY <2>1, <2>3, <2>5, EndsQuietly
<1>3. CASE CloseCall
    <2>1. /\ file # NoFile /\ file' = NoFile /\ call = Idle /\ UNCHANGED <<data, handles>>
          /\ call' = [op |-> "close", path |-> file.handle, more |-> ""]
          /\ send' = <<Request(1, "CLOSE", file.handle)>>
        BY <1>3 DEF CloseCall, Begin
    <2>2. call'.op = "close"
        BY <2>1
    <2>3. FileStays /\ Closable(file.handle)
        BY <1>3, <2>1 DEF FileStays, Closable
    <2>4. \A x \in News' : x.op = "CLOSE" /\ x.arg = file.handle
        <3>1. PICK r : r = Request(1, "CLOSE", file.handle)
            OBVIOUS
        <3>2. r.op = "CLOSE" /\ r.arg = file.handle
            BY <3>1, RequestFields
        <3>3. DOMAIN send' = {1} /\ send'[1] = r
            <4>1. send' = <<r>>
                BY <2>1, <3>1
            <4> QED
                BY <4>1, SmallSeqs
        <3> QED
            BY <3>2, <3>3 DEF News, Asking, Posed
    <2>5. call.op = "none" /\ UNCHANGED <<data, handles>>
        BY <2>1, OpsDiffer
    <2> QED
        BY <2>2, <2>3, <2>4, <2>5 DEF Harmless, Changing
<1> QED
    BY <1>1, <1>2, <1>3


----------------------------------------------------------------------------
(***************************************************************************)
(* Opening a file, and writing to it.                                      *)
(***************************************************************************)
\* No handle is closed, and that of the file is the one it had or a new one.
LEMMA NewFileHandle ==
    ASSUME SftpInv, HandleInv, Handled,
           \A x \in News' : x.op # "CLOSE", call'.op \notin {"contents", "type"},
           file' # NoFile =>
              \/ file # NoFile /\ file'.handle = file.handle
              \/ got' = <<>> /\ \E a \in Taken : a.ser = file'.handle
    PROVE  HandleInv'
<1>1. /\ Posted' \subseteq Posted \cup News'
      /\ \A h : Settled(h) => Settled(h)'
      /\ got' = <<>> => \A a \in Taken : Settled(a.ser)'
    BY HandledPosted, HandledSettled
<1>2. /\ \A a \in Taken' :
            a.ser \in 1 .. serial' /\ \A x \in Posted' \cup Received' : x.ser # a.ser
      /\ \A a \in Received' \cup Taken' : a.type = "HANDLE" => a.val = a.ser
    BY HandledAnswers
<1>3. PICK h : h = file'.handle
    OBVIOUS
<1>4. ASSUME NEW x \in Posted', x.op = "CLOSE"
      PROVE  Settled(x.arg)' /\ (file' # NoFile => x.arg # h)
    <2>1. x \in Posted
        BY <1>1, <1>4
    <2>2. Settled(x.arg) /\ (file # NoFile => x.arg # file.handle)
        BY <1>4, <2>1 DEF HandleInv
    <2>3. \A a \in Taken : a.ser # x.arg
        BY <2>2 DEF Settled
    <2> QED
        BY <1>1, <1>3, <2>2, <2>3
<1>5. file' # NoFile => h # 0 /\ Settled(h)'
    <2>1. CASE file # NoFile /\ h = file.handle
        BY <1>1, <2>1 DEF HandleInv
    <2>2. CASE got' = <<>> /\ \E a \in Taken : a.ser = h
        <3>1. PICK a \in Taken : a.ser = h
            BY <2>2
        <3>2. a.ser # 0 /\ Settled(a.ser)'
            BY <1>1, <2>2, <3>1 DEF HandleInv
        <3> QED
            BY <3>1, <3>2
    <2> QED
        BY <1>3, <2>1, <2>2
<1> QED
    BY <1>2, <1>3, <1>4, <1>5 DEF HandleInv

\* What the one request of a call that opens or writes is.
LEMMA FirstRequest ==
    ASSUME SftpInv, HandleInv, Handled, NEW rop, rop # "flush", NEW arg, RPC(rop, arg),
           got' = <<>>
    PROVE  \E s \in 1 .. serial' :
           /\ OneRequest(s)'
           /\ \A x \in Posted' : x \in Posted \/ (x.op = rop /\ x.arg = arg /\ x.ser = s)
           /\ \A x \in Posted : x.ser # s
           /\ \A x \in Received' \cup Taken' : x.ser # s
<1>1. PICK r : r = Request(1, rop, arg)
    OBVIOUS
<1>0. PICK s : s = serial + 1
    OBVIOUS
<1>2. r.op = rop /\ r.arg = arg /\ r.ser = s /\ Ticket(r).ser = s
    <2>1. r.op = rop /\ r.arg = arg /\ r.ser = s
        BY <1>0, <1>1, RequestFields
    <2> QED
        BY <2>1, TicketFields
<1>3. serial \in Nat /\ serial' = s /\ News' = {r}
    BY <1>0, <1>1, AskNews DEF RPC, SftpInv, TypeOK
<1>4. wait' = <<Ticket(r)>>
    BY <1>1 DEF RPC
<1>5. Posted' \subseteq Posted \cup News' /\ Received' \subseteq Received /\ Taken' \subseteq Taken
    BY HandledPosted
<1>6. \A x \in Posted \cup Received \cup Taken : x.ser \in 1 .. serial
    BY PostedApart DEF HandleInv
<1>7. s \in 1 .. serial'
    BY <1>0, <1>3
<1>8. OneRequest(s)'
    <2>1. PICK t : t = Ticket(r)
        OBVIOUS
    <2>2. wait' = <<t>> /\ t.ser = s
        BY <1>2, <1>4, <2>1
    <2>3. \E u : wait' = <<u>> /\ u.ser = s
        BY <2>2
    <2> QED
        BY <1>7, <2>3 DEF OneRequest
<1>9. \A x \in Posted' : x \in Posted \/ (x.op = rop /\ x.arg = arg /\ x.ser = s)
    BY <1>2, <1>3, <1>5
<1>10. /\ \A x \in Posted : x.ser # s
       /\ \A x \in Received' \cup Taken' : x.ser # s
    BY <1>0, <1>3, <1>5, <1>6
<1> QED
    BY <1>7, <1>8, <1>9, <1>10


LEMMA OpenCallFile ==
    ASSUME SftpInv, HandleInv, FileInv, Handled, NEW p, NEW mode, OpenCall(p, mode)
    PROVE  HandleInv' /\ FileInv'
<1>1. /\ file = NoFile /\ file' = NoFile /\ got' = <<>> /\ RPC("OPEN", <<p, mode>>)
      /\ call.op = "none" /\ call' = [op |-> "open", path |-> p, more |-> mode]
    BY BeginDone, OpsDiffer DEF OpenCall
<1>2. call'.op = "open" /\ call'.path = p /\ call'.more = mode
    BY <1>1
<1>3. PICK s \in 1 .. serial' :
         /\ OneRequest(s)'
         /\ \A x \in Posted' : x \in Posted \/ (x.op = "OPEN" /\ x.arg = <<p, mode>> /\ x.ser = s)
         /\ \A x \in Posted : x.ser # s
         /\ \A x \in Received' \cup Taken' : x.ser # s
    BY <1>1, FirstRequest
<1>4. HandleInv'
    <2>1. \A x \in News' : x.op # "CLOSE"
        BY <1>1, AskNews, RequestFields DEF RPC
    <2> QED
        BY <1>1, <1>2, <2>1, NewFileHandle
<1>5. Opening(s)'
    <2>1. \A x \in Posted : ~ Changing(x)
        BY <1>1 DEF FileInv, Calm
    <2>2. \A x \in Posted' : Changing(x) => x.ser = s
        BY <1>3, <2>1
    <2>3. \A x \in Posted' : x.ser = s => x.op = "OPEN" /\ x.arg = <<call'.path, call'.more>>
        BY <1>2, <1>3
    <2> QED
        BY <1>1, <1>3, <2>2, <2>3 DEF Opening
<1> QED
    BY <1>2, <1>3, <1>4, <1>5 DEF FileInv

\* The only answer of a call that opens or writes, and what is left then.
LEMMA OnlyAnswer ==
    ASSUME HandleInv, NEW op, Replied(op), NEW s, OneRequest(s)
    PROVE  Answer(1) \in Taken /\ Answer(1).ser = s /\ \A x \in Posted : x.ser # s
<1>1. got # <<>>
    BY DEF Replied
<1>2. PICK g : got = <<g>> /\ g.reply.ser = s
    BY <1>1 DEF OneRequest
<1>3. got[1] = g /\ 1 \in DOMAIN got
    BY <1>2, SmallSeqs
<1>4. Answer(1) \in Taken /\ Answer(1).ser = s
    BY <1>2, <1>3 DEF Answer, Taken
<1> QED
    BY <1>4 DEF HandleInv

LEMMA EndedNews ==
    ASSUME NEW status, NEW val, Leave(status, val, <<>>)
    PROVE  News' = {} /\ call' = Idle /\ UNCHANGED <<data, handles>> /\ got' = <<>>
<1>1. \A x \in News' : FALSE
    BY LeaveNews, SmallSeqs
<1> QED
    BY <1>1 DEF Leave, svars

LEMMA OpenReplyFile ==
    ASSUME SftpInv, HandleInv, FileInv, Handled, OpenReply
    PROVE  HandleInv' /\ FileInv'
<1>1. Replied("open") /\ call.op = "open" /\ \E status : Leave(status, "", <<>>)
    BY DEF OpenReply, Replied
<1>2. PICK s \in 1 .. serial : OneRequest(s) /\ Opening(s)
    BY <1>1 DEF FileInv
<1>3. PICK r : r = Answer(1)
    OBVIOUS
<1>4. r \in Taken /\ r.ser = s /\ \A x \in Posted : x.ser # s
    BY <1>1, <1>2, <1>3, OnlyAnswer
<1>5. News' = {} /\ call' = Idle /\ UNCHANGED <<data, handles>> /\ got' = <<>>
    BY <1>1, EndedNews
<1>6. Posted' \subseteq Posted /\ \A x \in Posted' : ~ Changing(x)
    <2>1. Posted' \subseteq Posted
        BY <1>5, HandledPosted
    <2> QED
        BY <1>2, <1>4, <2>1 DEF Opening
<1>7. call'.op = "none"
    BY <1>5, OpsDiffer
<1>8. \A h, d : Holds(h, d)' <=> Holds(h, d)
    BY <1>5 DEF Holds
<1>9. CASE r.type = "HANDLE"
    <2>1. r.val = s
        BY <1>4, <1>9 DEF HandleInv
    <2>2. PICK f : /\ file' = f /\ f.handle = s /\ f.mode = call.more
                   /\ f.done = <<>> /\ f.offset = 0
        <3>1. file' = [handle |-> Answer(1).val, mode |-> call.more, queue |-> <<>>, offset |-> 0,
                       buf |-> <<>>, eof |-> FALSE, done |-> <<>>, end |-> FALSE,
                       failed |-> FALSE]
            BY <1>3, <1>9 DEF OpenReply
        <3> QED
            BY <1>3, <2>1, <3>1
    <2>3. HandleInv'
        <3>1. \E a \in Taken : a.ser = file'.handle
            BY <1>4, <2>2
        <3> QED
            BY <1>5, <1>7, <3>1, NewFileHandle
    <2>4. f.mode # "ReadOnly" => Holds(s, <<>>)
        BY <1>2, <1>4, <1>9, <2>2 DEF Opening
    <2>5. <<>> \in Seq(Byte) /\ Len(<<>>) = 0
        BY EmptySeq
    <2>6. Written' => /\ file'.done \in Seq(Byte) /\ file'.offset = Len(file'.done)
                      /\ Holds(file.handle, file.done)'
        <3>1. ASSUME Written' PROVE Holds(s, <<>>)'
            BY <1>8, <2>2, <2>4, <3>1 DEF Written
        <3>2. file'.handle = s /\ file'.done = <<>> /\ file'.offset = 0
            BY <2>2
        <3> QED
            BY <2>5, <3>1, <3>2 DEF Holds
    <2>7. Calm'
        BY <1>6, <1>7, <2>6 DEF Calm
    <2> QED
        BY <1>7, <2>3, <2>7 DEF FileInv
<1>10. CASE r.type # "HANDLE"
    <2>1. file' = NoFile /\ file = NoFile
        BY <1>2, <1>3, <1>10 DEF OpenReply, Opening
    <2>2. HandleInv'
        BY <1>5, <1>7, <2>1, NewFileHandle
    <2>3. Calm'
        BY <1>6, <1>7, <2>1 DEF Calm, Written
    <2> QED
        BY <1>7, <2>2, <2>3 DEF FileInv
<1> QED
    BY <1>9, <1>10

LEMMA WriteCallFile ==
    ASSUME SftpInv, HandleInv, FileInv, Handled, NEW b \in Content, WriteCall(b)
    PROVE  HandleInv' /\ FileInv'
<1>1. /\ file # NoFile /\ file.mode \in {"Overwrite", "NoOverwrite"} /\ got' = <<>>
      /\ RPC("WRITE", <<file.handle, file.offset, b>>)
      /\ file' = [file EXCEPT !.offset = @ + Len(b)] /\ UNCHANGED <<data, handles>>
      /\ call.op = "none" /\ call' = [op |-> "write", path |-> file.handle, more |-> b]
    BY BeginDone, OpsDiffer DEF WriteCall, Usable, Begin
<1>2. call'.op = "write" /\ call'.more = b
    BY <1>1
<1>3. PICK h, d, o, m : h = file.handle /\ d = file.done /\ o = file.offset /\ m = file.mode
    OBVIOUS
<1>4. /\ Calm /\ Written /\ d \in Seq(Byte) /\ o = Len(d) /\ Holds(h, d)
      /\ \A x \in Posted : ~ Changing(x)
    BY <1>1, <1>3 DEF FileInv, Calm, Written
<1>5. /\ file'.handle = h /\ file'.done = d /\ file'.mode = m /\ file'.offset = o + Len(b)
      /\ file' # NoFile
    <2>1. DOMAIN file = FileFields
        BY <1>1 DEF SftpInv, Shape
    <2>2. DOMAIN file' = FileFields
        BY <1>1, <2>1
    <2>3. file' # NoFile
        <3>1. DOMAIN NoFile = {"handle"}
            BY DEF NoFile
        <3> QED
            BY <2>2, <3>1 DEF FileFields
    <2> QED
        BY <1>1, <1>3, <2>1, <2>3 DEF FileFields
<1>6. PICK s \in 1 .. serial' :
         /\ OneRequest(s)'
         /\ \A x \in Posted' : x \in Posted \/ (x.op = "WRITE" /\ x.arg = <<h, o, b>> /\ x.ser = s)
         /\ \A x \in Posted : x.ser # s
         /\ \A x \in Received' \cup Taken' : x.ser # s
    BY <1>1, <1>3, FirstRequest
<1>7. HandleInv'
    <2>1. \A x \in News' : x.op # "CLOSE"
        BY <1>1, AskNews, RequestFields DEF RPC
    <2>2. file'.handle = file.handle
        BY <1>3, <1>5
    <2> QED
        BY <1>1, <1>2, <2>1, <2>2, NewFileHandle
<1>8. Storing(s)'
    <2>1. b \in Seq(Byte) /\ Written'
        BY <1>1, <1>3, <1>5, ServerAssumption DEF Written
    <2>2. Holds(file.handle, file.done)'
        BY <1>1, <1>4, <1>5 DEF Holds
    <2>3. \A x \in Posted' : Changing(x) => x.ser = s
        BY <1>4, <1>6
    <2>4. \A x \in Posted' : x.ser = s => x.op = "WRITE" /\ x.arg = <<h, Len(d), b>>
        BY <1>4, <1>6
    <2>5. /\ call'.more \in Seq(Byte) /\ file'.done \in Seq(Byte)
          /\ file'.offset = Len(file'.done) + Len(call'.more)
        BY <1>2, <1>4, <1>5, <2>1
    <2>6. \A x \in Posted' : x.ser = s => x.arg = <<file'.handle, Len(file'.done), call'.more>>
        BY <1>2, <1>5, <2>4
    <2> QED
        BY <1>6, <2>1, <2>2, <2>3, <2>4, <2>5, <2>6 DEF Storing
<1> QED
    BY <1>2, <1>6, <1>7, <1>8 DEF FileInv

LEMMA WriteReplyFile ==
    ASSUME SftpInv, HandleInv, FileInv, Handled, WriteReply
    PROVE  HandleInv' /\ FileInv'
<1>1. Replied("write") /\ call.op = "write"
    BY DEF WriteReply, Replied
<1>2. PICK s \in 1 .. serial : OneRequest(s) /\ Storing(s)
    BY <1>1 DEF FileInv
<1>3. PICK r : r = Answer(1)
    OBVIOUS
<1>4. r \in Taken /\ r.ser = s /\ \A x \in Posted : x.ser # s
    BY <1>1, <1>2, <1>3, OnlyAnswer
<1>5. PICK h, d, b, m : h = file.handle /\ d = file.done /\ b = call.more /\ m = file.mode
    OBVIOUS
<1>6. CASE ~ WriteFailed
    <2>1. /\ file' = [file EXCEPT !.done = @ \o call.more] /\ Leave("OK", "", <<>>)
        BY <1>6 DEF WriteReply
    <2>2. News' = {} /\ call' = Idle /\ UNCHANGED <<data, handles>> /\ got' = <<>>
        BY <2>1, EndedNews
    <2>3. Posted' \subseteq Posted /\ \A x \in Posted' : ~ Changing(x)
        <3>1. Posted' \subseteq Posted
            BY <2>2, HandledPosted
        <3> QED
            BY <1>2, <1>4, <3>1 DEF Storing
    <2>4. call'.op = "none"
        BY <2>2, OpsDiffer
    <2>5. /\ DOMAIN file = FileFields /\ file # NoFile
          /\ file.offset = Len(d) + Len(b) /\ d \in Seq(Byte) /\ b \in Seq(Byte)
          /\ m # "ReadOnly"
        BY <1>2, <1>5 DEF Storing, Written, SftpInv, Shape
    <2>6. r.type = "STATUS" /\ (r.val = "OK" => Holds(h, d \o b))
        BY <1>2, <1>4, <1>5 DEF Storing
    <2>7. Holds(h, d \o b)
        BY <1>3, <1>6, <2>6 DEF WriteFailed, Failed
    <2>8. PICK e : e = d \o b
        OBVIOUS
    <2>9. /\ file'.handle = h /\ file'.mode = m /\ file'.done = e
          /\ file'.offset = Len(d) + Len(b)
        <3>1. file' = [file EXCEPT !.done = e]
            BY <1>5, <2>1, <2>8
        <3> QED
            BY <1>5, <2>5, <3>1 DEF FileFields
    <2>10. e \in Seq(Byte) /\ Len(e) = Len(d) + Len(b)
        BY <2>5, <2>8, ConcatProperties
    <2>11. Holds(file.handle, file.done)'
        BY <2>2, <2>7, <2>8, <2>9 DEF Holds
    <2>12. Calm'
        BY <2>3, <2>4, <2>9, <2>10, <2>11 DEF Calm
    <2>13. HandleInv'
        <3>1. file # NoFile /\ file'.handle = file.handle
            BY <1>5, <2>5, <2>9
        <3> QED
            BY <2>2, <2>4, <3>1, NewFileHandle
    <2> QED
        BY <2>4, <2>12, <2>13 DEF FileInv
<1>7. CASE WriteFailed
    <2>1. UNCHANGED <<send, outbuf, req, rep, replies, data, handles, file, serial, wait, got, call>>
        BY <1>7 DEF WriteReply, svars, link, round
    <2> QED
        BY <2>1, NothingPosted, ShrinksInv DEF Shrinks
<1> QED
    BY <1>6, <1>7


----------------------------------------------------------------------------
\* The steps that a call takes on its own.
LEMMA CallFile ==
    ASSUME SftpInv, HandleInv, ServerData, FileInv, StartCall \/ CallStep, ~ Rest
    PROVE  HandleInv' /\ ServerData' /\ FileInv'
<1>1. Handled
    BY StepsHandled
<1>2. UNCHANGED <<data, handles>> => ServerData'
    BY <1>1, HandledPosted DEF ServerData
<1>3. CASE Harmless
    BY <1>1, <1>2, <1>3, HarmlessInv DEF Harmless
<1>4. CASE StartCall
    <2>1. ASSUME NEW p \in Path, NEW mode, OpenCall(p, mode)
          PROVE  HandleInv' /\ ServerData' /\ FileInv'
        <3>1. UNCHANGED <<data, handles>>
            BY <2>1 DEF OpenCall, Begin
        <3> QED
            BY <1>1, <1>2, <2>1, <3>1, OpenCallFile
    <2>2. ASSUME NEW b \in Content, WriteCall(b)
          PROVE  HandleInv' /\ ServerData' /\ FileInv'
        <3>1. UNCHANGED <<data, handles>>
            BY <2>2 DEF WriteCall, Begin
        <3> QED
            BY <1>1, <1>2, <2>2, <3>1, WriteCallFile
    <2>3. \/ \E p \in Path : \/ MkdirCall(p) \/ RemoveCall(p) \/ PrefigureCall(p)
                             \/ ExistsCall(p) \/ \E q \in Path : RenameCall(p, q)
          \/ \E p \in Path : TypeCall(p)
          \/ \E d : ContentsCall(d)
          \/ (\E n \in Space : ReadCall(n)) \/ CloseCall
          \/ \E p \in Path, mode \in {"ReadOnly", "Overwrite", "NoOverwrite"} : OpenCall(p, mode)
          \/ \E b \in Content : WriteCall(b)
        BY <1>4 DEF StartCall
    <2>4. \/ Harmless
          \/ \E p \in Path, mode \in {"ReadOnly", "Overwrite", "NoOverwrite"} : OpenCall(p, mode)
          \/ \E b \in Content : WriteCall(b)
        BY <2>3, NamesHarmless, TypeHarmless, ListingHarmless, ReadHarmless
    <2> QED
        BY <1>3, <2>1, <2>2, <2>4
<1>5. CASE CallStep
    <2>1. CASE OpenReply
        <3>1. UNCHANGED <<data, handles>>
            BY <2>1 DEF OpenReply, Leave, svars
        <3> QED
            BY <1>1, <1>2, <2>1, <3>1, OpenReplyFile
    <2>2. CASE WriteReply
        <3>1. UNCHANGED <<data, handles>>
            BY <2>2 DEF WriteReply, Leave, svars
        <3> QED
            BY <1>1, <1>2, <2>2, <3>1, WriteReplyFile
    <2>3. CASE ~ OpenReply /\ ~ WriteReply
        <3>1. \/ RenameFallback \/ RemoveDir \/ StatusReply
              \/ ExistsReap \/ ExistsStore \/ ExistsAnswer \/ ExistsUncached
              \/ ContentsReply \/ TypeReply \/ ReadBuffered \/ ReadReply
            BY <1>5, <2>3 DEF CallStep, Rest
        <3>2. Harmless
            BY <3>1, NamesHarmless, TypeHarmless, ListingHarmless, ReadHarmless
        <3> QED
            BY <1>3, <3>2
    <2> QED
        BY <2>1, <2>2, <2>3
<1> QED
    BY <1>4, <1>5

LEMMA InitStored ==
    ASSUME Init
    PROVE  StoredInv
<1>1. /\ send = <<>> /\ outbuf = <<>> /\ req = <<>> /\ rep = <<>> /\ replies = <<>>
      /\ wait = <<>> /\ got = <<>> /\ file = NoFile /\ call = Idle /\ handles = <<>>
      /\ data \in [Path -> Content]
    BY DEF Init, ServerInit, ClientInit
<1>2. DOMAIN <<>> = {}
    BY SmallSeqs
<1>3. Posted = {} /\ Received = {} /\ Taken = {}
    BY <1>1, <1>2 DEF Posted, Received, Taken, Asking, Posed
<1>4. ServerData
    <2>1. PICK k \in [Path -> Kind] :
             tree = [p \in Path |-> [kind |-> k[p], ino |-> IF k[p] = "file" THEN p ELSE 0]]
        BY DEF Init, ServerInit
    <2>2. ASSUME NEW p \in Path, tree[p].kind = "file" PROVE tree[p].ino = p
        <3>1. tree[p] = [kind |-> k[p], ino |-> IF k[p] = "file" THEN p ELSE 0]
            BY <2>1
        <3> QED
            BY <2>2, <3>1
    <2> QED
        BY <1>1, <1>2, <2>2 DEF ServerData
<1>5. call.op = "none"
    BY <1>1, OpsDiffer
<1> QED
    BY <1>1, <1>3, <1>4, <1>5 DEF StoredInv, HandleInv, FileInv, Calm, Written

LEMMA FewerBefore ==
    ASSUME SftpInv, [Next]_vars
    PROVE  FewRequests' => FewRequests
<1>1. serial \in Nat /\ serial' \in Nat /\ serial <= serial'
    <2>1. CASE (StartCall \/ CallStep) /\ ~ Rest
        BY <2>1, StepsHandled, HandledPosted DEF SftpInv, TypeOK
    <2>2. CASE Move \/ Environment \/ UNCHANGED vars
        <3>1. serial' = serial
            BY <2>2 DEF Move, Poll, PutRequest, FlushRequest, Await, Die, Return, Environment,
                        vars, cvars, link
        <3> QED
            BY <3>1 DEF SftpInv, TypeOK
    <2> QED
        BY <2>1, <2>2, StepsAre
<1> QED
    BY <1>1, ClientAssumption DEF FewRequests

LEMMA NextStored ==
    ASSUME SftpInv, MatchInv, StoredInv, [Next]_vars
    PROVE  StoredInv'
<1>1. FewRequests' => FewRequests
    BY FewerBefore
<1>2. CASE FewRequests
    <2>1. HandleInv /\ ServerData /\ FileInv
        BY <1>2 DEF StoredInv
    <2>2. CASE (StartCall \/ CallStep) /\ ~ Rest
        BY <2>1, <2>2, CallFile DEF StoredInv
    <2>3. CASE Move \/ Environment \/ UNCHANGED vars
        BY <1>2, <2>1, <2>3, RestFile DEF StoredInv
    <2> QED
        BY <2>2, <2>3, StepsAre
<1> QED
    BY <1>1, <1>2 DEF StoredInv

\* What writebytes() has put into a file is in it when the call returns, and
\* stays there while the file is open: the name it is renamed to afterwards
\* stands for the whole content.  Whatever replies, faults and other users
\* come in between, until newid() has given out every id once (writebytes,
\* synchronize and synchronize_one, sftp.cc:309-354).
THEOREM WritesStored == Spec => [](serial < IdMod - 1 => FlushedIsStored)
<1>1. SftpInv /\ MatchInv /\ StoredInv /\ [Next]_vars => SftpInv' /\ MatchInv' /\ StoredInv'
    BY NextInv, NextMatch, NextStored
<1>2. Init => SftpInv /\ MatchInv /\ StoredInv
    BY InitInv, InitMatch, InitStored
<1>3. StoredInv => (serial < IdMod - 1 => FlushedIsStored)
    <2> SUFFICES ASSUME StoredInv, FewRequests, Written, call = Idle
                 PROVE  data[handles[file.handle].ino] = file.done
        BY DEF FewRequests, FlushedIsStored, Written
    <2>1. Calm
        BY OpsDiffer DEF StoredInv, FileInv
    <2> QED
        BY <2>1 DEF Calm, Holds
<1> QED
    BY <1>1, <1>2, <1>3, PTL DEF Spec


----------------------------------------------------------------------------
(***************************************************************************)
(* Reading ahead.  The replies, in the order of the queue and whatever     *)
(* order they come in, are the rest of the file from where the buffer      *)
(* ends.                                                                   *)
(***************************************************************************)
\* A reply to a READ of the bytes from a to b of the data d.
Answers(x, a, b, d) ==
    \/ /\ x.type = "DATA" /\ x.val \in Seq(Byte) /\ a < Len(d)
       /\ a + Len(x.val) = MinOf(b, Len(d))
       /\ \A i \in 1 .. Len(x.val) : x.val[i] = d[a + i]
    \/ x.type = "STATUS" /\ (x.val = "EOF" => a >= Len(d))

\* The request s is a READ of these bytes from the handle h.
ReadAt(s, h, a, b, d) ==
    /\ a \in Nat /\ b \in Nat /\ a < b
    /\ \A x \in Posted : x.ser = s => x.op = "READ" /\ x.arg = <<h, a, b - a>>
    /\ \A x \in Received \cup Taken : x.ser = s => Answers(x, a, b, d)

\* The requests of the queue q ask for what follows, from o[0] on.
Queued(q, o, h, d) ==
    /\ o \in [0 .. Len(q) -> Nat]
    /\ \A i \in 1 .. Len(q) : ReadAt(q[i].ser, h, o[i - 1], o[i], d)

\* The bytes from c to e are what the call in progress waits for, if any.
Current(f, c, e, d) ==
    \/ /\ call.op = "read" /\ f.buf = <<>>
       /\ \E s \in 1 .. serial : OneRequest(s) /\ ReadAt(s, f.handle, c, e, d)
    \/ call.op = "read" /\ wait = <<>> /\ got = <<>> /\ c = e /\ f.buf # <<>>
    \/ call.op # "read" /\ c = e

Ahead(f, d) ==
    /\ ~ f.eof
    /\ \E o, c : /\ Queued(f.queue, o, f.handle, d) /\ o[Len(f.queue)] = f.offset
                 /\ c \in Nat /\ Current(f, c, o[0], d)
                 /\ Len(f.done) + Len(f.buf) = MinOf(c, Len(d))

\* What has been read, and what is in the buffer, is the beginning of the file.
Begun(f, d) ==
    /\ f.done \in Seq(Byte) /\ f.buf \in Seq(Byte)
    /\ Len(f.done) + Len(f.buf) <= Len(d)
    /\ \A i \in 1 .. Len(f.done) : f.done[i] = d[i]
    /\ \A i \in 1 .. Len(f.buf) : f.buf[i] = d[Len(f.done) + i]
    /\ f.end => Len(f.done) = Len(d)

ReadRight(f, d) ==
    /\ Begun(f, d)
    /\ f.failed \/ f.end \/ Ahead(f, d)
    /\ call.op = "read" => call.more \in Nat \ {0} /\ ~ f.failed /\ ~ f.end

Reading(f, d) == f # NoFile /\ f.mode = "ReadOnly" /\ Holds(f.handle, d)

DataTypes == \A i \in DOMAIN data : data[i] \in Seq(Byte)

ReadInv ==
    FewRequests =>
       /\ DataTypes
       /\ \A f, d : f = file /\ Reading(f, d) => ReadRight(f, d)

----------------------------------------------------------------------------
\* The step has served or lost some requests, and what they ask for stays so.
Lasting(f, d) ==
    /\ serial \in Nat /\ serial' \in Nat /\ serial <= serial'
    /\ \A s \in 1 .. serial : \A a, b :
          ReadAt(s, f.handle, a, b, d) => ReadAt(s, f.handle, a, b, d)'

LEMMA LessLasts ==
    ASSUME serial \in Nat, serial' \in Nat, serial <= serial',
           \A x \in Posted' : x \in Posted \/ x.ser > serial,
           \A x \in Received' \cup Taken' : x \in Received \cup Taken,
           NEW f, NEW d
    PROVE  Lasting(f, d)
<1>1. ASSUME NEW s \in 1 .. serial, NEW h, NEW a, NEW b, ReadAt(s, h, a, b, d)
      PROVE  ReadAt(s, h, a, b, d)'
    <2>1. \A x \in Posted' : x.ser = s => x \in Posted
        OBVIOUS
    <2>2. a \in Nat /\ b \in Nat /\ a < b
        BY <1>1 DEF ReadAt
    <2>3. \A x \in Posted' : x.ser = s => x.op = "READ" /\ x.arg = <<h, a, b - a>>
        BY <1>1, <2>1 DEF ReadAt
    <2>4. \A x \in Received' \cup Taken' : x.ser = s => Answers(x, a, b, d)
        BY <1>1 DEF ReadAt
    <2> QED
        BY <2>2, <2>3, <2>4 DEF ReadAt
<1> QED
    BY <1>1 DEF Lasting

\* A step that leaves the file, and the call, as far as it reads, alone.
CallLasts ==
    \/ call.op # "read" /\ call'.op # "read"
    \/ /\ call' = call
       /\ \A s : OneRequest(s) => OneRequest(s)'
       /\ wait = <<>> /\ got = <<>> => wait' = <<>> /\ got' = <<>>

LEMMA QueueIssued ==
    ASSUME SftpInv, file # NoFile
    PROVE  /\ file.queue \in Seq(Tickets) /\ file.offset \in Nat /\ Len(file.queue) \in Nat
           /\ DOMAIN file = FileFields
           /\ \A i \in 1 .. Len(file.queue) : file.queue[i].ser \in 1 .. serial
<1>1. file.queue \in Seq(Tickets) /\ file.offset \in Nat /\ DOMAIN file = FileFields
    BY DEF SftpInv, TypeOK, Shape
<1>2. Len(file.queue) \in Nat /\ DOMAIN file.queue = 1 .. Len(file.queue)
    BY <1>1, LenProperties
<1>3. ASSUME NEW i \in 1 .. Len(file.queue) PROVE file.queue[i].ser \in 1 .. serial
    <2>1. file.queue[i] \in Kept
        BY <1>2 DEF Kept, ToSet
    <2> QED
        BY <2>1 DEF SftpInv, Shape, Expected, Issued
<1> QED
    BY <1>1, <1>2, <1>3

LEMMA QueueLasts ==
    ASSUME NEW q, NEW o, NEW f, NEW d, Lasting(f, d), Queued(q, o, f.handle, d),
           \A i \in 1 .. Len(q) : q[i].ser \in 1 .. serial
    PROVE  Queued(q, o, f.handle, d)'
BY DEF Queued, Lasting

LEMMA ReadLasts ==
    ASSUME SftpInv, NEW f, NEW d, f = file, f # NoFile, ReadRight(f, d), Lasting(f, d), CallLasts
    PROVE  ReadRight(f, d)'
<1>1. Begun(f, d)' /\ Begun(f, d)
    BY DEF ReadRight, Begun
<1>2. call'.op = "read" => call'.more \in Nat \ {0} /\ ~ f.failed /\ ~ f.end
    BY DEF ReadRight, CallLasts
<1>3. ASSUME Ahead(f, d) PROVE Ahead(f, d)'
    <2>1. PICK o, c : /\ Queued(f.queue, o, f.handle, d) /\ o[Len(f.queue)] = f.offset
                      /\ c \in Nat /\ Current(f, c, o[0], d)
                      /\ Len(f.done) + Len(f.buf) = MinOf(c, Len(d))
        BY <1>3 DEF Ahead
    <2>2. Queued(f.queue, o, f.handle, d)'
        BY <2>1, QueueIssued, QueueLasts
    <2>3. Current(f, c, o[0], d)'
        <3>1. CASE call.op # "read"
            BY <2>1, <3>1 DEF Current, CallLasts
        <3>2. CASE call.op = "read"
            <4>1. /\ call' = call
                  /\ \A s : OneRequest(s) => OneRequest(s)'
                  /\ wait = <<>> /\ got = <<>> => wait' = <<>> /\ got' = <<>>
                BY <3>2 DEF CallLasts
            <4>2. CASE f.buf = <<>>
                <5>1. PICK s \in 1 .. serial : OneRequest(s) /\ ReadAt(s, f.handle, c, o[0], d)
                    BY <2>1, <3>2, <4>2 DEF Current
                <5>2. s \in 1 .. serial' /\ OneRequest(s)' /\ ReadAt(s, f.handle, c, o[0], d)'
                    BY <4>1, <5>1 DEF Lasting
                <5> QED
                    BY <3>2, <4>1, <4>2, <5>2 DEF Current
            <4>3. CASE f.buf # <<>>
                BY <2>1, <3>2, <4>1, <4>3 DEF Current
            <4> QED
                BY <4>2, <4>3
        <3> QED
            BY <3>1, <3>2
    <2> QED
        BY <1>3, <2>1, <2>2, <2>3 DEF Ahead
<1> QED
    BY <1>1, <1>2, <1>3 DEF ReadRight

\* The handle of the file and its data have been there before.
LEMMA StillReading ==
    ASSUME UNCHANGED <<data, handles>>, NEW f, NEW d, Reading(f, d)'
    PROVE  Reading(f, d)
BY DEF Reading, Holds

\* Nothing is left of the invariant to show when the step only loses requests.
LEMMA QuietRead ==
    ASSUME SftpInv, FewRequests, ReadInv, UNCHANGED <<data, handles>>, CallLasts,
           serial' \in Nat, serial <= serial',
           \A x \in Posted' : x \in Posted \/ x.ser > serial,
           \A x \in Received' \cup Taken' : x \in Received \cup Taken,
           file' = file \/ file' = NoFile \/ file'.mode # "ReadOnly"
    PROVE  ReadInv'
<1>1. DataTypes'
    BY DEF ReadInv, DataTypes
<1>2. ASSUME NEW f, NEW d, f = file', Reading(f, d)'
      PROVE  ReadRight(f, d)'
    <2>1. f # NoFile /\ f.mode = "ReadOnly" /\ f = file
        BY <1>2 DEF Reading
    <2>2. Reading(f, d)
        BY <1>2, StillReading
    <2>3. ReadRight(f, d)
        BY <2>1, <2>2 DEF ReadInv
    <2>4. Lasting(f, d)
        BY LessLasts DEF SftpInv, TypeOK
    <2> QED
        BY <2>1, <2>3, <2>4, ReadLasts
<1> QED
    BY <1>1, <1>2 DEF ReadInv

LEMMA ShrinksRead ==
    ASSUME SftpInv, FewRequests, ReadInv, Shrinks
    PROVE  ReadInv'
<1>1. /\ Posted' \subseteq Posted /\ Received' \subseteq Received /\ Taken' = Taken
      /\ UNCHANGED <<data, handles, file, serial, wait, got>> /\ serial \in Nat
      /\ (call' = call \/ (call.op \in {"return", "prefigure", "close"} /\ call' = Idle))
    BY DEF Shrinks, Taken, SftpInv, TypeOK
<1>2. CallLasts
    BY <1>1, OpsDiffer DEF CallLasts, OneRequest
<1> QED
    BY <1>1, <1>2, QuietRead

LEMMA AwaitRead ==
    ASSUME SftpInv, MatchInv, FewRequests, ReadInv, Await
    PROVE  ReadInv'
<1>1. /\ wait # <<>> /\ wait' = Tail(wait) /\ Posted' = Posted /\ Received' \subseteq Received
      /\ UNCHANGED <<data, handles, tree, file, serial, call>> /\ serial \in Nat
    BY AwaitPosted DEF SftpInv, TypeOK
<1>2. PICK a, g : /\ a \in Received /\ a.ser = wait[1].ser
                  /\ g.reply = a /\ got' = Append(got, g)
                  /\ Taken' = Taken \cup {a}
    BY AwaitPosted
<1>3. ASSUME NEW s, OneRequest(s) PROVE OneRequest(s)'
    <2>1. PICK t : got = <<>> /\ wait = <<t>> /\ t.ser = s
        BY <1>1, <1>3 DEF OneRequest
    <2>2. wait' = <<>> /\ got' = <<g>> /\ a.ser = s
        BY <1>1, <1>2, <2>1
    <2> QED
        BY <1>1, <1>2, <1>3, <2>2 DEF OneRequest
<1>4. CallLasts
    BY <1>1, <1>3 DEF CallLasts
<1> QED
    BY <1>1, <1>2, <1>4, QuietRead

\* A step of a call that is not about reading.
LEMMA HandledRead ==
    ASSUME SftpInv, FewRequests, ReadInv, Handled, UNCHANGED <<data, handles>>,
           call.op # "read", call'.op # "read",
           file' = file \/ file' = NoFile \/ file'.mode # "ReadOnly"
    PROVE  ReadInv'
<1>1. /\ Posted' \subseteq Posted \cup News' /\ Received' \subseteq Received
      /\ Taken' \subseteq Taken /\ serial' \in Nat /\ serial <= serial'
      /\ \A x \in News' : x.ser > serial
    BY HandledPosted
<1>2. CallLasts
    BY DEF CallLasts
<1> QED
    BY <1>1, <1>2, QuietRead

\* Which steps these are.
LEMMA Elsewhere ==
    ASSUME SftpInv, FileInv, StartCall \/ CallStep, ~ Rest,
           ~ (\E n \in Space : ReadCall(n)), ~ ReadBuffered, ~ ReadReply, ~ OpenReply
    PROVE  /\ UNCHANGED <<data, handles>> /\ call.op # "read" /\ call'.op # "read"
           /\ file' = file \/ file' = NoFile \/ file'.mode # "ReadOnly"
<1>0. Idle.op = "none"
    BY OpsDiffer
<1>1. ASSUME NEW op, op # "read", NEW p, NEW more, Begin(op, p, more)
      PROVE  UNCHANGED <<data, handles>> /\ call.op # "read" /\ call'.op # "read"
    BY <1>0, <1>1 DEF Begin
<1>2. ASSUME NEW status, NEW val, NEW hs, Leave(status, val, hs)
      PROVE  UNCHANGED <<data, handles>> /\ call'.op # "read"
    BY <1>0, <1>2 DEF Leave, svars
<1>3. CASE StartCall
    <2>1. CASE \E p \in Path : \/ MkdirCall(p) \/ RemoveCall(p) \/ PrefigureCall(p)
                               \/ ExistsCall(p) \/ TypeCall(p) \/ \E q \in Path : RenameCall(p, q)
        BY <1>1, <2>1 DEF MkdirCall, RemoveCall, PrefigureCall, ExistsCall, TypeCall, RenameCall
    <2>2. CASE (\E p : \E mode : OpenCall(p, mode)) \/ (\E p : ContentsCall(p)) \/ CloseCall
        BY <1>1, <2>2 DEF OpenCall, ContentsCall, CloseCall
    <2>3. ASSUME NEW b, WriteCall(b)
          PROVE  /\ UNCHANGED <<data, handles>> /\ call.op # "read" /\ call'.op # "read"
                 /\ file'.mode # "ReadOnly"
        <3>1. UNCHANGED <<data, handles>> /\ call.op # "read" /\ call'.op # "read"
            BY <1>1, <2>3 DEF WriteCall
        <3>2. file.mode # "ReadOnly" /\ DOMAIN file = FileFields
            BY <2>3 DEF WriteCall, Usable, SftpInv, Shape
        <3>3. \E o : file' = [file EXCEPT !.offset = o]
            BY <2>3 DEF WriteCall
        <3> QED
            BY <3>1, <3>2, <3>3 DEF FileFields
    <2> QED
        BY <1>3, <2>1, <2>2, <2>3 DEF StartCall
<1>4. CASE CallStep
    <2>1. CASE RenameFallback \/ RemoveDir
        <3>1. call.op # "read" /\ UNCHANGED <<data, handles, file>>
            BY <2>1 DEF RenameFallback, RemoveDir, Replied, Again, svars
        <3>2. call' = call \/ call' = [call EXCEPT !.op = "rmdir"]
            BY <2>1 DEF RenameFallback, RemoveDir, Again
        <3>3. DOMAIN call = {"op", "path", "more"} \/ call' = call
            BY <2>1 DEF RenameFallback, RemoveDir, Again, Replied, SftpInv, Progress
        <3> QED
            BY <3>1, <3>2, <3>3
    <2>2. CASE StatusReply \/ ExistsAnswer \/ TypeReply
        <3>1. call.op # "read" /\ file' = file
            BY <2>2 DEF StatusReply, ExistsAnswer, ExistsLookup, TypeReply, Replied
        <3>2. \E status, val, hs : Leave(status, val, hs)
            BY <2>2 DEF StatusReply, ExistsAnswer, TypeReply
        <3> QED
            BY <1>2, <3>1, <3>2
    <2>3. CASE ExistsReap \/ ExistsStore \/ ExistsUncached
        BY <2>3 DEF ExistsReap, ExistsStore, ExistsUncached, ExistsLookup, Replied, svars
    <2>4. CASE ContentsReply
        <3>1. call.op = "contents" /\ file' = file
            BY <2>4 DEF ContentsReply, Replied
        <3>2. (\E more : NextBatch(more)) \/ (\E status, val, hs : Leave(status, val, hs))
            BY <2>4 DEF ContentsReply
        <3>3. ASSUME NEW more, NextBatch(more)
              PROVE  UNCHANGED <<data, handles>> /\ call'.op # "read"
            <4>1. UNCHANGED <<data, handles>> /\ call' = [call EXCEPT !.more = more]
                BY <3>3 DEF NextBatch, svars
            <4>2. DOMAIN call = {"op", "path", "more"}
                BY <3>1 DEF SftpInv, Progress
            <4> QED
                BY <3>1, <4>1, <4>2
        <3> QED
            BY <1>2, <3>1, <3>2, <3>3
    <2>5. CASE WriteReply
        <3>1. call.op = "write" /\ file # NoFile /\ DOMAIN file = FileFields
            BY <2>5, FileNow DEF WriteReply, Replied
        <3>2. CASE WriteFailed
            BY <2>5, <3>1, <3>2 DEF WriteReply, svars
        <3>3. CASE ~ WriteFailed
            <4>1. \E done : file' = [file EXCEPT !.done = done]
                BY <2>5, <3>3 DEF WriteReply
            <4>2. Leave("OK", "", <<>>)
                BY <2>5, <3>3 DEF WriteReply
            <4>3. file.mode # "ReadOnly"
                BY <3>1 DEF FileInv, Storing, Written
            <4> QED
                BY <1>2, <3>1, <4>1, <4>2, <4>3 DEF FileFields
        <3> QED
            BY <3>2, <3>3
    <2> QED
        BY <1>4, <2>1, <2>2, <2>3, <2>4, <2>5 DEF CallStep, Rest
<1> QED
    BY <1>3, <1>4

----------------------------------------------------------------------------
(***************************************************************************)
(* What the server answers.                                                *)
(***************************************************************************)
\* The server makes no handle but that of the request it serves.
LEMMA HandlesGiven ==
    ASSUME Serve \/ Fail
    PROVE  DOMAIN handles' \subseteq DOMAIN handles \cup {Head(req).ser}
<1>1. ASSUME NEW s, Refuse(s) PROVE handles' = handles
    BY <1>1 DEF Refuse
<1>2. ASSUME NEW ino, NEW left, NewHandle(ino, left)
      PROVE  DOMAIN handles' \subseteq DOMAIN handles \cup {Head(req).ser}
    BY <1>2 DEF NewHandle, Put
<1>3. CASE Fail
    BY <1>1, <1>3 DEF Fail
<1>4. CASE Serve
    <2>1. ASSUME NEW p, Stat(p) \/ ReadLink(p) \/ MkDir(p) PROVE handles' = handles
        BY <1>1, <2>1 DEF Stat, ReadLink, MkDir
    <2>2. ASSUME NEW p, NEW q, NEW b, Unlink(p, b) \/ Rename(p, q, b) PROVE handles' = handles
        BY <1>1, <2>2 DEF Unlink, Rename
    <2>3. ASSUME NEW p, NEW q, Extended(p, q) PROVE handles' = handles
        BY <1>1, <2>2, <2>3 DEF Extended
    <2>4. ASSUME NEW p, NEW mode, Open(p, mode) \/ OpenDir(p)
          PROVE  DOMAIN handles' \subseteq DOMAIN handles \cup {Head(req).ser}
        <3>1. (\E s : Refuse(s)) \/ (\E ino, left : NewHandle(ino, left))
            BY <2>4 DEF Open, OpenDir
        <3> QED
            BY <1>1, <1>2, <3>1
    <2>5. ASSUME NEW h, NEW o, NEW b, Read(h, o, b) \/ Write(h, o, b) PROVE handles' = handles
        BY <1>1, <2>5 DEF Read, Write
    <2>6. ASSUME NEW h, ReadDir(h) \/ Close(h) PROVE DOMAIN handles' \subseteq DOMAIN handles
        <3>1. CASE ReadDir(h)
            <4>1. \/ \E s : handles' = [handles EXCEPT ![h].left = @ \ s]
                  \/ \E s : Refuse(s)
                BY <3>1 DEF ReadDir
            <4> QED
                BY <1>1, <4>1
        <3>2. CASE Close(h)
            BY <3>2 DEF Close, RestrictDomain, Restrict
        <3> QED
            BY <2>6, <3>1, <3>2
    <2> QED
        BY <1>4, <2>1, <2>2, <2>3, <2>4, <2>5, <2>6, ZenonT(60) DEF Serve
<1> QED
    BY <1>3, <1>4

\* A READ is answered with what is there, or not at all.
LEMMA ReadData ==
    ASSUME Serve \/ Fail, NEW h, NEW a \in Nat, NEW b \in Nat, a < b, NEW d \in Seq(Byte),
           Head(req).op = "READ", Head(req).arg = <<h, a, b - a>>, Holds(h, d)
    PROVE  \E type, val : /\ Reply(type, val)
                          /\ \A x : x.type = type /\ x.val = val => Answers(x, a, b, d)
<1>1. ASSUME NEW s, s # "EOF" \/ a >= Len(d), Refuse(s)
      PROVE  \E type, val : /\ Reply(type, val)
                            /\ \A x : x.type = type /\ x.val = val => Answers(x, a, b, d)
    <2>1. Reply("STATUS", s)
        BY <1>1 DEF Refuse, Status
    <2>2. \A x : x.type = "STATUS" /\ x.val = s => Answers(x, a, b, d)
        BY <1>1 DEF Answers
    <2> QED
        BY <2>1, <2>2
<1>2. CASE Fail
    BY <1>1, <1>2 DEF Fail
<1>3. CASE Serve
    <2>0. Head(req).arg[1] = h /\ Head(req).arg[2] = a /\ Head(req).arg[3] = b - a
        OBVIOUS
    <2>1. Read(h, a, b - a)
        BY <1>3, <2>0 DEF Serve
    <2>2. Len(d) \in Nat
        BY LenProperties
    <2>3. PICK m : m = IF a + (b - a) < Len(d) THEN a + (b - a) ELSE Len(d)
        OBVIOUS
    <2>4. m = MinOf(b, Len(d)) /\ m \in Nat /\ m <= Len(d)
        BY <2>2, <2>3 DEF MinOf
    <2>5. CASE a < Len(d) /\ Reply("DATA", SubSeq(d, a + 1, m))
        <3>1. a + 1 <= m
            BY <2>2, <2>4, <2>5 DEF MinOf
        <3>2. \A i \in a + 1 .. m : d[i] \in Byte
            BY <2>2, <2>4, ElementOfSeq
        <3>3. /\ SubSeq(d, a + 1, m) \in Seq(Byte)
              /\ Len(SubSeq(d, a + 1, m)) = IF a + 1 <= m THEN m - (a + 1) + 1 ELSE 0
              /\ \A i \in 1 .. m - (a + 1) + 1 : SubSeq(d, a + 1, m)[i] = d[a + 1 + i - 1]
            BY <2>4, <3>2, SubSeqProperties
        <3>4. PICK v : v = SubSeq(d, a + 1, m)
            OBVIOUS
        <3>5. v \in Seq(Byte) /\ Len(v) = m - a /\ \A i \in 1 .. m - a : v[i] = d[a + i]
            <4>1. m - (a + 1) + 1 = m - a /\ \A i \in 1 .. m - a : a + 1 + i - 1 = a + i
                BY <2>4
            <4> QED
                BY <3>1, <3>3, <3>4, <4>1
        <3>6. a + Len(v) = MinOf(b, Len(d))
            BY <2>4, <3>5
        <3>7. \A x : x.type = "DATA" /\ x.val = v => Answers(x, a, b, d)
            BY <2>5, <3>5, <3>6 DEF Answers
        <3> QED
            BY <2>5, <3>4, <3>7
    <2>6. \/ Refuse("FAILURE") \/ (a >= Len(d) /\ Refuse("EOF"))
          \/ a < Len(d) /\ Reply("DATA", SubSeq(d, a + 1, m))
        BY <2>1, <2>3 DEF Read, Holds
    <2> QED
        BY <1>1, <2>5, <2>6
<1> QED
    BY <1>2, <1>3

\* Data stay sequences of bytes.
LEMMA ServedDataTypes ==
    ASSUME SftpInv, ServerData, FileInv, DataTypes, Serve \/ Fail,
           Head(req) \in Posted, Changing(Head(req))
    PROVE  DataTypes'
<1>1. PICK r : r = Head(req)
    OBVIOUS
<1>2. r \in Posted /\ Changing(r)
    BY <1>1
<1>3. <<>> \in Seq(Byte)
    BY EmptySeq
<1>4. CASE Fail
    BY <1>4 DEF Fail, Refuse, DataTypes
<1>5. CASE Serve /\ r.op = "OPEN"
    <2>1. Open(r.arg[1], r.arg[2])
        BY <1>1, <1>5 DEF Serve
    <2>2. \/ data' = data
          \/ \E i : data' = [data EXCEPT ![i] = <<>>]
          \/ \E i : data' = Put(data, i, <<>>)
        BY <2>1 DEF Open, Refuse
    <2>3. CASE data' = data
        BY <2>3 DEF DataTypes
    <2>4. ASSUME NEW i, data' = [data EXCEPT ![i] = <<>>] PROVE DataTypes'
        BY <1>3, <2>4 DEF DataTypes
    <2>5. ASSUME NEW i, data' = Put(data, i, <<>>) PROVE DataTypes'
        BY <1>3, <2>5 DEF DataTypes, Put
    <2> QED
        BY <2>2, <2>3, <2>4, <2>5
<1>6. CASE Serve /\ r.op = "WRITE"
    <2>1. PICK s : Storing(s) /\ r.ser = s
        BY <1>2, <1>6 DEF FileInv, Calm, Opening, Storing, Changing
    <2>2. PICK h, e, b : h = file.handle /\ e = file.done /\ b = call.more
        OBVIOUS
    <2>3. /\ r.arg = <<h, Len(e), b>> /\ Holds(h, e) /\ e \in Seq(Byte) /\ b \in Seq(Byte)
        BY <1>2, <2>1, <2>2 DEF Storing
    <2>4. r.arg[1] = h /\ r.arg[2] = Len(e) /\ r.arg[3] = b
        BY <2>3
    <2>5. Write(h, Len(e), b)
        BY <1>1, <1>6, <2>4 DEF Serve
    <2>6. PICK i : i = handles[h].ino
        OBVIOUS
    <2>7. data' = [data EXCEPT ![i] = PutAt(data[i], Len(e), b)]
        BY <2>5, <2>6 DEF Write, PutAt
    <2>8. data[i] = e
        BY <2>3, <2>6 DEF Holds
    <2>9. PICK n : n = PutAt(e, Len(e), b)
        OBVIOUS
    <2>10. n \in Seq(Byte)
        BY <2>3, <2>9, AppendedIsConcat, ConcatProperties
    <2>11. data' = [data EXCEPT ![i] = n]
        BY <2>7, <2>8, <2>9
    <2> QED
        BY <2>10, <2>11 DEF DataTypes
<1> QED
    BY <1>1, <1>2, <1>4, <1>5, <1>6 DEF Changing

\* While a file is read nobody asks for a change of any data.
LEMMA NothingChanging ==
    ASSUME FileInv, file # NoFile, file.mode = "ReadOnly", NEW r \in Posted
    PROVE  ~ Changing(r)
BY DEF FileInv, Calm, Opening, Storing, Written

LEMMA ServeRead ==
    ASSUME SftpInv, HandleInv, ServerData, FileInv, FewRequests, ReadInv,
           Serve \/ Fail, UNCHANGED cvars
    PROVE  ReadInv'
<1>0. PICK r : r = Head(req)
    OBVIOUS
<1>1. PICK type, val : Reply(type, val)
    BY ServerReplies
<1>2. /\ r \in Posted /\ r.op \in Op /\ ArgsRight(r) /\ r.ser \in 1 .. serial
      /\ Posted' \subseteq Posted /\ \A x \in Posted' : x.ser # r.ser
      /\ UNCHANGED <<file, serial, wait, got, call>> /\ Taken' = Taken
    BY <1>0, <1>1, ServePosted
<1>3. PICK t, v : ServedRight(r, t, v)
    BY <1>0, <1>2, ServeData
<1>4. HandlesStay(r) /\ (~ Changing(r) => data' = data)
    BY <1>3 DEF ServedRight
<1>5. DataTypes'
    <2>1. DataTypes
        BY DEF ReadInv
    <2>2. CASE Changing(r)
        BY <1>0, <1>2, <2>1, <2>2, ServedDataTypes
    <2>3. CASE ~ Changing(r)
        BY <1>4, <2>1, <2>3 DEF DataTypes
    <2> QED
        BY <2>2, <2>3
<1>6. ASSUME NEW f, NEW d, f = file', Reading(f, d)'
      PROVE  ReadRight(f, d)'
    <2>1. f = file /\ f # NoFile /\ f.mode = "ReadOnly"
        BY <1>2, <1>6 DEF Reading
    <2>2. data' = data
        BY <1>2, <1>4, <2>1, NothingChanging
    <2>3. f.handle # r.ser /\ (r.op = "CLOSE" => f.handle # r.arg)
        BY <1>2, <2>1 DEF HandleInv, Settled
    <2>4. Reading(f, d)
        <3>1. f.handle \in DOMAIN handles
            BY <1>0, <1>6, <2>3, HandlesGiven DEF Reading, Holds
        <3>2. handles'[f.handle].ino = handles[f.handle].ino
            BY <1>4, <2>3, <3>1 DEF HandlesStay
        <3> QED
            BY <1>6, <2>1, <2>2, <3>1, <3>2 DEF Reading, Holds
    <2>5. ReadRight(f, d) /\ d \in Seq(Byte)
        BY <2>1, <2>4 DEF ReadInv, Reading, Holds, DataTypes
    <2>6. ASSUME NEW s \in 1 .. serial, NEW a, NEW b, ReadAt(s, f.handle, a, b, d)
          PROVE  ReadAt(s, f.handle, a, b, d)'
        <3>1. a \in Nat /\ b \in Nat /\ a < b
            BY <2>6 DEF ReadAt
        <3>2. \A x \in Posted' : x.ser = s => x.op = "READ" /\ x.arg = <<f.handle, a, b - a>>
            BY <1>2, <2>6 DEF ReadAt
        <3>3. \A x \in Received \cup Taken : x.ser = s => Answers(x, a, b, d)
            BY <2>6 DEF ReadAt
        <3>4. ASSUME NEW x \in Received' \cup Taken', x.ser = s
              PROVE  Answers(x, a, b, d)
            <4>1. CASE r.ser # s
                <5>1. x \in Received \cup Taken
                    <6>1. PICK y : y.ser = r.ser /\ Received' = Received \cup {y}
                        BY <1>0, <1>1, ServePosted
                    <6> QED
                        BY <1>2, <3>4, <4>1, <6>1
                <5> QED
                    BY <3>3, <3>4, <5>1
            <4>2. CASE r.ser = s
                <5>1. r.op = "READ" /\ r.arg = <<f.handle, a, b - a>>
                    BY <1>2, <2>6, <4>2 DEF ReadAt
                <5>2. Holds(f.handle, d)
                    BY <2>4 DEF Reading
                <5>3. PICK ty, va : /\ Reply(ty, va)
                                    /\ \A y : y.type = ty /\ y.val = va => Answers(y, a, b, d)
                    BY <1>0, <2>5, <3>1, <5>1, <5>2, ReadData
                <5>4. PICK y : /\ y.type = ty /\ y.val = va
                               /\ Received' = Received \cup {y}
                    BY <1>0, <5>3, ServePosted
                <5>5. Answers(y, a, b, d)
                    BY <5>3, <5>4
                <5> QED
                    BY <1>2, <3>3, <3>4, <5>4, <5>5
            <4> QED
                BY <4>1, <4>2
        <3>5. \A x \in Received' \cup Taken' : x.ser = s => Answers(x, a, b, d)
            BY <3>4
        <3> QED
            BY <3>1, <3>2, <3>5 DEF ReadAt
    <2>7. Lasting(f, d)
        BY <1>2, <2>6 DEF Lasting, SftpInv, TypeOK
    <2>8. CallLasts
        BY <1>2 DEF CallLasts, OneRequest
    <2> QED
        BY <2>1, <2>5, <2>7, <2>8, ReadLasts
<1> QED
    BY <1>5, <1>6 DEF ReadInv

LEMMA RestRead ==
    ASSUME SftpInv, MatchInv, FewRequests, HandleInv, ServerData, FileInv, ReadInv,
           Move \/ Environment \/ UNCHANGED vars
    PROVE  ReadInv'
<1>1. CASE Poll
    BY <1>1, PollPosted, ShrinksRead DEF Shrinks
<1>2. CASE PutRequest
    BY <1>2, PutPosted, ShrinksRead DEF Shrinks
<1>3. CASE FlushRequest
    BY <1>3, FlushPosted, ShrinksRead DEF Shrinks
<1>4. CASE Await
    BY <1>4, AwaitRead
<1>5. CASE Die \/ Return \/ UNCHANGED vars
    <2>1. /\ UNCHANGED <<send, outbuf, req, rep, replies, tree, data, handles, file, serial, wait, got>>
          /\ \/ call' = call
             \/ call.op \in {"return", "prefigure", "close"} /\ call' = Idle
        BY <1>5 DEF Die, Return, vars, svars, cvars, link, round
    <2> QED
        BY <2>1, NothingPosted, ShrinksRead DEF Shrinks
<1>6. CASE (HangUp \/ \E p \in Path : Change(p)) /\ UNCHANGED cvars
    <2>1. UNCHANGED <<send, outbuf, req, rep, replies, data, handles, file, serial, wait, got, call>>
        BY <1>6 DEF HangUp, Change, cvars, link, round
    <2> QED
        BY <2>1, NothingPosted, ShrinksRead DEF Shrinks
<1>7. CASE (Serve \/ Fail) /\ UNCHANGED cvars
    BY <1>7, ServeRead
<1> QED
    BY <1>1, <1>2, <1>3, <1>4, <1>5, <1>6, <1>7 DEF Move, Environment

----------------------------------------------------------------------------
(***************************************************************************)
(* The steps of a call that reads.                                         *)
(***************************************************************************)
LEMMA NowRead ==
    ASSUME SftpInv, FewRequests, ReadInv, Handled, NEW f, NEW d, Reading(f, d)
    PROVE  d \in Seq(Byte) /\ Len(d) \in Nat /\ Lasting(f, d)
<1>1. d \in Seq(Byte)
    BY DEF ReadInv, Reading, Holds, DataTypes
<1>2. /\ Posted' \subseteq Posted \cup News' /\ Received' \subseteq Received
      /\ Taken' \subseteq Taken /\ serial' \in Nat /\ serial <= serial'
      /\ \A x \in News' : x.ser > serial
    BY HandledPosted
<1>3. Lasting(f, d)
    BY <1>2, LessLasts DEF SftpInv, TypeOK
<1> QED
    BY <1>1, <1>3, LenProperties

\* A file that has just been opened.
LEMMA OpenReplyRead ==
    ASSUME SftpInv, FewRequests, ReadInv, Handled, OpenReply
    PROVE  ReadInv'
<1>1. call.op = "open" /\ \E status : Leave(status, "", <<>>)
    BY DEF OpenReply, Replied
<1>2. UNCHANGED <<data, handles>> /\ call'.op = "none"
    BY <1>1, EndedNews, OpsDiffer
<1>3. CASE file' = file
    BY <1>1, <1>2, <1>3, HandledRead
<1>4. CASE file' # file
    <2>1. file' = [handle |-> Answer(1).val, mode |-> call.more, queue |-> <<>>, offset |-> 0,
                   buf |-> <<>>, eof |-> FALSE, done |-> <<>>, end |-> FALSE,
                   failed |-> FALSE]
        BY <1>4 DEF OpenReply
    <2>2. PICK f : /\ f = file' /\ f.queue = <<>> /\ f.offset = 0 /\ f.buf = <<>> /\ f.done = <<>>
                   /\ f.eof = FALSE /\ f.end = FALSE
        BY <2>1
    <2>3. <<>> \in Seq(Byte) /\ Len(<<>>) = 0
        BY EmptySeq
    <2>4. DataTypes /\ DataTypes'
        BY <1>2 DEF ReadInv, DataTypes
    <2>5. ASSUME NEW d, Reading(f, d)' PROVE ReadRight(f, d)'
        <3>1. d \in Seq(Byte) /\ Len(d) \in Nat
            <4>1. d \in Seq(Byte)
                BY <2>4, <2>5 DEF Reading, Holds, DataTypes
            <4> QED
                BY <4>1, LenProperties
        <3>2. Begun(f, d)'
            BY <2>2, <2>3, <3>1 DEF Begun
        <3>3. PICK o : o = [i \in 0 .. 0 |-> 0]
            OBVIOUS
        <3>4. o \in [0 .. Len(f.queue) -> Nat] /\ o[Len(f.queue)] = f.offset /\ o[0] = 0
            BY <2>2, <2>3, <3>3
        <3>5. Queued(f.queue, o, f.handle, d)'
            BY <2>2, <2>3, <3>4 DEF Queued
        <3>6. Current(f, 0, o[0], d)'
            BY <1>2, <3>4 DEF Current
        <3>7. Len(f.done) + Len(f.buf) = MinOf(0, Len(d))
            BY <2>2, <2>3, <3>1 DEF MinOf
        <3>8. Ahead(f, d)'
            BY <2>2, <3>4, <3>5, <3>6, <3>7 DEF Ahead
        <3> QED
            BY <1>2, <3>2, <3>8 DEF ReadRight
    <2> QED
        BY <2>2, <2>4, <2>5 DEF ReadInv
<1> QED
    BY <1>3, <1>4

\* What the file g has handed over, and then these bytes, is the beginning of d.
Deliverable(g, bytes, d) ==
    /\ bytes \in Seq(Byte) /\ d \in Seq(Byte) /\ call.more \in Nat \ {0}
    /\ DOMAIN g = FileFields /\ g.done \in Seq(Byte)
    /\ Len(g.done) + Len(bytes) <= Len(d)
    /\ \A i \in 1 .. Len(g.done) : g.done[i] = d[i]
    /\ \A i \in 1 .. Len(bytes) : bytes[i] = d[Len(g.done) + i]
    /\ bytes = <<>> => Len(g.done) = Len(d)

Delivered(f, g, bytes, d) ==
    /\ Begun(f, d)
    /\ Len(f.done) + Len(f.buf) = Len(g.done) + Len(bytes)
    /\ f.handle = g.handle /\ f.mode = g.mode /\ f.queue = g.queue
    /\ f.offset = g.offset /\ f.eof = g.eof /\ f.failed = g.failed
    /\ f.end <=> bytes = <<>>

\* What readbytes() returns, and what it keeps, is what there was.
LEMMA DeliverRight ==
    ASSUME NEW g, NEW bytes, NEW d, Deliver(g, bytes), Deliverable(g, bytes, d)
    PROVE  \E f : f = file' /\ Delivered(f, g, bytes, d)
<1>0. /\ bytes \in Seq(Byte) /\ d \in Seq(Byte) /\ call.more \in Nat \ {0}
      /\ DOMAIN g = FileFields /\ g.done \in Seq(Byte)
      /\ Len(g.done) + Len(bytes) <= Len(d)
      /\ \A i \in 1 .. Len(g.done) : g.done[i] = d[i]
      /\ \A i \in 1 .. Len(bytes) : bytes[i] = d[Len(g.done) + i]
      /\ bytes = <<>> => Len(g.done) = Len(d)
    BY DEF Deliverable
<1>1. PICK n : n = MinOf(call.more, Len(bytes))
    OBVIOUS
<1>2. PICK b, e, m, l : /\ b = SubSeq(bytes, n + 1, Len(bytes)) /\ e = SubSeq(bytes, 1, n)
                        /\ m = Len(g.done) /\ l = Len(bytes)
    OBVIOUS
<1>3. PICK c : c = g.done \o e
    OBVIOUS
<1>4. m \in Nat /\ l \in Nat /\ Len(d) \in Nat /\ n \in 0 .. l /\ (n = 0 <=> l = 0)
    <2>1. m \in Nat /\ l \in Nat /\ Len(d) \in Nat
        BY <1>0, <1>2, LenProperties
    <2> QED
        BY <1>0, <1>1, <1>2, <2>1 DEF MinOf
<1>5. bytes = <<>> <=> l = 0
    BY <1>0, <1>2, EmptySeq
<1>6. \A i \in 1 .. l : bytes[i] \in Byte /\ bytes[i] = d[m + i]
    BY <1>0, <1>2, ElementOfSeq
<1>7. b \in Seq(Byte) /\ Len(b) = l - n /\ \A i \in 1 .. l - n : b[i] = bytes[n + i]
    <2>1. /\ SubSeq(bytes, n + 1, l) \in Seq(Byte)
          /\ Len(SubSeq(bytes, n + 1, l)) = IF n + 1 <= l THEN l - (n + 1) + 1 ELSE 0
          /\ \A i \in 1 .. l - (n + 1) + 1 : SubSeq(bytes, n + 1, l)[i] = bytes[n + 1 + i - 1]
        <3>1. PICK k : k = n + 1
            OBVIOUS
        <3>2. k \in Int /\ l \in Int /\ \A i \in k .. l : bytes[i] \in Byte
            BY <1>4, <1>6, <3>1
        <3>3. /\ SubSeq(bytes, k, l) \in Seq(Byte)
              /\ Len(SubSeq(bytes, k, l)) = IF k <= l THEN l - k + 1 ELSE 0
              /\ \A i \in 1 .. l - k + 1 : SubSeq(bytes, k, l)[i] = bytes[k + i - 1]
            BY <3>2, SubSeqProperties
        <3> QED
            BY <3>1, <3>3
    <2>2. l - (n + 1) + 1 = l - n /\ \A i \in 1 .. l - n : n + 1 + i - 1 = n + i
        BY <1>4
    <2> QED
        BY <1>2, <1>4, <2>1, <2>2
<1>8. e \in Seq(Byte) /\ Len(e) = n /\ \A i \in 1 .. n : e[i] = bytes[i]
    <2>1. /\ SubSeq(bytes, 1, n) \in Seq(Byte)
          /\ Len(SubSeq(bytes, 1, n)) = IF 1 <= n THEN n - 1 + 1 ELSE 0
          /\ \A i \in 1 .. n - 1 + 1 : SubSeq(bytes, 1, n)[i] = bytes[1 + i - 1]
        <3>1. \A i \in 1 .. n : bytes[i] \in Byte
            BY <1>4, <1>6
        <3> QED
            BY <1>4, <3>1, SubSeqProperties
    <2>2. n - 1 + 1 = n /\ \A i \in 1 .. n : 1 + i - 1 = i
        BY <1>4
    <2> QED
        BY <1>2, <1>4, <2>1, <2>2
<1>9. /\ c \in Seq(Byte) /\ Len(c) = m + n
      /\ \A i \in 1 .. m + n : c[i] = IF i <= m THEN g.done[i] ELSE e[i - m]
    <2>1. PICK p : p = g.done
        OBVIOUS
    <2>2. p \in Seq(Byte) /\ e \in Seq(Byte)
        BY <1>0, <1>8, <2>1
    <2>3. /\ p \o e \in Seq(Byte) /\ Len(p \o e) = Len(p) + Len(e)
          /\ \A i \in 1 .. Len(p) + Len(e) :
                (p \o e)[i] = IF i <= Len(p) THEN p[i] ELSE e[i - Len(p)]
        BY <2>2, ConcatProperties
    <2>4. Len(p) = m /\ c = p \o e
        BY <1>2, <1>3, <2>1
    <2> QED
        BY <1>8, <2>1, <2>3, <2>4
<1>10. \A i \in 1 .. m + n : c[i] = d[i]
    <2> SUFFICES ASSUME NEW i \in 1 .. m + n PROVE c[i] = d[i]
        OBVIOUS
    <2>1. CASE i <= m
        BY <1>0, <1>2, <1>4, <1>9, <2>1
    <2>2. CASE ~ (i <= m)
        <3>1. i - m \in 1 .. n /\ i - m \in 1 .. l /\ m + (i - m) = i
            BY <1>4, <2>2
        <3>2. c[i] = e[i - m] /\ e[i - m] = bytes[i - m] /\ bytes[i - m] = d[m + (i - m)]
            BY <1>6, <1>8, <1>9, <2>2, <3>1
        <3> QED
            BY <3>1, <3>2
    <2> QED
        BY <2>1, <2>2
<1>11. \A i \in 1 .. l - n : b[i] = d[(m + n) + i]
    <2> SUFFICES ASSUME NEW i \in 1 .. l - n PROVE b[i] = d[(m + n) + i]
        OBVIOUS
    <2>1. n + i \in 1 .. l /\ m + (n + i) = (m + n) + i
        BY <1>4
    <2> QED
        BY <1>6, <1>7, <2>1
<1>12. PICK z \in BOOLEAN : z = (n = 0)
    OBVIOUS
<1>13. file' = [g EXCEPT !.buf = b, !.done = c, !.end = z]
    BY <1>1, <1>2, <1>3, <1>12 DEF Deliver
<1>14. PICK f : f = file'
    OBVIOUS
<1>15. /\ f.buf = b /\ f.done = c /\ f.end = z
       /\ f.handle = g.handle /\ f.mode = g.mode /\ f.queue = g.queue
       /\ f.offset = g.offset /\ f.eof = g.eof /\ f.failed = g.failed
    BY <1>0, <1>13, <1>14 DEF FileFields
<1>16. z <=> bytes = <<>>
    BY <1>4, <1>5, <1>12
<1>17. m + l <= Len(d) /\ (z => m + n = Len(d))
    BY <1>0, <1>2, <1>4, <1>12, <1>16
<1>18. Begun(f, d)
    <2>1. f.done \in Seq(Byte) /\ f.buf \in Seq(Byte) /\ Len(f.done) = m + n /\ Len(f.buf) = l - n
        BY <1>7, <1>9, <1>15
    <2>2. Len(f.done) + Len(f.buf) <= Len(d)
        BY <1>4, <1>17, <2>1
    <2>3. \A i \in 1 .. Len(f.done) : f.done[i] = d[i]
        BY <1>10, <1>15, <2>1
    <2>4. \A i \in 1 .. Len(f.buf) : f.buf[i] = d[Len(f.done) + i]
        BY <1>11, <1>15, <2>1
    <2>5. f.end => Len(f.done) = Len(d)
        BY <1>15, <1>17, <2>1
    <2> QED
        BY <2>1, <2>2, <2>3, <2>4, <2>5 DEF Begun
<1>19. Len(f.done) + Len(f.buf) = Len(g.done) + Len(bytes)
    <2>1. Len(f.done) = m + n /\ Len(f.buf) = l - n
        BY <1>7, <1>9, <1>15
    <2>2. (m + n) + (l - n) = m + l
        BY <1>4
    <2> QED
        BY <1>2, <2>1, <2>2
<1>20. f.end <=> bytes = <<>>
    BY <1>15, <1>16
<1> QED
    BY <1>14, <1>15, <1>18, <1>19, <1>20 DEF Delivered

\* When the call returns, the next bytes are those of the queue.
LEMMA GoesOn ==
    ASSUME SftpInv, NEW g, g = file, g # NoFile, NEW d, Lasting(g, d),
           NEW o, Queued(g.queue, o, g.handle, d), o[Len(g.queue)] = g.offset, ~ g.eof,
           NEW f, f.handle = g.handle, f.queue = g.queue, f.offset = g.offset, f.eof = g.eof,
           Begun(f, d), Len(f.done) + Len(f.buf) = MinOf(o[0], Len(d)), call'.op # "read"
    PROVE  ReadRight(f, d)'
<1>1. Len(g.queue) \in Nat /\ Queued(g.queue, o, g.handle, d)'
    BY QueueIssued, QueueLasts
<1>2. o[0] \in Nat
    BY <1>1, SMTT(60) DEF Queued
<1>3. Current(f, o[0], o[0], d)'
    BY DEF Current
<1>4. Ahead(f, d)'
    <2>1. Queued(f.queue, o, f.handle, d)' /\ o[Len(f.queue)] = f.offset
        BY <1>1
    <2>2. \E c : c \in Nat /\ Current(f, c, o[0], d)' /\ Len(f.done) + Len(f.buf) = MinOf(c, Len(d))
        BY <1>2, <1>3
    <2> QED
        BY <2>1, <2>2 DEF Ahead
<1>5. Begun(f, d)'
    BY DEF Begun
<1> QED
    BY <1>4, <1>5 DEF ReadRight

\* What a call that reads has been answered, and what its buffer holds.
LEMMA ReadFacts ==
    ASSUME SftpInv, FewRequests, HandleInv, FileInv, ReadInv, Finished, call.op = "read",
           NEW g, g = file, NEW d, Holds(g.handle, d)
    PROVE  /\ Reading(g, d) /\ Begun(g, d) /\ call.more \in Nat \ {0} /\ DOMAIN g = FileFields
           /\ ~ g.eof /\ ~ g.failed /\ ~ g.end
           /\ \E o, c : /\ Queued(g.queue, o, g.handle, d) /\ o[Len(g.queue)] = g.offset
                        /\ c \in Nat /\ Len(g.done) + Len(g.buf) = MinOf(c, Len(d))
                        /\ \/ got = <<>> /\ g.buf # <<>> /\ c = o[0]
                           \/ /\ got # <<>> /\ g.buf = <<>> /\ c < o[0] /\ o[0] \in Nat
                              /\ Answers(Answer(1), c, o[0], d)
<1>1. g # NoFile /\ DOMAIN g = FileFields /\ g.mode = "ReadOnly"
    BY FileNow DEF FileInv, Calm
<1>2. Reading(g, d)
    BY <1>1 DEF Reading
<1>3. ReadRight(g, d)
    BY <1>2 DEF ReadInv
<1>4. /\ Begun(g, d) /\ call.more \in Nat \ {0} /\ ~ g.failed /\ ~ g.end /\ Ahead(g, d)
    BY <1>3 DEF ReadRight
<1>5. PICK o, c : /\ Queued(g.queue, o, g.handle, d) /\ o[Len(g.queue)] = g.offset
                  /\ c \in Nat /\ Current(g, c, o[0], d)
                  /\ Len(g.done) + Len(g.buf) = MinOf(c, Len(d))
    BY <1>4 DEF Ahead
<1>6. CASE got = <<>>
    <2>1. ~ (\E s : OneRequest(s))
        <3>1. ASSUME NEW t, wait = <<t>> PROVE FALSE
            BY <3>1, SmallSeqs DEF Finished
        <3>2. ASSUME NEW t, got = <<t>> PROVE FALSE
            BY <1>6, <3>2, SmallSeqs
        <3> QED
            BY <3>1, <3>2 DEF OneRequest
    <2>2. g.buf # <<>> /\ c = o[0]
        BY <1>5, <2>1 DEF Current
    <2> QED
        BY <1>1, <1>2, <1>4, <1>5, <1>6, <2>2 DEF Ahead
<1>7. CASE got # <<>>
    <2>1. PICK s \in 1 .. serial : /\ g.buf = <<>> /\ OneRequest(s)
                                   /\ ReadAt(s, g.handle, c, o[0], d)
        BY <1>5, <1>7 DEF Current
    <2>2. Answer(1) \in Taken /\ Answer(1).ser = s
        BY <1>7, <2>1, OnlyAnswer DEF Replied
    <2>3. Answers(Answer(1), c, o[0], d) /\ c < o[0] /\ o[0] \in Nat
        BY <2>1, <2>2 DEF ReadAt
    <2> QED
        BY <1>1, <1>2, <1>4, <1>5, <1>7, <2>1, <2>3 DEF Ahead
<1> QED
    BY <1>6, <1>7

LEMMA ReadEndsRead ==
    ASSUME SftpInv, FewRequests, HandleInv, FileInv, ReadInv, Handled, ReadBuffered \/ ReadReply
    PROVE  ReadInv'
<1>1. /\ Finished /\ call.op = "read" /\ UNCHANGED <<data, handles>> /\ call'.op = "none"
    <2>1. \E status, val : Leave(status, val, <<>>)
        BY DEF ReadBuffered, ReadReply, Deliver
    <2>2. UNCHANGED <<data, handles>> /\ call' = Idle
        BY <2>1, EndedNews
    <2> QED
        BY <2>2, OpsDiffer DEF ReadBuffered, ReadReply, Replied
<1>2. DataTypes'
    BY <1>1 DEF ReadInv, DataTypes
<1>3. PICK g : g = file
    OBVIOUS
<1>4. /\ g # NoFile /\ DOMAIN g = FileFields
    BY <1>1, <1>3, FileNow
\* The handle stays what it was.
<1>5. file'.handle = g.handle
    <2>1. ASSUME NEW f, NEW bytes, Deliver(f, bytes), DOMAIN f = FileFields
          PROVE  file'.handle = f.handle
        <3>1. PICK b, e, z : file' = [f EXCEPT !.buf = b, !.done = e, !.end = z]
            BY <2>1 DEF Deliver
        <3> QED
            BY <2>1, <3>1 DEF FileFields
    <2>2. CASE \E bytes : Deliver(g, bytes)
        BY <1>4, <2>1, <2>2
    <2>3. CASE Deliver([g EXCEPT !.queue = <<>>, !.eof = TRUE], <<>>)
        <3>1. PICK f : f = [g EXCEPT !.queue = <<>>, !.eof = TRUE]
            OBVIOUS
        <3>2. DOMAIN f = FileFields /\ f.handle = g.handle
            BY <1>4, <3>1 DEF FileFields
        <3>3. Deliver(f, <<>>)
            BY <2>3, <3>1
        <3> QED
            BY <2>1, <3>2, <3>3
    <2>4. CASE file' = [g EXCEPT !.failed = TRUE]
        BY <1>4, <2>4 DEF FileFields
    <2> QED
        BY <1>3, <2>2, <2>3, <2>4 DEF ReadBuffered, ReadReply
<1>6. ASSUME NEW d, Holds(g.handle, d)
      PROVE  \E f : f = file' /\ ReadRight(f, d)'
    <2>1. /\ Reading(g, d) /\ Begun(g, d) /\ call.more \in Nat \ {0}
          /\ ~ g.eof /\ ~ g.failed /\ ~ g.end
        BY <1>1, <1>3, <1>6, ReadFacts
    <2>2. PICK o, c :
             /\ Queued(g.queue, o, g.handle, d) /\ o[Len(g.queue)] = g.offset
             /\ c \in Nat /\ Len(g.done) + Len(g.buf) = MinOf(c, Len(d))
             /\ \/ got = <<>> /\ g.buf # <<>> /\ c = o[0]
                \/ /\ got # <<>> /\ g.buf = <<>> /\ c < o[0] /\ o[0] \in Nat
                   /\ Answers(Answer(1), c, o[0], d)
        BY <1>1, <1>3, <1>6, ReadFacts
    <2>3. d \in Seq(Byte) /\ Len(d) \in Nat /\ Lasting(g, d)
        BY <2>1, NowRead
    <2>4. /\ g.done \in Seq(Byte) /\ g.buf \in Seq(Byte) /\ Len(g.done) \in Nat
          /\ Len(g.buf) \in Nat /\ (g.buf = <<>> => Len(g.buf) = 0)
        BY <2>1, LenProperties, EmptySeq DEF Begun
    <2>5. /\ Len(g.done) + Len(g.buf) <= Len(d)
          /\ \A i \in 1 .. Len(g.done) : g.done[i] = d[i]
          /\ \A i \in 1 .. Len(g.buf) : g.buf[i] = d[Len(g.done) + i]
        BY <2>1 DEF Begun
    <2>6. CASE got = <<>>
        <3>1. g.buf # <<>> /\ c = o[0]
            BY <2>2, <2>6
        <3>2. Deliver(g, g.buf)
            BY <1>3, <2>6 DEF ReadBuffered, ReadReply, Replied
        <3>3. Deliverable(g, g.buf, d)
            BY <1>4, <2>1, <2>3, <2>4, <2>5, <3>1 DEF Deliverable
        <3>4. PICK f : f = file' /\ Delivered(f, g, g.buf, d)
            BY <3>2, <3>3, DeliverRight, Zenon
        <3>5. /\ Begun(f, d) /\ Len(f.done) + Len(f.buf) = MinOf(o[0], Len(d))
              /\ f.handle = g.handle /\ f.queue = g.queue
              /\ f.offset = g.offset /\ f.eof = g.eof
            BY <2>2, <3>1, <3>4 DEF Delivered
        <3>6. ReadRight(f, d)'
            BY <1>1, <1>3, <1>4, <2>1, <2>2, <2>3, <3>5, GoesOn
        <3> QED
            BY <3>4, <3>6
    <2>7. CASE got # <<>>
        <3>0. PICK r, e : r = Answer(1) /\ e = o[0]
            OBVIOUS
        <3>1. /\ g.buf = <<>> /\ c < e /\ e \in Nat /\ c \in Nat
              /\ Answers(r, c, e, d) /\ Len(g.done) = MinOf(c, Len(d))
            <4>1. g.buf = <<>> /\ c < e /\ e \in Nat /\ c \in Nat /\ Answers(r, c, e, d)
                BY <2>2, <2>7, <3>0
            <4>2. PICK m : m = Len(g.done)
                OBVIOUS
            <4>3. m + 0 = MinOf(c, Len(d)) /\ m \in Nat
                BY <2>2, <2>4, <4>1, <4>2
            <4>4. m = MinOf(c, Len(d))
                BY <4>3
            <4> QED
                BY <4>1, <4>2, <4>4
        <3>2. ReadReply
            BY <2>7 DEF ReadBuffered
        <3>3. CASE r.type = "DATA" /\ Deliver(g, r.val)
            <4>1. PICK v : v = r.val
                OBVIOUS
            <4>2. /\ v \in Seq(Byte) /\ c < Len(d) /\ c + Len(v) = MinOf(e, Len(d))
                  /\ \A i \in 1 .. Len(v) : v[i] = d[c + i]
                BY <3>1, <3>3, <4>1 DEF Answers
            <4>3. Len(g.done) = c
                BY <2>3, <3>1, <4>2 DEF MinOf
            <4>4. Len(v) \in Nat /\ Len(v) # 0 /\ c + Len(v) <= Len(d)
                <5>1. Len(v) \in Nat
                    BY <4>2, LenProperties
                <5> QED
                    BY <2>3, <3>1, <4>2, <5>1 DEF MinOf
            <4>5. v # <<>>
                BY <4>4, EmptySeq
            <4>6. Deliverable(g, v, d)
                <5>1. /\ Len(g.done) + Len(v) <= Len(d)
                      /\ \A i \in 1 .. Len(v) : v[i] = d[Len(g.done) + i]
                    BY <4>2, <4>3, <4>4
                <5> QED
                    BY <1>4, <2>1, <2>3, <2>4, <2>5, <4>2, <4>5, <5>1 DEF Deliverable
            <4>7. PICK f : f = file' /\ Delivered(f, g, v, d)
                <5>1. Deliver(g, v)
                    BY <3>3, <4>1
                <5> QED
                    BY <4>6, <5>1, DeliverRight, Zenon
            <4>8. /\ Begun(f, d) /\ Len(f.done) + Len(f.buf) = MinOf(o[0], Len(d))
                  /\ f.handle = g.handle /\ f.queue = g.queue
                  /\ f.offset = g.offset /\ f.eof = g.eof
                BY <3>0, <4>2, <4>3, <4>7 DEF Delivered
            <4>9. ReadRight(f, d)'
                BY <1>1, <1>3, <1>4, <2>1, <2>2, <2>3, <4>8, GoesOn
            <4> QED
                BY <4>7, <4>9
        <3>4. CASE Says(r, "EOF") /\ Deliver([g EXCEPT !.queue = <<>>, !.eof = TRUE], <<>>)
            <4>1. c >= Len(d)
                BY <3>1, <3>4 DEF Says, Answers
            <4>2. Len(g.done) = Len(d)
                BY <2>3, <3>1, <4>1 DEF MinOf
            <4>3. PICK h : h = [g EXCEPT !.queue = <<>>, !.eof = TRUE]
                OBVIOUS
            <4>4. DOMAIN h = FileFields /\ h.done = g.done
                BY <1>4, <4>3 DEF FileFields
            <4>5. Deliver(h, <<>>) /\ <<>> \in Seq(Byte) /\ Len(<<>>) = 0
                BY <3>4, <4>3, EmptySeq
            <4>6. Deliverable(h, <<>>, d)
                <5>1. Len(h.done) + 0 <= Len(d) /\ Len(h.done) = Len(d) /\ h.done \in Seq(Byte)
                    BY <2>3, <2>4, <4>2, <4>4
                <5>2. \A i \in 1 .. 0 : <<>>[i] = d[Len(h.done) + i]
                    OBVIOUS
                <5> QED
                    BY <2>1, <2>3, <2>5, <4>4, <4>5, <5>1, <5>2 DEF Deliverable
            <4>7. PICK f : f = file' /\ Delivered(f, h, <<>>, d)
                BY <4>5, <4>6, DeliverRight, Zenon
            <4>8. Begun(f, d)' /\ f.end
                BY <4>7 DEF Delivered, Begun
            <4> QED
                BY <1>1, <4>7, <4>8 DEF ReadRight
        <3>5. CASE file' = [g EXCEPT !.failed = TRUE]
            <4>1. PICK f : f = file'
                OBVIOUS
            <4>2. f.failed = TRUE /\ f.done = g.done /\ f.buf = g.buf /\ f.end = g.end
                BY <1>4, <3>5, <4>1 DEF FileFields
            <4>3. Begun(f, d)'
                BY <2>1, <4>2 DEF Begun
            <4> QED
                BY <1>1, <4>1, <4>2, <4>3 DEF ReadRight
        <3> QED
            BY <1>3, <3>0, <3>2, <3>3, <3>4, <3>5 DEF ReadReply
    <2> QED
        BY <2>6, <2>7
<1>7. ASSUME NEW f, NEW d, f = file', Reading(f, d)'
      PROVE  ReadRight(f, d)'
    <2>1. Holds(g.handle, d)
        BY <1>1, <1>5, <1>7 DEF Reading, Holds
    <2>2. PICK x : x = file' /\ ReadRight(x, d)'
        BY <1>6, <2>1
    <2> QED
        BY <1>7, <2>2
<1> QED
    BY <1>2, <1>7 DEF ReadInv

----------------------------------------------------------------------------
\* Where the i-th of the read-ahead requests of n bytes begins.
Steps(m, n) ==
    /\ m \in [Nat -> Nat] /\ m[0] = 0
    /\ \A i \in Nat : m[i] = i * n /\ m[i + 1] = m[i] + n

LEMMA Times ==
    ASSUME NEW n \in Nat
    PROVE  \E m : Steps(m, n)
<1>1. \A i \in Nat : i * n \in Nat /\ (i + 1) * n = i * n + n
    OBVIOUS
<1> DEFINE m == [i \in Nat |-> i * n]
<1>2. m \in [Nat -> Nat] /\ m[0] = 0 /\ \A i \in Nat : m[i] = i * n
    BY <1>1
<1>3. \A i \in Nat : i + 1 \in Nat
    OBVIOUS
<1> HIDE DEF m
<1>4. \A i \in Nat : m[i + 1] = m[i] + n
    BY <1>1, <1>2, <1>3
<1> QED
    BY <1>2, <1>4 DEF Steps

LEMMA Difference ==
    ASSUME NEW a \in Nat, NEW n \in Nat \ {0}
    PROVE  (a + n) - a = n /\ a + n \in Nat /\ a < a + n
OBVIOUS

\* Places in the first and in the second of two sequences of l and k elements.
Places(l, k) ==
    /\ \A i \in 0 .. k : i \in Nat /\ l + i \in 0 .. l + k /\ (l + i) - l = i
    /\ \A i \in 0 .. k : i # 0 => ~ (l + i <= l)
    /\ l + 0 = l /\ 0 \in 0 .. l /\ l \in 0 .. l
    /\ \A i \in 0 .. l : i \in 0 .. l + k
    /\ \A i \in 0 .. l + k : i <= l \/ (i - l \in 0 .. k /\ l + (i - l) = i)
    /\ \A i \in 0 .. l + k : i <= l => i \in 0 .. l
    /\ \A i \in 1 .. l + k : i <= l => i \in 1 .. l /\ i - 1 \in 0 .. l /\ i \in 0 .. l
    /\ \A i \in 1 .. l + k : ~ (i <= l) =>
          /\ i - l \in 1 .. k /\ i - l \in 0 .. k /\ (i - l) - 1 \in 0 .. k
          /\ (i - l) - 1 \in Nat /\ l + (i - l) = i /\ l + ((i - l) - 1) = i - 1
          /\ ((i - l) - 1) + 1 = i - l

LEMMA PlacesAfter ==
    ASSUME NEW l \in Nat, NEW k \in Nat
    PROVE  Places(l, k)
BY DEF Places

LEMMA SumMoved ==
    ASSUME NEW off \in Nat, NEW x \in Nat, NEW n, NEW y \in Nat, y = x + n, n \in Nat
    PROVE  off + y = (off + x) + n
OBVIOUS

\* The requests that a call adds to the queue ask for the bytes that follow.
LEMMA FreshReads ==
    ASSUME SftpInv, HandleInv, Handled, NEW n \in Nat \ {0}, NEW k \in Nat, NEW h, NEW off \in Nat,
           h = file.handle, off = file.offset,
           send' = [j \in 1..2*k |-> IF j % 2 = 1 THEN ReadAhead((j + 1) \div 2, n) ELSE Flush],
           NEW i \in 1 .. k, NEW s, s = serial + i, NEW a \in Nat, a = off + (i - 1) * n,
           NEW d
    PROVE  ReadAt(s, h, a, a + n, d)'
<1>1. serial \in Nat
    BY DEF SftpInv, TypeOK
<1>2. \A j : ReadAhead(j, n).op = "READ" /\ ReadAhead(j, n).ser = serial + j
             /\ ReadAhead(j, n).arg = <<h, off + (j - 1) * n, n>>
    BY RequestFields DEF ReadAhead
<1>3. Flush.op = "flush"
    BY DEF Flush
<1>4. ASSUME NEW x \in News', x.ser = s
      PROVE  x.op = "READ" /\ x.arg = <<h, a, n>>
    <2>1. PICK j \in 1 .. 2 * k : x = send'[j] /\ send'[j].op # "flush"
        BY <1>4 DEF News, Asking, Posed
    <2>2. j % 2 = 1 /\ x = ReadAhead((j + 1) \div 2, n)
        BY <1>3, <2>1
    <2>3. PICK l : l = (j + 1) \div 2 /\ l \in Int
        OBVIOUS
    <2>4. x.op = "READ" /\ x.ser = serial + l /\ x.arg = <<h, off + (l - 1) * n, n>>
        BY <1>2, <2>2, <2>3
    <2>5. l = i
        BY <1>1, <1>4, <2>3, <2>4
    <2> QED
        BY <2>4, <2>5
<1>5. /\ Posted' \subseteq Posted \cup News' /\ Received' \subseteq Received
      /\ Taken' \subseteq Taken
    BY HandledPosted
<1>6. \A x \in Posted \cup Received \cup Taken : x.ser # s
    <2>1. \A x \in Posted \cup Received \cup Taken : x.ser \in 1 .. serial
        BY PostedApart DEF HandleInv
    <2> QED
        BY <1>1, <2>1
<1>7. \A x \in Posted' : x.ser = s => x.op = "READ" /\ x.arg = <<h, a, n>>
    BY <1>4, <1>5, <1>6
<1>8. (a + n) - a = n /\ a + n \in Nat /\ a < a + n
    BY Difference
<1>9. \A x \in Received' \cup Taken' : x.ser = s => Answers(x, a, a + n, d)
    BY <1>5, <1>6
<1> QED
    BY <1>7, <1>8, <1>9 DEF ReadAt

\* A queue that has got longer.
Extends(q, k, t, h, d, o, off, n, m) ==
    /\ q \in Seq(Tickets) /\ k \in Nat /\ t \in [1 .. k -> Tickets]
    /\ off \in Nat /\ n \in Nat /\ Steps(m, n)
    /\ Queued(q, o, h, d) /\ o[Len(q)] = off
    /\ \A i \in 1 .. k : ReadAt(t[i].ser, h, off + m[i - 1], (off + m[i - 1]) + n, d)

LEMMA QueueExtends ==
    ASSUME NEW q, NEW k, NEW t, NEW h, NEW d, NEW o, NEW off, NEW n, NEW m,
           Extends(q, k, t, h, d, o, off, n, m)'
    PROVE  \E p : Queued(q \o t, p, h, d)' /\ p[Len(q) + k] = off + m[k] /\ p[0] = o[0]
<1> SUFFICES ASSUME q \in Seq(Tickets), k \in Nat, t \in [1 .. k -> Tickets],
                    off \in Nat, n \in Nat, Steps(m, n),
                    Queued(q, o, h, d)', o[Len(q)] = off,
                    \A i \in 1 .. k :
                       ReadAt(t[i].ser, h, off + m[i - 1], (off + m[i - 1]) + n, d)'
             PROVE  \E p : /\ Queued(q \o t, p, h, d)' /\ p[Len(q) + k] = off + m[k]
                           /\ p[0] = o[0]
    BY Zenon DEF Extends, Steps, Tickets
<1>1. t \in Seq(Tickets) /\ Len(t) = k
    OBVIOUS
<1>2. PICK l : l = Len(q) /\ l \in Nat
    BY LenProperties
<1>3. PICK w : w = q \o t
    OBVIOUS
<1>4. /\ Len(w) = l + k
      /\ \A i \in 1 .. l + k : w[i] = IF i <= l THEN q[i] ELSE t[i - l]
    <2>1. /\ Len(q \o t) = Len(q) + Len(t)
          /\ \A i \in 1 .. Len(q) + Len(t) :
                (q \o t)[i] = IF i <= Len(q) THEN q[i] ELSE t[i - Len(q)]
        BY <1>1, ConcatProperties
    <2> QED
        BY <1>1, <1>2, <1>3, <2>1
<1>5. PICK p : p = [i \in 0 .. l + k |-> IF i <= l THEN o[i] ELSE off + m[i - l]]
    OBVIOUS
<1>6. o \in [0 .. l -> Nat] /\ o[l] = off
      /\ \A i \in 1 .. l : ReadAt(q[i].ser, h, o[i - 1], o[i], d)'
    BY <1>2 DEF Queued
<1>0. Places(l, k)
    BY <1>2, PlacesAfter
<1>7. \A i \in 0 .. k : m[i] \in Nat /\ off + m[i] \in Nat
    <2>1. \A x \in Nat : off + x \in Nat
        OBVIOUS
    <2>2. \A i \in 0 .. k : m[i] \in Nat
        BY <1>0 DEF Places, Steps
    <2> QED
        BY <2>1, <2>2
<1>8. \A i \in 0 .. l : p[i] = o[i]
    BY <1>0, <1>2, <1>5 DEF Places
<1>9. \A i \in 0 .. k : p[l + i] = off + m[i]
    <2> SUFFICES ASSUME NEW i \in 0 .. k PROVE p[l + i] = off + m[i]
        OBVIOUS
    <2>1. CASE i = 0
        <3>1. p[l + 0] = o[l]
            BY <1>0, <1>8, Zenon DEF Places
        <3>2. off + 0 = off
            OBVIOUS
        <3> QED
            BY <1>6, <2>1, <3>1, <3>2, Zenon DEF Steps
    <2>2. CASE i # 0
        <3>1. l + i \in 0 .. l + k /\ ~ (l + i <= l) /\ (l + i) - l = i
            BY <1>0, <2>2 DEF Places
        <3> QED
            BY <1>5, <3>1
    <2> QED
        BY <2>1, <2>2
<1>10. p \in [0 .. l + k -> Nat]
    <2>1. \A i \in 0 .. l + k : p[i] \in Nat
        <3> SUFFICES ASSUME NEW i \in 0 .. l + k PROVE p[i] \in Nat
            OBVIOUS
        <3>1. CASE i <= l
            <4>1. i \in 0 .. l
                BY <1>0, <3>1 DEF Places
            <4> QED
                BY <1>6, <1>8, <4>1
        <3>2. CASE ~ (i <= l)
            <4>1. i - l \in 0 .. k /\ l + (i - l) = i
                BY <1>0, <3>2 DEF Places
            <4> QED
                BY <1>7, <1>9, <4>1
        <3> QED
            BY <3>1, <3>2
    <2> QED
        BY <1>5, <2>1
<1>11. ASSUME NEW i \in 1 .. l + k PROVE ReadAt(w[i].ser, h, p[i - 1], p[i], d)'
    <2>1. CASE i <= l
        <3>1. i \in 1 .. l /\ i - 1 \in 0 .. l /\ i \in 0 .. l
            BY <1>0, <2>1 DEF Places
        <3>2. w[i] = q[i] /\ p[i - 1] = o[i - 1] /\ p[i] = o[i]
            BY <1>4, <1>8, <2>1, <3>1
        <3> QED
            BY <1>6, <3>1, <3>2
    <2>2. CASE ~ (i <= l)
        <3>1. PICK j : j = i - l
            OBVIOUS
        <3>2. j \in 1 .. k /\ j \in 0 .. k /\ j - 1 \in 0 .. k /\ j - 1 \in Nat
              /\ l + j = i /\ l + (j - 1) = i - 1 /\ (j - 1) + 1 = j
            BY <1>0, <2>2, <3>1 DEF Places
        <3>3. w[i] = t[j] /\ p[i - 1] = off + m[j - 1] /\ p[i] = off + m[j]
            BY <1>4, <1>9, <2>2, <3>1, <3>2
        <3>4. m[j] = m[j - 1] + n
            BY <3>2, Zenon DEF Steps
        <3>5. off + m[j] = (off + m[j - 1]) + n
            <4>1. m[j] \in Nat /\ m[j - 1] \in Nat
                BY <1>7, <3>2
            <4>2. PICK x, y : x = m[j - 1] /\ y = m[j]
                OBVIOUS
            <4>3. x \in Nat /\ y \in Nat /\ y = x + n
                BY <3>4, <4>1, <4>2, Zenon
            <4>4. off + y = (off + x) + n
                BY <4>3, SumMoved
            <4> QED
                BY <4>2, <4>4, Zenon
        <3> QED
            BY <3>2, <3>3, <3>5
    <2> QED
        BY <2>1, <2>2
<1>12. Queued(w, p, h, d)'
    BY <1>4, <1>10, <1>11 DEF Queued
<1>13. p[Len(q) + k] = off + m[k] /\ p[0] = o[0]
    BY <1>2, <1>8, <1>9
<1> QED
    BY <1>3, <1>12, <1>13

\* A queue whose first request is awaited.
LEMMA QueuePops ==
    ASSUME NEW q \in Seq(Tickets), q # <<>>, NEW h, NEW d, NEW o, Queued(q, o, h, d)'
    PROVE  \E p : /\ Queued(Tail(q), p, h, d)' /\ p[Len(Tail(q))] = o[Len(q)]
                  /\ ReadAt(Head(q).ser, h, o[0], p[0], d)'
<1>1. /\ Head(q) = q[1] /\ Len(Tail(q)) = Len(q) - 1 /\ Len(q) \in Nat \ {0}
      /\ \A i \in 1 .. Len(q) - 1 : Tail(q)[i] = q[i + 1]
    <2>1. /\ Len(Tail(q)) = Len(q) - 1 /\ \A i \in 1 .. Len(Tail(q)) : Tail(q)[i] = q[i + 1]
        BY HeadTailProperties
    <2>2. Len(q) \in Nat /\ Len(q) # 0 /\ Head(q) = q[1]
        BY LenProperties, EmptySeq
    <2> QED
        BY <2>1, <2>2
<1>2. PICK l : l = Len(q) /\ l \in Nat \ {0}
    BY <1>1
<1>3. o \in [0 .. l -> Nat] /\ \A i \in 1 .. l : ReadAt(q[i].ser, h, o[i - 1], o[i], d)'
    BY <1>2 DEF Queued
<1>4. PICK p : p = [i \in 0 .. l - 1 |-> o[i + 1]]
    OBVIOUS
<1>5. p \in [0 .. l - 1 -> Nat] /\ \A i \in 0 .. l - 1 : p[i] = o[i + 1]
    BY <1>2, <1>3, <1>4
<1>6. ASSUME NEW i \in 1 .. l - 1 PROVE ReadAt(Tail(q)[i].ser, h, p[i - 1], p[i], d)'
    <2>1. i + 1 \in 1 .. l /\ (i + 1) - 1 = i /\ i - 1 \in 0 .. l - 1 /\ (i - 1) + 1 = i
          /\ i \in 0 .. l - 1
        BY <1>2
    <2>2. p[i - 1] = o[i] /\ p[i] = o[i + 1] /\ Tail(q)[i] = q[i + 1]
        BY <1>1, <1>2, <1>5, <2>1
    <2>3. ReadAt(q[i + 1].ser, h, o[i], o[i + 1], d)'
        BY <1>3, <2>1
    <2> QED
        BY <2>2, <2>3
<1>7. Queued(Tail(q), p, h, d)'
    BY <1>1, <1>2, <1>5, <1>6 DEF Queued
<1>8. p[l - 1] = o[l] /\ p[0] = o[1]
    <2>1. l - 1 \in 0 .. l - 1 /\ 0 \in 0 .. l - 1 /\ (l - 1) + 1 = l /\ 0 + 1 = 1
        BY <1>2
    <2> QED
        BY <1>5, <2>1
<1>9. ReadAt(q[1].ser, h, o[0], o[1], d)'
    <2>1. 1 \in 1 .. l /\ 1 - 1 = 0
        BY <1>2
    <2> QED
        BY <1>3, <2>1
<1> QED
    BY <1>1, <1>2, <1>7, <1>8, <1>9

\* What a call that reads asks for.  q is the queue with the new requests.
Asked(n, k, t, q) ==
    /\ k \in Nat /\ t \in [1 .. k -> Tickets] /\ q = file.queue \o t /\ q # <<>>
    /\ \A i \in 1 .. k : t[i].ser = serial + i
    /\ serial' = serial + k /\ file'.offset = file.offset + k * n
    /\ send' = [j \in 1..2*k |-> IF j % 2 = 1 THEN ReadAhead((j + 1) \div 2, n) ELSE Flush]
    /\ \/ file.buf = <<>> /\ wait' = <<Head(q)>> /\ file'.queue = Tail(q)
       \/ file.buf # <<>> /\ wait' = <<>> /\ file'.queue = q

LEMMA Refill ==
    ASSUME NEW l \in Nat, NEW r \in Nat \ {0}
    PROVE  MaxOf(0, r - l) \in Nat /\ l + MaxOf(0, r - l) # 0
BY DEF MaxOf

LEMMA ReadAsks ==
    ASSUME SftpInv, NEW n \in Space, ReadCall(n), ~ file.eof
    PROVE  /\ \E k, t, q : Asked(n, k, t, q)
           /\ file' # NoFile /\ DOMAIN file' = FileFields
           /\ \A x \in FileFields \ {"queue", "offset"} : file'[x] = file[x]
<1> DEFINE k == MaxOf(0, ReadQueue - Len(file.queue))
           t == [i \in 1..k |-> Ticket(ReadAhead(i, n))]
           queue == file.queue \o t
           due == file.buf = <<>> /\ queue # <<>>
<1>0. file # NoFile /\ serial \in Nat
    BY DEF ReadCall, Usable, SftpInv, TypeOK
<1>1. file.queue \in Seq(Tickets) /\ Len(file.queue) \in Nat /\ DOMAIN file = FileFields
    BY <1>0, QueueIssued
<1>2. k \in Nat /\ Len(file.queue) + k # 0
    <2>1. PICK l : l = Len(file.queue) /\ l \in Nat
        BY <1>1
    <2>2. ReadQueue \in Nat \ {0}
        BY ClientAssumption
    <2>3. MaxOf(0, ReadQueue - l) \in Nat /\ l + MaxOf(0, ReadQueue - l) # 0
        BY <2>1, <2>2, Refill
    <2> QED
        BY <2>1, <2>3
<1>3. /\ Draw(k)
      /\ send' = [j \in 1..2*k |-> IF j % 2 = 1 THEN ReadAhead((j + 1) \div 2, n)
                                               ELSE Flush]
      /\ wait' = IF due THEN <<Head(queue)>> ELSE <<>>
      /\ file' = [file EXCEPT !.queue = IF due THEN Tail(queue) ELSE queue,
                              !.offset = @ + k * n]
    BY Zenon DEF ReadCall
<1> HIDE DEF k
<1>4. \A i \in 1 .. k : Ticket(ReadAhead(i, n)) \in Tickets
                        /\ Ticket(ReadAhead(i, n)).ser = serial + i
    <2>1. ASSUME NEW i \in 1 .. k
          PROVE  Ticket(ReadAhead(i, n)) \in Tickets
                 /\ Ticket(ReadAhead(i, n)).ser = serial + i
        <3>1. NewId(i) \in Id /\ serial + i \in Nat
            BY <1>0, NewIdType DEF SftpInv, TypeOK
        <3> QED
            BY <3>1, RequestFields DEF Tickets, ReadAhead
    <2> QED
        BY <2>1
<1>5. PICK u : u = t
    OBVIOUS
<1>6. u \in [1 .. k -> Tickets] /\ \A i \in 1 .. k : u[i].ser = serial + i
    BY <1>4, <1>5
<1> HIDE DEF t
<1>7. PICK w : w = queue
    OBVIOUS
<1>8. w = file.queue \o u /\ w # <<>>
    <2>1. u \in Seq(Tickets) /\ Len(u) = k
        BY <1>2, <1>6
    <2>2. Len(file.queue \o u) = Len(file.queue) + Len(u)
        BY <1>1, <2>1, ConcatProperties
    <2>3. Len(file.queue \o u) # 0
        BY <1>2, <2>1, <2>2
    <2> QED
        BY <1>5, <1>7, <2>3, EmptySeq
<1>9. PICK d \in BOOLEAN : d = (file.buf = <<>>)
    OBVIOUS
<1>10. PICK q, o : /\ q = (IF d THEN Tail(w) ELSE w) /\ o = file.offset + k * n
    OBVIOUS
<1>11. wait' = (IF d THEN <<Head(w)>> ELSE <<>>) /\ file' = [file EXCEPT !.queue = q, !.offset = o]
    BY <1>3, <1>7, <1>8, <1>9, <1>10
<1> HIDE DEF queue, due
<1>12. /\ DOMAIN file' = FileFields /\ file'.queue = q /\ file'.offset = o
       /\ \A x \in FileFields \ {"queue", "offset"} : file'[x] = file[x]
    BY <1>1, <1>11 DEF FileFields
<1>13. file' # NoFile
    <2>1. DOMAIN NoFile = {"handle"}
        BY DEF NoFile
    <2> QED
        BY <2>1, <1>12 DEF FileFields
<1>14. serial' = serial + k
    BY <1>3 DEF Draw
<1>15. \/ file.buf = <<>> /\ wait' = <<Head(w)>> /\ file'.queue = Tail(w)
       \/ file.buf # <<>> /\ wait' = <<>> /\ file'.queue = w
    BY <1>9, <1>10, <1>11, <1>12
<1>16. Asked(n, k, u, w)
    BY <1>2, <1>3, <1>6, <1>8, <1>10, <1>12, <1>14, <1>15 DEF Asked
<1> QED
    BY <1>12, <1>13, <1>16

LEMMA AskedIssued ==
    ASSUME SftpInv, file # NoFile, NEW n, NEW k, NEW t, NEW q, Asked(n, k, t, q)
    PROVE  Head(q).ser \in 1 .. serial'
<1>1. /\ k \in Nat /\ t \in [1 .. k -> Tickets] /\ q = file.queue \o t /\ q # <<>>
      /\ serial' = serial + k /\ \A i \in 1 .. k : t[i].ser = serial + i
    BY DEF Asked
<1>2. PICK old : old = file.queue
    OBVIOUS
<1>3. /\ old \in Seq(Tickets) /\ Len(old) \in Nat /\ serial \in Nat
      /\ \A i \in 1 .. Len(old) : old[i].ser \in 1 .. serial
    BY <1>2, QueueIssued DEF SftpInv, TypeOK
<1>4. t \in Seq(Tickets) /\ Len(t) = k
    BY <1>1
<1>5. /\ q \in Seq(Tickets) /\ Len(q) = Len(old) + k
      /\ \A i \in 1 .. Len(old) + k : q[i] = IF i <= Len(old) THEN old[i] ELSE t[i - Len(old)]
    BY <1>1, <1>2, <1>3, <1>4, ConcatProperties
<1>6. Head(q) = q[1] /\ Len(q) # 0 /\ Len(q) \in Nat
    BY <1>1, <1>5, EmptySeq, LenProperties
<1>7. CASE 1 <= Len(old)
    <2>1. q[1] = old[1]
        BY <1>3, <1>5, <1>6, <1>7
    <2>2. old[1].ser \in 1 .. serial
        BY <1>3, <1>7
    <2> QED
        BY <1>1, <1>3, <1>6, <2>1, <2>2, SMTT(60)
<1>8. CASE ~ (1 <= Len(old))
    <2>1. Len(old) = 0 /\ 1 \in 1 .. k
        BY <1>1, <1>3, <1>5, <1>6, <1>8
    <2>2. q[1] = t[1]
        BY <1>1, <1>5, <1>8, <2>1
    <2>3. t[1].ser = serial + 1
        BY <1>1, <2>1
    <2> QED
        BY <1>1, <1>3, <1>6, <2>1, <2>2, <2>3
<1> QED
    BY <1>7, <1>8

\* The requests of the longer queue ask for what follows, one after the other.
LEMMA AskedQueued ==
    ASSUME SftpInv, HandleInv, Handled, NEW g, g = file, g # NoFile, NEW n \in Nat \ {0},
           NEW k, NEW t, NEW q, Asked(n, k, t, q), NEW d, NEW h, h = g.handle, NEW o,
           Queued(g.queue, o, h, d)', o[Len(g.queue)] = g.offset
    PROVE  \E p : Queued(q, p, h, d)' /\ p[Len(q)] = file'.offset /\ p[0] = o[0]
<1>1. PICK m : Steps(m, n)
    BY Times
<1>2. PICK off, old : off = g.offset /\ old = g.queue
    OBVIOUS
<1>3. /\ old \in Seq(Tickets) /\ off \in Nat /\ Len(old) \in Nat
      /\ h = file.handle /\ off = file.offset
    BY <1>2, QueueIssued
<1>4. /\ k \in Nat /\ t \in [1 .. k -> Tickets] /\ q = old \o t
      /\ \A i \in 1 .. k : t[i].ser = serial + i
      /\ file'.offset = off + k * n
      /\ send' = [j \in 1..2*k |-> IF j % 2 = 1 THEN ReadAhead((j + 1) \div 2, n) ELSE Flush]
    BY <1>2 DEF Asked
<1>5. ASSUME NEW i \in 1 .. k
      PROVE  ReadAt(t[i].ser, h, off + m[i - 1], (off + m[i - 1]) + n, d)'
    <2>1. PICK j : j = i - 1 /\ j \in Nat
        BY <1>4
    <2>2. m[j] = j * n /\ m[j] \in Nat
        BY <1>1, <2>1, Zenon DEF Steps
    <2>3. PICK x : x = m[j] /\ x \in Nat
        BY <2>2
    <2>4. PICK a : a = off + x /\ a \in Nat
        BY <1>3, <2>3
    <2>5. a = off + (i - 1) * n
        BY <2>1, <2>2, <2>3, <2>4
    <2>6. PICK s : s = t[i].ser /\ s = serial + i
        BY <1>4
    <2>7. /\ k \in Nat /\ off \in Nat /\ h = file.handle /\ off = file.offset
          /\ send' = [z \in 1..2*k |-> IF z % 2 = 1 THEN ReadAhead((z + 1) \div 2, n)
                                                   ELSE Flush]
        BY <1>3, <1>4
    <2>8. ReadAt(s, h, a, a + n, d)'
        BY <2>4, <2>5, <2>6, <2>7, FreshReads, ZenonT(60)
    <2>9. t[i].ser = s /\ off + m[i - 1] = a
        BY <2>1, <2>3, <2>4, <2>6
    <2> QED
        BY <2>8, <2>9, Zenon
<1>6. /\ Queued(old, o, h, d)' /\ o[Len(old)] = off
      /\ n \in Nat /\ k \in Nat /\ t \in [1 .. k -> Tickets] /\ q = old \o t
    BY <1>2, <1>4
<1>7. Extends(old, k, t, h, d, o, off, n, m)'
    BY <1>1, <1>3, <1>5, <1>6, Zenon DEF Extends, Steps, Tickets
<1>8. PICK p : Queued(old \o t, p, h, d)' /\ p[Len(old) + k] = off + m[k] /\ p[0] = o[0]
    BY <1>7, QueueExtends
<1>9. Len(q) = Len(old) + k
    <2>1. t \in Seq(Tickets) /\ Len(t) = k
        BY <1>6
    <2> QED
        BY <1>3, <1>6, <2>1, ConcatProperties
<1>10. m[k] = k * n
    BY <1>1, <1>4, Zenon DEF Steps
<1>11. Queued(q, p, h, d)' /\ p[Len(q)] = file'.offset /\ p[0] = o[0]
    BY <1>4, <1>8, <1>9, <1>10
<1> QED
    BY <1>11

LEMMA ReadCallRight ==
    ASSUME SftpInv, HandleInv, FewRequests, ReadInv, Handled, NEW n \in Space, ReadCall(n),
           NEW g, g = file, NEW d, Reading(g, d)
    PROVE  \E f : f = file' /\ ReadRight(f, d)'
<1>1. /\ call.op = "none" /\ wait = <<>> /\ got = <<>> /\ got' = <<>> /\ call'.op = "read"
      /\ call'.more = n /\ n \in Nat \ {0} /\ serial \in Nat
    <2>1. Begin("read", file.handle, n)
        BY DEF ReadCall
    <2>2. PICK h : h = file.handle
        OBVIOUS
    <2>3. /\ call = Idle /\ wait = <<>> /\ got = <<>> /\ got' = <<>>
          /\ call' = [op |-> "read", path |-> h, more |-> n]
        BY <2>1, <2>2, BeginDone
    <2>4. call.op = "none"
        BY <2>3, OpsDiffer
    <2> QED
        BY <2>3, <2>4, ClientAssumption DEF SftpInv, TypeOK
<1>2. g # NoFile /\ ~ g.failed /\ ~ g.end
    BY DEF ReadCall, Usable
<1>3. ReadRight(g, d)
    BY DEF ReadInv
<1>4. Begun(g, d) /\ Ahead(g, d)
    BY <1>2, <1>3 DEF ReadRight
<1>5. d \in Seq(Byte) /\ Len(d) \in Nat /\ Lasting(g, d)
    BY NowRead
<1>6. PICK o, c : /\ Queued(g.queue, o, g.handle, d) /\ o[Len(g.queue)] = g.offset
                  /\ c \in Nat /\ c = o[0] /\ Len(g.done) + Len(g.buf) = MinOf(c, Len(d))
    BY <1>1, <1>4 DEF Ahead, Current
<1>7. Queued(g.queue, o, g.handle, d)'
    BY <1>2, <1>5, <1>6, QueueIssued, QueueLasts
<1>8. ~ g.eof
    BY <1>4 DEF Ahead
<1>9. PICK f : f = file'
    OBVIOUS
<1>10. PICK k, t, q : Asked(n, k, t, q)
    BY <1>8, ReadAsks
<1>11. /\ f # NoFile /\ f.handle = g.handle /\ f.buf = g.buf /\ f.done = g.done
       /\ f.eof = g.eof /\ f.end = g.end /\ f.failed = g.failed
    <2>1. f # NoFile /\ \A x \in FileFields \ {"queue", "offset"} : f[x] = g[x]
        BY <1>8, <1>9, ReadAsks
    <2> QED
        BY <2>1 DEF FileFields
<1>12. PICK p : Queued(q, p, g.handle, d)' /\ p[Len(q)] = f.offset /\ p[0] = c
    BY <1>1, <1>2, <1>6, <1>7, <1>9, <1>10, AskedQueued
<1>13. Begun(f, d)'
    BY <1>4, <1>11 DEF Begun
<1>14. Ahead(f, d)'
    <2>1. CASE g.buf = <<>>
        <3>1. wait' = <<Head(q)>> /\ f.queue = Tail(q) /\ q # <<>> /\ q \in Seq(Tickets)
            <4>1. wait' = <<Head(q)>> /\ f.queue = Tail(q) /\ q # <<>>
                BY <1>9, <1>10, <2>1 DEF Asked
            <4>2. k \in Nat /\ t \in [1 .. k -> Tickets] /\ q = file.queue \o t
                BY <1>10 DEF Asked
            <4>3. file.queue \in Seq(Tickets)
                BY <1>2, QueueIssued
            <4>4. t \in Seq(Tickets)
                BY <4>2
            <4>5. file.queue \o t \in Seq(Tickets)
                BY <4>3, <4>4, ConcatProperties
            <4> QED
                BY <4>1, <4>2, <4>5
        <3>2. PICK u : /\ Queued(Tail(q), u, g.handle, d)' /\ u[Len(Tail(q))] = p[Len(q)]
                       /\ ReadAt(Head(q).ser, g.handle, p[0], u[0], d)'
            BY <1>12, <3>1, QueuePops
        <3>3. PICK s : s = Head(q).ser
            OBVIOUS
        <3>4. s \in 1 .. serial'
            BY <1>2, <1>10, <3>1, <3>3, AskedIssued
        <3>5. OneRequest(s)'
            BY <1>1, <3>1, <3>3, <3>4 DEF OneRequest
        <3>6. ReadAt(s, f.handle, c, u[0], d)'
            BY <1>11, <1>12, <3>2, <3>3
        <3>7. Current(f, c, u[0], d)'
            BY <1>1, <1>11, <2>1, <3>4, <3>5, <3>6 DEF Current
        <3>8. Queued(f.queue, u, f.handle, d)' /\ u[Len(f.queue)] = f.offset
            BY <1>11, <1>12, <3>1, <3>2
        <3>9. Len(f.done) + Len(f.buf) = MinOf(c, Len(d))
            BY <1>6, <1>11
        <3> QED
            BY <1>6, <1>8, <1>11, <3>7, <3>8, <3>9 DEF Ahead
    <2>2. CASE g.buf # <<>>
        <3>1. wait' = <<>> /\ f.queue = q
            BY <1>9, <1>10, <2>2 DEF Asked
        <3>2. Current(f, c, p[0], d)'
            BY <1>1, <1>11, <1>12, <2>2, <3>1 DEF Current
        <3>3. Queued(f.queue, p, f.handle, d)' /\ p[Len(f.queue)] = f.offset
            BY <1>11, <1>12, <3>1
        <3>4. Len(f.done) + Len(f.buf) = MinOf(c, Len(d))
            BY <1>6, <1>11
        <3> QED
            BY <1>6, <1>8, <1>11, <3>2, <3>3, <3>4 DEF Ahead
    <2> QED
        BY <2>1, <2>2
<1>15. ReadRight(f, d)'
    BY <1>1, <1>2, <1>11, <1>13, <1>14 DEF ReadRight
<1> QED
    BY <1>9, <1>15

LEMMA ReadCallRead ==
    ASSUME SftpInv, HandleInv, FewRequests, ReadInv, Handled, NEW n \in Space, ReadCall(n)
    PROVE  ReadInv'
<1>1. UNCHANGED <<data, handles>>
    BY DEF ReadCall, Begin
<1>2. DataTypes'
    BY <1>1 DEF ReadInv, DataTypes
<1>3. PICK g : g = file
    OBVIOUS
<1>4. file # NoFile /\ file.mode = "ReadOnly"
    BY DEF ReadCall, Usable
<1>5. file'.handle = g.handle
    <2>1. DOMAIN file = FileFields
        BY <1>4, QueueIssued
    <2>2. \E q, o : file' = [file EXCEPT !.queue = q, !.offset = o]
        BY DEF ReadCall
    <2> QED
        BY <1>3, <2>1, <2>2 DEF FileFields
<1>6. ASSUME NEW f, NEW d, f = file', Reading(f, d)'
      PROVE  ReadRight(f, d)'
    <2>1. Reading(g, d)
        BY <1>1, <1>3, <1>4, <1>5, <1>6 DEF Reading, Holds
    <2>2. PICK x : x = file' /\ ReadRight(x, d)'
        BY <1>3, <2>1, ReadCallRight
    <2> QED
        BY <1>6, <2>2
<1> QED
    BY <1>2, <1>6 DEF ReadInv

LEMMA CallRead ==
    ASSUME SftpInv, FewRequests, HandleInv, FileInv, ReadInv, StartCall \/ CallStep, ~ Rest
    PROVE  ReadInv'
<1>1. Handled
    BY StepsHandled
<1>2. ASSUME NEW n \in Space, ReadCall(n) PROVE ReadInv'
    BY <1>1, <1>2, ReadCallRead
<1>3. CASE ReadBuffered \/ ReadReply
    BY <1>1, <1>3, ReadEndsRead
<1>4. CASE OpenReply
    BY <1>1, <1>4, OpenReplyRead
<1>5. CASE ~ (\E n \in Space : ReadCall(n)) /\ ~ ReadBuffered /\ ~ ReadReply /\ ~ OpenReply
    <2>1. /\ UNCHANGED <<data, handles>> /\ call.op # "read" /\ call'.op # "read"
          /\ file' = file \/ file' = NoFile \/ file'.mode # "ReadOnly"
        BY <1>5, Elsewhere
    <2> QED
        BY <1>1, <2>1, HandledRead
<1> QED
    BY <1>2, <1>3, <1>4, <1>5

LEMMA InitRead ==
    ASSUME Init
    PROVE  ReadInv
<1>1. file = NoFile /\ data \in [Path -> Content]
    BY DEF Init, ServerInit, ClientInit
<1>2. DataTypes
    BY <1>1, ServerAssumption DEF DataTypes
<1> QED
    BY <1>1, <1>2 DEF ReadInv, Reading

LEMMA NextRead ==
    ASSUME SftpInv, MatchInv, StoredInv, ReadInv, [Next]_vars
    PROVE  ReadInv'
<1>1. FewRequests' => FewRequests
    BY FewerBefore
<1>2. CASE FewRequests
    <2>1. HandleInv /\ ServerData /\ FileInv
        BY <1>2 DEF StoredInv
    <2>2. CASE (StartCall \/ CallStep) /\ ~ Rest
        BY <1>2, <2>1, <2>2, CallRead
    <2>3. CASE Move \/ Environment \/ UNCHANGED vars
        BY <1>2, <2>1, <2>3, RestRead
    <2> QED
        BY <2>2, <2>3, StepsAre
<1> QED
    BY <1>1, <1>2 DEF ReadInv

LEMMA BeginningOf ==
    ASSUME NEW s \in Seq(Byte), NEW d \in Seq(Byte), Len(s) <= Len(d),
           \A i \in 1 .. Len(s) : s[i] = d[i]
    PROVE  IsPrefix(s, d) /\ (Len(s) = Len(d) => s = d)
<1>1. PICK l : l = Len(s)
    OBVIOUS
<1>2. l \in Nat /\ Len(d) \in Nat /\ l <= Len(d)
    BY <1>1, LenProperties
<1>3. SubSeq(s, 1, l) = s
    BY <1>1, SubSeqProperties
<1>4. SubSeq(d, 1, l) = s
    BY <1>1, <1>2, SubSeqProperties
<1> QED
    BY <1>1, <1>2, <1>3, <1>4 DEF IsPrefix

\* The bytes that readbytes() returns are the file's, from its beginning on, in
\* order and none twice, and when it says that there are no more they are all
\* of them: whatever sizes were asked for while other requests were on their
\* way, in whatever order the replies came and whatever other users did, until
\* newid() has given out every id once (SftpFile::readbytes, sftp.cc:253-307).
THEOREM ReadsInOrder == Spec => [](serial < IdMod - 1 => ReadInOrder)
<1>1. SftpInv /\ MatchInv /\ StoredInv /\ ReadInv /\ [Next]_vars
      => SftpInv' /\ MatchInv' /\ StoredInv' /\ ReadInv'
    BY NextInv, NextMatch, NextStored, NextRead
<1>2. Init => SftpInv /\ MatchInv /\ StoredInv /\ ReadInv
    BY InitInv, InitMatch, InitStored, InitRead
<1>3. ReadInv => (serial < IdMod - 1 => ReadInOrder)
    <2> SUFFICES ASSUME ReadInv, FewRequests, file # NoFile, file.mode = "ReadOnly",
                        file.handle \in DOMAIN handles,
                        handles[file.handle].ino \in DOMAIN data
                 PROVE  /\ IsPrefix(file.done, data[handles[file.handle].ino])
                        /\ file.end => file.done = data[handles[file.handle].ino]
        BY DEF FewRequests, ReadInOrder
    <2>1. PICK d : d = data[handles[file.handle].ino]
        OBVIOUS
    <2>2. Reading(file, d)
        BY <2>1 DEF Reading, Holds
    <2>3. Begun(file, d) /\ d \in Seq(Byte)
        BY <2>1, <2>2 DEF ReadInv, ReadRight, DataTypes
    <2>4. PICK s, b : s = file.done /\ b = file.buf
        OBVIOUS
    <2>5. /\ s \in Seq(Byte) /\ b \in Seq(Byte) /\ Len(s) + Len(b) <= Len(d)
          /\ \A i \in 1 .. Len(s) : s[i] = d[i]
          /\ file.end => Len(s) = Len(d)
        BY <2>3, <2>4 DEF Begun
    <2>6. Len(s) <= Len(d)
        <3>1. Len(s) \in Nat /\ Len(b) \in Nat /\ Len(d) \in Nat
            BY <2>3, <2>5, LenProperties
        <3> QED
            BY <2>5, <3>1
    <2>7. IsPrefix(s, d) /\ (Len(s) = Len(d) => s = d)
        BY <2>3, <2>5, <2>6, BeginningOf
    <2> QED
        BY <2>1, <2>4, <2>5, <2>7
<1> QED
    BY <1>1, <1>2, <1>3, PTL DEF Spec
=============================================================================
