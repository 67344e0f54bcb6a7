--------------------------- MODULE RoundTripProofs ---------------------------
(***************************************************************************)
(* A backup of a tree, for any tree, any changes to it meanwhile and a     *)
(* death at any moment: the lines of a directory are together in the index *)
(* and in order, what they say of a file nobody changed is true, and no    *)
(* such file is missing from an index that has its end.  Restores of that  *)
(* index, wherever they die and are started again: no regular file under   *)
(* its own name is torn, and after one that reports no error each line has *)
(* its file, the links of a file are together, nothing else has been left  *)
(* there, and what nobody changed is as it was.                            *)
(***************************************************************************)
EXTENDS RoundTrip, SequenceTheorems, FiniteSetTheorems, TLAPS

----------------------------------------------------------------------------
(***************************************************************************)
(* Sequences.                                                              *)
(***************************************************************************)
IsSeq(s) == \E S : s \in Seq(S)

LEMMA SeqLength ==
    ASSUME NEW s, IsSeq(s)
    PROVE  /\ Len(s) \in Nat /\ DOMAIN s = 1 .. Len(s)
           /\ s = <<>> <=> Len(s) = 0
<1>1. PICK S : s \in Seq(S)
    BY DEF IsSeq
<1> QED
    BY <1>1, LenProperties, EmptySeq

\* What a sequence has at its end after Append.
LEMMA AppendSeq ==
    ASSUME NEW s, IsSeq(s), NEW e
    PROVE  /\ IsSeq(Append(s, e))
           /\ Len(Append(s, e)) = Len(s) + 1
           /\ DOMAIN Append(s, e) = 1 .. Len(s) + 1
           /\ \A i \in DOMAIN s : Append(s, e)[i] = s[i]
           /\ Append(s, e)[Len(s) + 1] = e
<1>1. PICK S : s \in Seq(S)
    BY DEF IsSeq
<1> DEFINE T == S \cup {e}
<1>2. s \in Seq(T) /\ e \in T
    BY <1>1, SeqMonotonic
<1> HIDE DEF T
<1>3. /\ Append(s, e) \in Seq(T)
      /\ Len(Append(s, e)) = Len(s) + 1
      /\ \A i \in 1 .. Len(s) : Append(s, e)[i] = s[i]
      /\ Append(s, e)[Len(s) + 1] = e
    BY <1>2, AppendProperties
<1>4. Len(s) \in Nat /\ DOMAIN s = 1 .. Len(s)
    BY SeqLength
<1>5. DOMAIN Append(s, e) = 1 .. Len(s) + 1
    BY <1>3, LenProperties
<1> QED
    BY <1>3, <1>4, <1>5 DEF IsSeq

\* What is left when the first element is gone.
LEMMA TailSeq ==
    ASSUME NEW S, NEW s \in Seq(S), s # <<>>
    PROVE  /\ Tail(s) \in Seq(S) /\ Len(Tail(s)) = Len(s) - 1
           /\ 1 \in DOMAIN s /\ Head(s) = s[1] /\ Head(s) \in S
           /\ \A i \in DOMAIN Tail(s) : i \in Nat \ {0} /\ i + 1 \in DOMAIN s /\ Tail(s)[i] = s[i + 1]
<1>1. /\ Tail(s) \in Seq(S) /\ Len(Tail(s)) = Len(s) - 1 /\ Head(s) \in S
      /\ \A i \in 1 .. Len(Tail(s)) : Tail(s)[i] = s[i + 1]
    BY HeadTailProperties
<1>2. Len(s) \in Nat \ {0} /\ DOMAIN s = 1 .. Len(s)
    BY SeqLength DEF IsSeq
<1>3. DOMAIN Tail(s) = 1 .. Len(s) - 1
    BY <1>1, LenProperties
<1>4. Head(s) = s[1]
    OBVIOUS
<1> QED
    BY <1>1, <1>2, <1>3, <1>4

\* The beginning of a sequence.
LEMMA PrefixSeq ==
    ASSUME NEW s, IsSeq(s), NEW k \in 0 .. Len(s)
    PROVE  /\ IsSeq(SubSeq(s, 1, k)) /\ Len(SubSeq(s, 1, k)) = k
           /\ DOMAIN SubSeq(s, 1, k) = 1 .. k
           /\ \A i \in 1 .. k : i \in DOMAIN s /\ SubSeq(s, 1, k)[i] = s[i]
<1>1. PICK S : s \in Seq(S)
    BY DEF IsSeq
<1>2. Len(s) \in Nat /\ DOMAIN s = 1 .. Len(s)
    BY SeqLength
<1>3. \A i \in 1 .. k : s[i] \in S
    BY <1>1, <1>2, ElementOfSeq
<1> DEFINE t == SubSeq(s, 1, k)
<1>4. /\ t \in Seq(S) /\ Len(t) = IF 1 <= k THEN k - 1 + 1 ELSE 0
      /\ \A i \in 1 .. k - 1 + 1 : t[i] = s[1 + i - 1]
    BY <1>2, <1>3, SubSeqProperties
<1> HIDE DEF t
<1>5. Len(t) = k /\ \A i \in 1 .. k : t[i] = s[i]
    BY <1>2, <1>4
<1>6. DOMAIN t = 1 .. k
    BY <1>4, <1>5, LenProperties
<1> QED
    BY <1>2, <1>4, <1>5, <1>6 DEF t, IsSeq

\* Two sequences, one after the other.
LEMMA ConcatSeq ==
    ASSUME NEW S, NEW a \in Seq(S), NEW b \in Seq(S)
    PROVE  /\ a \o b \in Seq(S)
           /\ \A i \in DOMAIN (a \o b) :
                 \/ i \in DOMAIN a /\ (a \o b)[i] = a[i]
                 \/ i \in Nat /\ i - Len(a) \in DOMAIN b /\ (a \o b)[i] = b[i - Len(a)]
<1> DEFINE c == a \o b
<1>1. /\ c \in Seq(S) /\ Len(c) = Len(a) + Len(b)
      /\ \A i \in 1 .. Len(a) + Len(b) : c[i] = IF i <= Len(a) THEN a[i] ELSE b[i - Len(a)]
    BY ConcatProperties
<1>2. /\ Len(a) \in Nat /\ Len(b) \in Nat /\ DOMAIN a = 1 .. Len(a) /\ DOMAIN b = 1 .. Len(b)
    BY LenProperties
<1> HIDE DEF c
<1>3. DOMAIN c = 1 .. Len(a) + Len(b)
    BY <1>1, LenProperties
<1>4. ASSUME NEW i \in DOMAIN c
      PROVE  \/ i \in DOMAIN a /\ c[i] = a[i]
             \/ i \in Nat /\ i - Len(a) \in DOMAIN b /\ c[i] = b[i - Len(a)]
    BY <1>1, <1>2, <1>3, <1>4
<1> QED
    BY <1>1, <1>4 DEF c

----------------------------------------------------------------------------
(***************************************************************************)
(* Paths.  Names are numbers, temporary names too.                         *)
(***************************************************************************)
Numbers == Seq(Nat)

LEMMA PathIsNumbers == Path \subseteq Numbers /\ Name \subseteq Nat /\ Root \in Numbers
<1>1. Name \subseteq Nat
    BY NameAssumption
<1>2. Seq(Name) \subseteq Seq(Nat)
    BY <1>1, SeqMonotonic
<1>3. <<>> \in Seq(Nat)
    BY EmptySeq
<1> QED
    BY <1>1, <1>2, <1>3 DEF Path, Numbers, Root

\* A file of the directory d.
LEMMA ChildOf ==
    ASSUME NEW d \in Numbers, NEW n \in Nat
    PROVE  /\ Append(d, n) \in Numbers /\ Append(d, n) # Root
           /\ Len(d) \in Nat /\ Len(Append(d, n)) = Len(d) + 1
           /\ \A i \in 1 .. Len(d) : Append(d, n)[i] = d[i]
           /\ Append(d, n)[Len(d) + 1] = n
           /\ Parent(Append(d, n)) = d /\ Base(Append(d, n)) = n
<1> DEFINE c == Append(d, n)
<1>1. /\ c \in Seq(Nat) /\ Len(c) = Len(d) + 1 /\ Len(d) \in Nat
      /\ \A i \in 1 .. Len(d) : c[i] = d[i]
      /\ c[Len(d) + 1] = n
    BY AppendProperties, LenProperties DEF Numbers
<1> HIDE DEF c
<1>2. c # <<>>
    BY <1>1, EmptySeq
<1>3. Len(d) \in 0 .. Len(c) /\ Len(c) - 1 = Len(d) /\ IsSeq(c)
    BY <1>1 DEF IsSeq
<1>4. /\ IsSeq(Parent(c)) /\ Len(Parent(c)) = Len(d)
      /\ \A i \in 1 .. Len(d) : Parent(c)[i] = c[i]
    BY <1>3, PrefixSeq DEF Parent
<1>5. Parent(c) = d
    <2>1. IsSeq(d)
        BY DEF IsSeq, Numbers
    <2>2. PICK S : d \in Seq(S)
        BY <2>1 DEF IsSeq
    <2>3. PICK T : Parent(c) \in Seq(T)
        BY <1>4 DEF IsSeq
    <2>4. d \in Seq(S \cup T) /\ Parent(c) \in Seq(S \cup T)
        BY <2>2, <2>3, SeqMonotonic
    <2>5. \A i \in 1 .. Len(d) : Parent(c)[i] = d[i]
        BY <1>1, <1>4
    <2> QED
        BY <2>4, <2>5, <1>4, SeqEqual
<1>6. Base(c) = n
    BY <1>1 DEF Base
<1> QED
    BY <1>1, <1>2, <1>5, <1>6 DEF c, Numbers, Root

\* Every file but the root is one of its directory.
LEMMA ParentOf ==
    ASSUME NEW p \in Numbers, p # Root
    PROVE  Parent(p) \in Numbers /\ Base(p) \in Nat /\ p = Append(Parent(p), Base(p))
<1>1. Len(p) \in Nat \ {0} /\ IsSeq(p)
    BY SeqLength DEF IsSeq, Numbers, Root
<1>2. Len(p) - 1 \in 0 .. Len(p)
    BY <1>1
<1>3. /\ Len(Parent(p)) = Len(p) - 1
      /\ \A i \in 1 .. Len(p) - 1 : Parent(p)[i] = p[i]
    BY <1>1, <1>2, PrefixSeq DEF Parent
<1>4. Parent(p) \in Seq(Nat)
    <2>1. \A i \in 1 .. Len(p) - 1 : p[i] \in Nat
        BY <1>1, ElementOfSeq DEF Numbers
    <2> QED
        BY <1>1, <2>1, SubSeqProperties DEF Parent
<1>5. Base(p) \in Nat
    BY <1>1, ElementOfSeq DEF Base, Numbers
<1> DEFINE q == Append(Parent(p), Base(p))
<1>6. /\ q \in Seq(Nat) /\ Len(q) = (Len(p) - 1) + 1
      /\ \A i \in 1 .. Len(p) - 1 : q[i] = Parent(p)[i]
      /\ q[Len(p) - 1 + 1] = Base(p)
    BY <1>3, <1>4, <1>5, AppendProperties
<1> HIDE DEF q
<1>7. Len(q) = Len(p) /\ q[Len(p)] = p[Len(p)]
    BY <1>1, <1>6 DEF Base
<1>8. \A i \in 1 .. Len(p) : q[i] = p[i]
    BY <1>1, <1>3, <1>6, <1>7
<1>9. q = p
    BY <1>6, <1>7, <1>8, SeqEqual DEF Numbers
<1> QED
    BY <1>4, <1>5, <1>9 DEF q, Numbers

\* q is d or somewhere below it.
Under(q, d) == Len(d) <= Len(q) /\ \A i \in 1 .. Len(d) : q[i] = d[i]

LEMMA UnderSelf ==
    ASSUME NEW d \in Numbers
    PROVE  Under(d, d)
<1>1. Len(d) \in Nat
    BY LenProperties DEF Numbers
<1> QED
    BY <1>1 DEF Under

LEMMA UnderChild ==
    ASSUME NEW d \in Numbers, NEW n \in Nat, NEW x \in Numbers
    PROVE  /\ Under(Append(d, n), x) => x = Append(d, n) \/ Under(d, x)
           /\ Under(x, Append(d, n)) => Under(x, d)
           /\ ~ Under(d, Append(d, n))
<1> DEFINE c == Append(d, n)
<1>1. /\ c \in Numbers /\ Len(d) \in Nat /\ Len(c) = Len(d) + 1
      /\ \A i \in 1 .. Len(d) : c[i] = d[i]
    BY ChildOf
<1>2. Len(x) \in Nat
    BY LenProperties DEF Numbers
<1> HIDE DEF c
<1>3. ASSUME Under(c, x) PROVE x = c \/ Under(d, x)
    <2>1. Len(x) <= Len(c) /\ \A i \in 1 .. Len(x) : c[i] = x[i]
        BY <1>3 DEF Under
    <2>2. CASE Len(x) = Len(c)
        BY <1>1, <2>1, <2>2, SeqEqual DEF Numbers
    <2>3. CASE Len(x) # Len(c)
        <3>1. Len(x) <= Len(d)
            BY <1>1, <1>2, <2>1, <2>3
        <3>2. \A i \in 1 .. Len(x) : i \in 1 .. Len(d)
            BY <3>1, <1>1, <1>2
        <3> QED
            BY <3>1, <3>2, <1>1, <2>1 DEF Under
    <2> QED
        BY <2>2, <2>3
<1>4. ASSUME Under(x, c) PROVE Under(x, d)
    BY <1>1, <1>2, <1>4 DEF Under
<1>5. ~ Under(d, c)
    BY <1>1 DEF Under
<1> QED
    BY <1>3, <1>4, <1>5 DEF c

LEMMA UnderSibling ==
    ASSUME NEW d \in Numbers, NEW m \in Nat, NEW n \in Nat, Under(Append(d, m), Append(d, n))
    PROVE  m = n
<1>1. \/ Append(d, n) = Append(d, m)
      \/ Under(d, Append(d, n))
    BY ChildOf, UnderChild
<1> QED
    BY <1>1, ChildOf, UnderChild
----------------------------------------------------------------------------
(***************************************************************************)
(* The index that the walk writes.                                         *)
(***************************************************************************)
\* P are the paths of the lines ls: each line has a full one at or before it
\* from which a reader knows its directory.
Describes(ls, P) ==
    /\ P \in Seq(Numbers) /\ IsSeq(ls) /\ Len(P) = Len(ls)
    /\ \A i \in DOMAIN P :
          /\ P[i] # Root
          /\ ls[i].name.path = IF ls[i].name.rel THEN <<Base(P[i])>> ELSE P[i]
          /\ \E j \in 1 .. i : /\ ~ ls[j].name.rel /\ Parent(P[j]) = Parent(P[i])
                               /\ \A k \in j + 1 .. i : ls[k].name.rel

\* DirectoriesTogether, said of the paths.
Together(P) ==
    \A i, j \in DOMAIN P :
       i < j /\ Parent(P[i]) = Parent(P[j]) =>
          /\ Base(P[i]) < Base(P[j])
          /\ \A k \in i .. j : Parent(P[k]) = Parent(P[i])

\* None of the directories is in another.
Apart(dirs) == \A i, j \in DOMAIN dirs : i # j => ~ Under(dirs[i], dirs[j])

IsRun(w) ==
    \E pc, dirs, names, s, ci, first, subdirs :
       w = [pc |-> pc, dirs |-> dirs, names |-> names, s |-> s, ci |-> ci,
            first |-> first, subdirs |-> subdirs]

RunShape(w) ==
    /\ IsRun(w)
    /\ w.dirs \in Seq(Numbers) /\ w.dirs # <<>> /\ Apart(w.dirs)
    /\ w.subdirs \in Seq(Numbers) /\ w.ci \in Seq(Nat) /\ w.first \in BOOLEAN
    /\ DOMAIN w.s \subseteq Nat /\ IsFiniteSet(DOMAIN w.s)
    /\ w.pc # "line" => w.first /\ w.subdirs = <<>>

\* The names to come are in order, and the subdirectories among those that
\* were written.
CiInOrder(w) == \A m, n \in DOMAIN w.ci : m < n => w.ci[m] < w.ci[n]
SubdirsBehind(w) ==
    /\ \A m \in DOMAIN w.subdirs : \E b \in Nat :
          /\ w.subdirs[m] = Append(w.dirs[1], b)
          /\ \A c \in DOMAIN w.ci : b < w.ci[c]
    /\ \A m, n \in DOMAIN w.subdirs : m # n => w.subdirs[m] # w.subdirs[n]

\* No line is of a directory that is still to enter, or of one below it.
NoneAhead(P, w) ==
    \A i \in DOMAIN P :
       /\ Parent(P[i]) = w.dirs[1] \/ ~ Under(Parent(P[i]), w.dirs[1])
       /\ \A k \in DOMAIN w.dirs : k # 1 => ~ Under(Parent(P[i]), w.dirs[k])

\* Those of this directory are the last ones, up to the next name.
ThisDirLast(P, w) ==
    /\ w.first => \A i \in DOMAIN P : Parent(P[i]) # w.dirs[1]
    /\ ~ w.first => P # <<>> /\ Parent(P[Len(P)]) = w.dirs[1]
    /\ \A i \in DOMAIN P : Parent(P[i]) = w.dirs[1] =>
          /\ \A k \in DOMAIN P : i <= k => Parent(P[k]) = w.dirs[1]
          /\ \A c \in DOMAIN w.ci : Base(P[i]) < w.ci[c]

Ahead(P, w) ==
    /\ RunShape(w) /\ CiInOrder(w) /\ SubdirsBehind(w)
    /\ NoneAhead(P, w) /\ ThisDirLast(P, w)

Active(w) == w.pc \notin {"done", "dead"}

WalkInv ==
    \E P : Describes(lines, P) /\ Together(P) /\ (Active(walk) => Ahead(P, walk))


\* A reader finds the paths that the lines were written for.
LEMMA PathOfLine ==
    ASSUME NEW P, Describes(lines, P), NEW i \in DOMAIN P
    PROVE  LinePath(i) = P[i]
<1>1. DOMAIN P = 1 .. Len(P) /\ Len(P) \in Nat
    BY SeqLength DEF Describes, IsSeq
<1>2. P[i] \in Numbers /\ P[i] # Root
    BY ElementOfSeq, <1>1 DEF Describes
<1>3. CASE ~ lines[i].name.rel
    BY <1>3 DEF Describes, LinePath
<1>4. CASE lines[i].name.rel
    <2> DEFINE LastFull(j) == /\ ~ lines[j].name.rel
                              /\ \A k \in j + 1 .. i : lines[k].name.rel
    <2>1. PICK j \in 1 .. i : LastFull(j) /\ Parent(P[j]) = Parent(P[i])
        BY DEF Describes
    <2>2. ASSUME NEW m \in 1 .. i, LastFull(m) PROVE m = j
        <3>1. ~ m < j
            BY <1>1, <2>1, <2>2
        <3>2. ~ j < m
            BY <1>1, <2>1, <2>2
        <3> QED
            BY <1>1, <3>1, <3>2
    <2>3. FullLine(i) = j
        <3>1. FullLine(i) = CHOOSE m \in 1 .. i : LastFull(m)
            BY DEF FullLine
        <3>2. FullLine(i) \in 1 .. i /\ LastFull(FullLine(i))
            <4> HIDE DEF LastFull
            <4> QED
                BY <2>1, <3>1
        <3> QED
            BY <2>2, <3>2
    <2>4. j \in DOMAIN P /\ lines[j].name.path = P[j]
        <3>1. j \in DOMAIN P
            BY <1>1
        <3>2. lines[j].name.path = IF lines[j].name.rel THEN <<Base(P[j])>> ELSE P[j]
            BY <3>1 DEF Describes
        <3> QED
            BY <2>1, <3>1, <3>2
    <2>5. lines[i].name.path = <<Base(P[i])>>
        BY <1>4 DEF Describes
    <2>6. LinePath(i) = Parent(P[i]) \o <<Base(P[i])>>
        BY <1>4, <2>1, <2>3, <2>4, <2>5 DEF LinePath
    <2>7. Parent(P[i]) \in Seq(Nat) /\ Base(P[i]) \in Nat
          /\ P[i] = Append(Parent(P[i]), Base(P[i]))
        BY <1>2, ParentOf DEF Numbers
    <2>8. Parent(P[i]) \o <<Base(P[i])>> = Append(Parent(P[i]), Base(P[i]))
        BY <2>7, AppendIsConcat
    <2> QED
        BY <2>6, <2>7, <2>8
<1> QED
    BY <1>3, <1>4

\* A death takes lines from the end.
LEMMA CutLines ==
    ASSUME NEW ls, NEW P, Describes(ls, P), Together(P), NEW k \in 0 .. Len(ls)
    PROVE  \E Q : Q = SubSeq(P, 1, k) /\ Describes(SubSeq(ls, 1, k), Q) /\ Together(Q)
<1> DEFINE Q == SubSeq(P, 1, k)
           l == SubSeq(ls, 1, k)
<1>1. IsSeq(P) /\ Len(P) = Len(ls) /\ IsSeq(ls) /\ P \in Seq(Numbers)
    BY DEF Describes, IsSeq
<1>2. /\ Len(Q) = k /\ DOMAIN Q = 1 .. k
      /\ \A i \in 1 .. k : i \in DOMAIN P /\ Q[i] = P[i]
    BY <1>1, PrefixSeq
<1>3. /\ IsSeq(l) /\ Len(l) = k
      /\ \A i \in 1 .. k : l[i] = ls[i]
    BY <1>1, PrefixSeq
<1>4. Q \in Seq(Numbers)
    <2>1. k \in Nat /\ \A i \in 1 .. k : P[i] \in Numbers
        BY <1>1, <1>2, SeqLength, ElementOfSeq
    <2> QED
        BY <1>1, <2>1, SubSeqProperties
<1>5. k \in Nat
    BY <1>1, SeqLength
<1> HIDE DEF Q, l
<1>6. Describes(l, Q)
    <2> SUFFICES ASSUME NEW i \in DOMAIN Q
                 PROVE  /\ Q[i] # Root
                        /\ l[i].name.path = IF l[i].name.rel THEN <<Base(Q[i])>> ELSE Q[i]
                        /\ \E j \in 1 .. i : /\ ~ l[j].name.rel /\ Parent(Q[j]) = Parent(Q[i])
                                             /\ \A m \in j + 1 .. i : l[m].name.rel
        BY <1>2, <1>3, <1>4 DEF Describes
    <2>1. i \in 1 .. k /\ i \in DOMAIN P /\ Q[i] = P[i] /\ l[i] = ls[i]
        BY <1>2, <1>3
    <2>2. PICK j \in 1 .. i : /\ ~ ls[j].name.rel /\ Parent(P[j]) = Parent(P[i])
                              /\ \A m \in j + 1 .. i : ls[m].name.rel
        BY <2>1 DEF Describes
    <2>3. /\ ~ l[j].name.rel /\ Parent(Q[j]) = Parent(Q[i])
          /\ \A m \in j + 1 .. i : l[m].name.rel
        BY <1>2, <1>3, <1>5, <2>1, <2>2
    <2> QED
        BY <2>1, <2>3 DEF Describes
<1>7. Together(Q)
    BY <1>2, <1>5 DEF Together
<1> QED
    BY <1>6, <1>7 DEF l, Q


LEMMA NextRun ==
    ASSUME NEW w, NEW ci, NEW subdirs, NEW x, IsRun(w),
           x = [w EXCEPT !.ci = ci, !.first = FALSE, !.subdirs = subdirs]
    PROVE  x = [pc |-> w.pc, dirs |-> w.dirs, names |-> w.names, s |-> w.s, ci |-> ci,
                first |-> FALSE, subdirs |-> subdirs]
<1>1. PICK pc, dirs, names, s, c, f, b :
         w = [pc |-> pc, dirs |-> dirs, names |-> names, s |-> s, ci |-> c,
              first |-> f, subdirs |-> b]
    BY DEF IsRun
<1>2. w.pc = pc /\ w.dirs = dirs /\ w.names = names /\ w.s = s
    BY <1>1
<1>3. PICK u : u = [w EXCEPT !.ci = ci]
    OBVIOUS
<1>4. u = [pc |-> pc, dirs |-> dirs, names |-> names, s |-> s, ci |-> ci,
           first |-> f, subdirs |-> b]
    BY <1>1, <1>3
<1>5. PICK v : v = [u EXCEPT !.first = FALSE]
    OBVIOUS
<1>6. v = [pc |-> pc, dirs |-> dirs, names |-> names, s |-> s, ci |-> ci,
           first |-> FALSE, subdirs |-> b]
    BY <1>4, <1>5
<1>7. x = [v EXCEPT !.subdirs = subdirs]
    BY <1>3, <1>5
<1>8. x = [pc |-> pc, dirs |-> dirs, names |-> names, s |-> s, ci |-> ci,
           first |-> FALSE, subdirs |-> subdirs]
    BY <1>6, <1>7
<1> QED
    BY <1>2, <1>8

\* A line is written: it belongs to this directory, and what it is the name of
\* comes after all that was written in it.
LEMMA AppendLine ==
    ASSUME NEW ls, NEW P, NEW w, NEW l, NEW ss,
           Describes(ls, P), Together(P), Ahead(P, w), w.pc = "line", w.ci # <<>>,
           l.name = IF w.first \/ w.dirs[1] = Root
                    THEN [rel |-> FALSE, path |-> Append(w.dirs[1], w.ci[1])]
                    ELSE [rel |-> TRUE, path |-> <<Base(Append(w.dirs[1], w.ci[1]))>>],
           ss \in {<<>>, <<Append(w.dirs[1], w.ci[1])>>}
    PROVE  \E Q : /\ Q = Append(P, Append(w.dirs[1], w.ci[1]))
                  /\ Describes(Append(ls, l), Q) /\ Together(Q)
                  /\ Ahead(Q, [w EXCEPT !.ci = Tail(@), !.first = FALSE, !.subdirs = @ \o ss])
<1> DEFINE d == w.dirs[1]
           n == w.ci[1]
           c == Append(d, n)
           T == Tail(w.ci)
           D == w.subdirs \o ss
           Q == Append(P, c)
           L == Append(ls, l)
           v == [w EXCEPT !.ci = Tail(@), !.first = FALSE, !.subdirs = @ \o ss]
<1>1. d \in Numbers /\ 1 \in DOMAIN w.dirs
    BY TailSeq DEF Ahead, RunShape
<1>2. /\ n \in Nat /\ 1 \in DOMAIN w.ci /\ T \in Seq(Nat)
      /\ \A i \in DOMAIN T : i \in Nat \ {0} /\ i + 1 \in DOMAIN w.ci /\ T[i] = w.ci[i + 1]
    BY TailSeq, SMTT(60) DEF Ahead, RunShape
<1>3. /\ v = [pc |-> w.pc, dirs |-> w.dirs, names |-> w.names, s |-> w.s, ci |-> T,
              first |-> FALSE, subdirs |-> D]
    <2> HIDE DEF T, D
    <2>1. v = [w EXCEPT !.ci = T, !.first = FALSE, !.subdirs = D]
        BY DEF v, T, D
    <2>2. IsRun(w)
        BY DEF Ahead, RunShape
    <2> HIDE DEF v
    <2> QED
        BY <2>1, <2>2, NextRun
<1>4. /\ c \in Numbers /\ c # Root /\ Parent(c) = d /\ Base(c) = n
    BY <1>1, <1>2, ChildOf, ZenonT(60)
<1> HIDE DEF v, T, c, D
<1>5. /\ v.pc = "line" /\ v.dirs = w.dirs /\ v.s = w.s /\ v.ci = T /\ v.first = FALSE /\ v.subdirs = D
      /\ IsRun(v)
    BY <1>3 DEF IsRun
<1>6. /\ P \in Seq(Numbers) /\ IsSeq(P) /\ IsSeq(ls) /\ Len(P) = Len(ls) /\ Len(P) \in Nat
      /\ DOMAIN P = 1 .. Len(P) /\ DOMAIN ls = 1 .. Len(P)
    BY SeqLength DEF Describes, IsSeq
<1>0. PICK N \in Nat : N = Len(P) /\ DOMAIN P = 1 .. N
    BY <1>6
<1>7. /\ Q \in Seq(Numbers) /\ Len(Q) = N + 1 /\ DOMAIN Q = 1 .. N + 1
      /\ \A i \in DOMAIN P : Q[i] = P[i]
      /\ Q[N + 1] = c
    BY <1>0, <1>4, <1>6, AppendSeq, AppendProperties
<1>8. /\ IsSeq(L) /\ Len(L) = N + 1
      /\ \A i \in 1 .. N : L[i] = ls[i]
      /\ L[N + 1] = l
    BY <1>0, <1>6, AppendSeq
<1> HIDE DEF Q, L, d, n
<1>9. /\ l.name.rel \in BOOLEAN
      /\ l.name.path = IF l.name.rel THEN <<Base(c)>> ELSE c
      /\ l.name.rel => ~ w.first
    BY DEF d, n, c
<1>10. Describes(L, Q)
    <2> SUFFICES ASSUME NEW i \in DOMAIN Q
                 PROVE  /\ Q[i] # Root
                        /\ L[i].name.path = IF L[i].name.rel THEN <<Base(Q[i])>> ELSE Q[i]
                        /\ \E j \in 1 .. i : /\ ~ L[j].name.rel /\ Parent(Q[j]) = Parent(Q[i])
                                             /\ \A m \in j + 1 .. i : L[m].name.rel
        BY <1>7, <1>8 DEF Describes
    <2>1. CASE i \in DOMAIN P
        <3>1. PICK j \in 1 .. i : /\ ~ ls[j].name.rel /\ Parent(P[j]) = Parent(P[i])
                                  /\ \A m \in j + 1 .. i : ls[m].name.rel
            BY <2>1 DEF Describes
        <3>2. \A m \in 1 .. i : m \in DOMAIN P /\ L[m] = ls[m] /\ Q[m] = P[m]
            BY <1>0, <1>7, <1>8, <2>1
        <3>4. i \in 1 .. i /\ \A m \in j + 1 .. i : m \in 1 .. i
            BY <1>0, <2>1
        <3>5. /\ ~ L[j].name.rel /\ Parent(Q[j]) = Parent(Q[i])
              /\ \A m \in j + 1 .. i : L[m].name.rel
            BY <3>1, <3>2, <3>4
        <3>3. Q[i] = P[i] /\ L[i] = ls[i]
            BY <1>0, <1>7, <1>8, <2>1
        <3> QED
            BY <2>1, <3>3, <3>5 DEF Describes
    <2>2. CASE i = N + 1 /\ ~ l.name.rel
        <3>1. i \in 1 .. i /\ ~ L[i].name.rel /\ \A m \in i + 1 .. i : L[m].name.rel
            BY <1>0, <1>8, <2>2
        <3> QED
            BY <1>4, <1>7, <1>8, <1>9, <2>2, <3>1
    <2>3. CASE i = N + 1 /\ l.name.rel
        <3>1. P # <<>> /\ Parent(P[N]) = d
            BY <1>0, <1>9, <2>3 DEF Ahead, ThisDirLast, d
        <3>2. N \in DOMAIN P
            BY <1>0, <3>1, SeqLength
        <3>3. PICK j \in 1 .. N : /\ ~ ls[j].name.rel /\ Parent(P[j]) = Parent(P[N])
                                       /\ \A m \in j + 1 .. N : ls[m].name.rel
            BY <3>2 DEF Describes
        <3>4. /\ j \in 1 .. i /\ ~ L[j].name.rel /\ Parent(Q[j]) = d
              /\ \A m \in j + 1 .. i : L[m].name.rel
            <4>1. \A m \in 1 .. N : L[m] = ls[m] /\ Q[m] = P[m]
                BY <1>0, <1>7, <1>8
            <4>2. j \in 1 .. i /\ j \in 1 .. N
                  /\ \A m \in j + 1 .. i : m \in j + 1 .. N \/ m = N + 1
                BY <1>0, <2>3
            <4>3. \A m \in j + 1 .. N : m \in 1 .. N
                BY <1>0
            <4> QED
                BY <1>8, <2>3, <3>1, <3>3, <4>1, <4>2, <4>3
        <3> QED
            BY <1>4, <1>7, <1>8, <1>9, <2>3, <3>4
    <2> QED
        BY <1>0, <1>7, <1>9, <2>1, <2>2, <2>3
<1>11. \A i \in DOMAIN P : Parent(P[i]) = d =>
          /\ \A k \in DOMAIN P : i <= k => Parent(P[k]) = d
          /\ Base(P[i]) < n /\ \A x \in DOMAIN w.ci : Base(P[i]) < w.ci[x]
    BY <1>2 DEF Ahead, ThisDirLast, d, n
<1>12. Together(Q)
    <2> SUFFICES ASSUME NEW i \in DOMAIN Q, NEW j \in DOMAIN Q, i < j,
                        Parent(Q[i]) = Parent(Q[j])
                 PROVE  /\ Base(Q[i]) < Base(Q[j])
                        /\ \A k \in i .. j : Parent(Q[k]) = Parent(Q[i])
        BY DEF Together
    <2>1. i \in DOMAIN P /\ Q[i] = P[i]
        BY <1>0, <1>7
    <2>2. CASE j \in DOMAIN P
        <3>1. /\ Base(P[i]) < Base(P[j])
              /\ \A k \in i .. j : Parent(P[k]) = Parent(P[i])
            BY <1>7, <2>1, <2>2 DEF Together
        <3>2. \A k \in i .. j : Q[k] = P[k]
            BY <1>0, <1>7, <2>1, <2>2
        <3> QED
            BY <1>7, <2>1, <2>2, <3>1, <3>2
    <2>3. CASE j = N + 1
        <3>1. Parent(P[i]) = d
            BY <1>4, <1>7, <2>1, <2>3
        <3>2. \A k \in i .. j : Parent(Q[k]) = d
            <4>1. \A k \in i .. j : (k \in DOMAIN P /\ i <= k) \/ k = N + 1
                <5>1. i \in 1 .. N
                    BY <1>0, <2>1
                <5>2. ASSUME NEW k \in i .. j, k # N + 1 PROVE k \in 1 .. N /\ i <= k
                    <6>1. N \in Nat /\ i \in Nat /\ 1 <= i /\ j = N + 1
                        BY <1>0, <5>1, <2>3
                    <6>2. k \in Int /\ i <= k /\ k <= N + 1
                        BY <6>1, <5>2
                    <6> QED
                        BY <6>1, <6>2, <5>2
                <5> QED
                    BY <1>0, <5>2
            <4> QED
                BY <1>4, <1>7, <1>11, <2>1, <3>1, <4>1
        <3> QED
            BY <1>4, <1>7, <1>11, <2>1, <2>3, <3>1, <3>2
    <2> QED
        BY <1>0, <1>7, <2>2, <2>3
<1>13. D \in Seq(Numbers)
       /\ \A m \in DOMAIN D : \/ m \in DOMAIN w.subdirs /\ D[m] = w.subdirs[m]
                              \/ m \notin DOMAIN w.subdirs /\ m = Len(w.subdirs) + 1 /\ D[m] = c
    <2>1. w.subdirs \in Seq(Numbers) /\ Len(w.subdirs) \in Nat
          /\ DOMAIN w.subdirs = 1 .. Len(w.subdirs)
        BY SeqLength DEF Ahead, RunShape, IsSeq
    <2>2. CASE ss = <<>>
        BY <2>1, <2>2, ConcatEmptySeq DEF D
    <2>3. CASE ss = <<c>>
        <3>1. D = Append(w.subdirs, c)
            BY <1>4, <2>1, <2>3, AppendIsConcat DEF D
        <3> QED
            BY <1>4, <2>1, <3>1, AppendSeq, AppendProperties DEF IsSeq
    <2> QED
        BY <2>2, <2>3 DEF c, d, n
<1>14. CiInOrder(v)
    <2>1. \A m, k \in DOMAIN w.ci : m < k => w.ci[m] < w.ci[k]
        BY DEF Ahead, CiInOrder
    <2>2. ASSUME NEW m \in DOMAIN T, NEW k \in DOMAIN T, m < k PROVE T[m] < T[k]
        <3>1. m + 1 < k + 1
            BY <1>2, <2>2
        <3> QED
            BY <1>2, <2>1, <3>1
    <2> QED
        BY <1>5, <2>2 DEF CiInOrder
<1>15. \A x \in DOMAIN T :
          /\ n < T[x]
          /\ \A b \in Nat : (\A y \in DOMAIN w.ci : b < w.ci[y]) => b < T[x]
    <2>1. \A m, k \in DOMAIN w.ci : m < k => w.ci[m] < w.ci[k]
        BY DEF Ahead, CiInOrder
    <2>2. ASSUME NEW x \in DOMAIN T PROVE n < T[x]
        <3>1. 1 < x + 1
            BY <1>2
        <3> QED
            BY <1>2, <2>1, <3>1 DEF n
    <2> QED
        BY <1>2, <2>2
<1>16. SubdirsBehind(v)
    <2>1. ASSUME NEW m \in DOMAIN D
          PROVE  \E b \in Nat : D[m] = Append(d, b) /\ \A x \in DOMAIN T : b < T[x]
        <3>1. CASE m \in DOMAIN w.subdirs /\ D[m] = w.subdirs[m]
            BY <1>15, <3>1 DEF Ahead, SubdirsBehind, d
        <3>2. CASE D[m] = c
            BY <1>2, <1>15, <3>2 DEF c
        <3> QED
            BY <1>13, <3>1, <3>2
    <2>2. \A m \in DOMAIN w.subdirs : w.subdirs[m] # c
        <3> SUFFICES ASSUME NEW m \in DOMAIN w.subdirs PROVE w.subdirs[m] # c
            OBVIOUS
        <3>1. PICK b \in Nat : w.subdirs[m] = Append(d, b) /\ b < n
            BY <1>2 DEF Ahead, SubdirsBehind, d, n
        <3>2. Base(Append(d, b)) = b
            BY <1>1, ChildOf
        <3>3. b # n
            BY <1>2, <3>1
        <3> QED
            BY <1>4, <3>1, <3>2, <3>3
    <2>3. ASSUME NEW m \in DOMAIN D, NEW k \in DOMAIN D, m # k PROVE D[m] # D[k]
        BY <1>13, <2>2, <2>3 DEF Ahead, SubdirsBehind
    <2> QED
        BY <1>5, <2>1, <2>3 DEF SubdirsBehind, d
<1>17. RunShape(v)
    BY <1>2, <1>5, <1>13 DEF RunShape, Ahead
<1>18. NoneAhead(Q, v)
    <2> SUFFICES ASSUME NEW i \in DOMAIN Q
                 PROVE  /\ Parent(Q[i]) = d \/ ~ Under(Parent(Q[i]), d)
                        /\ \A k \in DOMAIN w.dirs : k # 1 => ~ Under(Parent(Q[i]), w.dirs[k])
        BY <1>5 DEF NoneAhead, d
    <2>1. CASE i \in DOMAIN P
        BY <1>7, <2>1 DEF Ahead, NoneAhead, d
    <2>2. CASE i = N + 1
        BY <1>1, <1>4, <1>7, <2>2 DEF Ahead, RunShape, Apart, d
    <2> QED
        BY <1>0, <1>7, <2>1, <2>2
<1>19. ThisDirLast(Q, v)
    <2>1. Q # <<>> /\ Parent(Q[Len(Q)]) = d
        BY <1>4, <1>0, <1>7
    <2>2. ASSUME NEW i \in DOMAIN Q, Parent(Q[i]) = d
          PROVE  /\ \A k \in DOMAIN Q : i <= k => Parent(Q[k]) = d
                 /\ \A x \in DOMAIN T : Base(Q[i]) < T[x]
        <3>1. CASE i \in DOMAIN P
            <4>1. Parent(P[i]) = d /\ Q[i] = P[i]
                BY <1>7, <2>2, <3>1
            <4>2. \A k \in DOMAIN Q : i <= k => Parent(Q[k]) = d
                BY <1>4, <1>0, <1>7, <1>11, <3>1, <4>1
            <4>3. \A x \in DOMAIN T : Base(Q[i]) < T[x]
                BY <1>2, <1>11, <3>1, <4>1
            <4> QED
                BY <4>2, <4>3
        <3>2. CASE i = N + 1
            BY <1>4, <1>0, <1>7, <1>15, <3>2
        <3> QED
            BY <1>0, <1>7, <3>1, <3>2
    <2> QED
        BY <1>5, <2>1, <2>2 DEF ThisDirLast, d
<1>20. Ahead(Q, v)
    BY <1>14, <1>16, <1>17, <1>18, <1>19 DEF Ahead
<1> QED
    BY <1>10, <1>12, <1>20 DEF v, L, Q, c, d, n


\* The next directory is entered: none of those that wait is in another, and
\* no line is of any of them.
LEMMA EnterNext ==
    ASSUME NEW ls, NEW P, NEW w, Describes(ls, P), Ahead(P, w),
           w.subdirs \o Tail(w.dirs) # <<>>
    PROVE  Ahead(P, Entered(w.subdirs \o Tail(w.dirs)))
<1> DEFINE d == w.dirs[1]
           T == Tail(w.dirs)
           W == w.subdirs \o T
           v == Entered(W)
<1>1. /\ w.dirs \in Seq(Numbers) /\ w.dirs # <<>> /\ Apart(w.dirs)
      /\ w.subdirs \in Seq(Numbers) /\ Len(w.subdirs) \in Nat
    BY LenProperties DEF Ahead, RunShape
<1>2. /\ T \in Seq(Numbers) /\ 1 \in DOMAIN w.dirs /\ d \in Numbers
      /\ \A i \in DOMAIN T : i \in Nat \ {0} /\ i + 1 \in DOMAIN w.dirs /\ T[i] = w.dirs[i + 1]
    BY <1>1, TailSeq
<1> HIDE DEF T, d
<1>3. /\ W \in Seq(Numbers)
      /\ \A i \in DOMAIN W : \/ i \in DOMAIN w.subdirs /\ W[i] = w.subdirs[i]
                             \/ /\ i \in Nat /\ i - Len(w.subdirs) \in DOMAIN T
                                /\ W[i] = T[i - Len(w.subdirs)]
    BY <1>1, <1>2, ConcatSeq
<1> HIDE DEF W
<1>4. W # <<>>
    BY DEF W, T
<1>5. v = [pc |-> "list", dirs |-> W, names |-> {}, s |-> EmptyMap, ci |-> <<>>,
           first |-> TRUE, subdirs |-> <<>>]
    BY <1>4 DEF Entered
<1> HIDE DEF v
<1>6. IsRun(v)
    BY <1>5 DEF IsRun
<1>7. /\ v.pc = "list" /\ v.dirs = W /\ v.s = EmptyMap /\ v.ci = <<>> /\ v.first = TRUE
      /\ v.subdirs = <<>>
    BY <1>5
<1>8. ASSUME NEW m \in DOMAIN w.subdirs
      PROVE  \E b \in Nat : w.subdirs[m] = Append(d, b)
    BY DEF Ahead, SubdirsBehind, d
<1>9. ASSUME NEW m \in DOMAIN w.subdirs, NEW x \in Numbers
      PROVE  /\ Under(w.subdirs[m], x) => x = w.subdirs[m] \/ Under(d, x)
             /\ Under(x, w.subdirs[m]) => Under(x, d)
             /\ ~ Under(d, w.subdirs[m])
    <2>1. PICK b \in Nat : w.subdirs[m] = Append(d, b)
        BY <1>8
    <2>2. /\ Under(Append(d, b), x) => x = Append(d, b) \/ Under(d, x)
          /\ Under(x, Append(d, b)) => Under(x, d)
          /\ ~ Under(d, Append(d, b))
        BY <1>2, UnderChild
    <2> QED
        BY <2>1, <2>2
<1>10. Apart(W)
    <2>1. ASSUME NEW i \in DOMAIN w.subdirs, NEW j \in DOMAIN w.subdirs, i # j
          PROVE  ~ Under(w.subdirs[i], w.subdirs[j])
        <3>1. w.subdirs[i] # w.subdirs[j] /\ w.subdirs[j] \in Numbers
            BY <1>1, <2>1, ElementOfSeq, LenProperties DEF Ahead, SubdirsBehind
        <3> QED
            BY <1>9, <3>1
    <2>2. ASSUME NEW i \in DOMAIN w.subdirs, NEW j \in DOMAIN T
          PROVE  ~ Under(w.subdirs[i], T[j]) /\ ~ Under(T[j], w.subdirs[i])
        <3>1. /\ j + 1 \in DOMAIN w.dirs /\ j + 1 # 1 /\ T[j] = w.dirs[j + 1]
            BY <1>2
        <3>2. ~ Under(d, T[j]) /\ ~ Under(T[j], d)
            BY <1>1, <1>2, <3>1 DEF Apart, d
        <3>3. T[j] \in Numbers
            BY <1>1, <3>1, ElementOfSeq, LenProperties
        <3>4. T[j] # w.subdirs[i]
            <4>1. Under(T[j], T[j])
                BY <3>3, UnderSelf
            <4> QED
                BY <1>9, <3>2, <3>3, <4>1
        <3> QED
            BY <1>9, <3>2, <3>3, <3>4
    <2>3. ASSUME NEW i \in DOMAIN T, NEW j \in DOMAIN T, i # j
          PROVE  ~ Under(T[i], T[j])
        <3>1. /\ i + 1 \in DOMAIN w.dirs /\ j + 1 \in DOMAIN w.dirs /\ i + 1 # j + 1
              /\ T[i] = w.dirs[i + 1] /\ T[j] = w.dirs[j + 1]
            BY <1>2, <2>3
        <3> QED
            BY <1>1, <3>1 DEF Apart
    <2> SUFFICES ASSUME NEW i \in DOMAIN W, NEW j \in DOMAIN W, i # j
                 PROVE  ~ Under(W[i], W[j])
        BY DEF Apart
    <2> DEFINE n == Len(w.subdirs)
    <2>4. i - n # j - n \/ i \notin Nat \/ j \notin Nat
        BY <1>1
    <2>5. \/ i \in DOMAIN w.subdirs /\ W[i] = w.subdirs[i]
          \/ i \in Nat /\ i - n \in DOMAIN T /\ W[i] = T[i - n]
        BY <1>3
    <2>6. \/ j \in DOMAIN w.subdirs /\ W[j] = w.subdirs[j]
          \/ j \in Nat /\ j - n \in DOMAIN T /\ W[j] = T[j - n]
        BY <1>3
    <2> HIDE DEF n
    <2> QED
        BY <2>1, <2>2, <2>3, <2>4, <2>5, <2>6
<1>11. \A i \in DOMAIN P, k \in DOMAIN W : ~ Under(Parent(P[i]), W[k])
    <2> SUFFICES ASSUME NEW i \in DOMAIN P, NEW k \in DOMAIN W
                 PROVE  ~ Under(Parent(P[i]), W[k])
        OBVIOUS
    <2> DEFINE x == Parent(P[i])
    <2>1. /\ x = d \/ ~ Under(x, d)
          /\ \A m \in DOMAIN w.dirs : m # 1 => ~ Under(x, w.dirs[m])
        BY DEF Ahead, NoneAhead, d
    <2>2. ASSUME NEW m \in DOMAIN w.subdirs PROVE ~ Under(x, w.subdirs[m])
        <3>1. x \in Numbers
            <4>1. P[i] \in Numbers /\ P[i] # Root
                BY ElementOfSeq, LenProperties DEF Describes
            <4> QED
                BY <4>1, ParentOf
        <3> QED
            BY <1>9, <2>1, <3>1
    <2>3. ASSUME NEW m \in DOMAIN T PROVE ~ Under(x, T[m])
        <3>1. m + 1 \in DOMAIN w.dirs /\ m + 1 # 1 /\ T[m] = w.dirs[m + 1]
            BY <1>2
        <3> QED
            BY <2>1, <3>1
    <2> HIDE DEF x
    <2>4. ~ Under(x, W[k])
        BY <1>3, <2>2, <2>3
    <2> QED
        BY <2>4 DEF x
<1>12. 1 \in DOMAIN W /\ Under(W[1], W[1])
    <2>1. 1 \in DOMAIN W /\ W[1] \in Numbers
        BY <1>3, <1>4, TailSeq
    <2> QED
        BY <2>1, UnderSelf
<1>13. RunShape(v)
    <2>1. /\ <<>> \in Seq(Numbers) /\ <<>> \in Seq(Nat)
          /\ DOMAIN EmptyMap = {} /\ IsFiniteSet({})
        BY EmptySeq, FS_EmptySet DEF EmptyMap
    <2> QED
        BY <1>3, <1>4, <1>6, <1>7, <1>10, <2>1 DEF RunShape
<1>14. NoneAhead(P, v)
    BY <1>7, <1>11, <1>12 DEF NoneAhead
<1>15. ThisDirLast(P, v)
    <2>1. \A i \in DOMAIN P : Parent(P[i]) # W[1]
        BY <1>11, <1>12
    <2> QED
        BY <1>7, <2>1 DEF ThisDirLast
<1>16. CiInOrder(v) /\ SubdirsBehind(v)
    <2>1. DOMAIN v.ci = {} /\ DOMAIN v.subdirs = {}
        BY <1>7
    <2> QED
        BY <2>1 DEF CiInOrder, SubdirsBehind
<1> QED
    BY <1>13, <1>14, <1>15, <1>16 DEF Ahead, v, W, T


\* The names of the directory are all known, and sorted.
LEMMA SortNames ==
    ASSUME NEW P, NEW w, Ahead(P, w), w.pc # "line", NEW ci \in Sorted(DOMAIN w.s)
    PROVE  Ahead(P, [w EXCEPT !.pc = "line", !.ci = ci])
<1>1. w.first /\ w.subdirs = <<>> /\ IsRun(w) /\ w.first \in BOOLEAN
    BY DEF Ahead, RunShape
<1>2. PICK v : v = [w EXCEPT !.pc = "line", !.ci = ci]
    OBVIOUS
<1>3. /\ v.pc = "line" /\ v.dirs = w.dirs /\ v.s = w.s /\ v.ci = ci /\ v.first = w.first
      /\ v.subdirs = <<>> /\ IsRun(v)
    <2>1. PICK pc, dirs, names, s, c, f, b :
             w = [pc |-> pc, dirs |-> dirs, names |-> names, s |-> s, ci |-> c,
                  first |-> f, subdirs |-> b]
        BY <1>1 DEF IsRun
    <2>2. PICK u : u = [w EXCEPT !.pc = "line"]
        OBVIOUS
    <2>3. u = [pc |-> "line", dirs |-> dirs, names |-> names, s |-> s, ci |-> c,
               first |-> f, subdirs |-> b]
        BY <2>1, <2>2
    <2>4. v = [u EXCEPT !.ci = ci]
        BY <1>2, <2>2
    <2>5. v = [pc |-> "line", dirs |-> dirs, names |-> names, s |-> s, ci |-> ci,
               first |-> f, subdirs |-> b]
        BY <2>3, <2>4
    <2>6. w.subdirs = b /\ w.s = s /\ w.dirs = dirs /\ w.first = f
        BY <2>1
    <2> QED
        BY <1>1, <2>5, <2>6 DEF IsRun
<1>4. /\ ci \in Seq(Nat)
      /\ \A m, n \in DOMAIN ci : m < n => ci[m] < ci[n]
    <2>1. Cardinality(DOMAIN w.s) \in Nat /\ DOMAIN w.s \subseteq Nat
        BY FS_CardinalityType DEF Ahead, RunShape
    <2>2. /\ ci \in [1 .. Cardinality(DOMAIN w.s) -> DOMAIN w.s]
          /\ \A m, n \in DOMAIN ci : m < n => ci[m] < ci[n]
        BY DEF Sorted
    <2>3. ci \in Seq(DOMAIN w.s)
        BY <2>1, <2>2, SeqDef
    <2> QED
        BY <2>1, <2>2, <2>3, SeqMonotonic
<1>5. RunShape(v)
    BY <1>3, <1>4 DEF Ahead, RunShape
<1>6. CiInOrder(v)
    BY <1>3, <1>4 DEF CiInOrder
<1>7. SubdirsBehind(v)
    <2>1. DOMAIN v.subdirs = {}
        BY <1>3
    <2> QED
        BY <2>1 DEF SubdirsBehind
<1>8. NoneAhead(P, v)
    BY <1>3 DEF Ahead, NoneAhead
<1>9. ThisDirLast(P, v)
    BY <1>1, <1>3 DEF Ahead, ThisDirLast
<1> QED
    BY <1>2, <1>5, <1>6, <1>7, <1>8, <1>9 DEF Ahead

\* A listing, or what lstat said of a name.
LEMMA LookUp ==
    ASSUME NEW P, NEW w, NEW v, Ahead(P, w), w.pc # "line", v.pc # "line",
           IsRun(v), v.dirs = w.dirs, v.ci = w.ci, v.first = w.first, v.subdirs = w.subdirs,
           \/ v.s = w.s
           \/ \E n \in Nat : \E st : v.s = Put(w.s, n, st)
    PROVE  Ahead(P, v)
<1>1. DOMAIN v.s \subseteq Nat /\ IsFiniteSet(DOMAIN v.s)
    <2>1. DOMAIN w.s \subseteq Nat /\ IsFiniteSet(DOMAIN w.s)
        BY DEF Ahead, RunShape
    <2>2. ASSUME NEW n \in Nat, NEW st, v.s = Put(w.s, n, st)
          PROVE  DOMAIN v.s \subseteq Nat /\ IsFiniteSet(DOMAIN v.s)
        <3>1. DOMAIN v.s = DOMAIN w.s \cup {n}
            BY <2>2 DEF Put
        <3> QED
            BY <2>1, <3>1, FS_AddElement
    <2> QED
        BY <2>1, <2>2
<1>2. RunShape(v)
    BY <1>1 DEF Ahead, RunShape
<1> QED
    BY <1>2 DEF Ahead, CiInOrder, SubdirsBehind, NoneAhead, ThisDirLast


----------------------------------------------------------------------------
(***************************************************************************)
(* Every step.                                                             *)
(***************************************************************************)
LEMMA ListedRun ==
    ASSUME NEW w, NEW pc, NEW names, NEW x, IsRun(w),
           x = [w EXCEPT !.pc = pc, !.names = names]
    PROVE  x = [pc |-> pc, dirs |-> w.dirs, names |-> names, s |-> w.s, ci |-> w.ci,
                first |-> w.first, subdirs |-> w.subdirs]
<1>1. PICK p, dirs, n, s, c, f, b :
         w = [pc |-> p, dirs |-> dirs, names |-> n, s |-> s, ci |-> c, first |-> f, subdirs |-> b]
    BY DEF IsRun
<1>2. PICK u : u = [w EXCEPT !.pc = pc]
    OBVIOUS
<1>3. u = [pc |-> pc, dirs |-> dirs, names |-> n, s |-> s, ci |-> c, first |-> f, subdirs |-> b]
    BY <1>1, <1>2
<1>4. x = [u EXCEPT !.names = names]
    BY <1>2
<1>5. x = [pc |-> pc, dirs |-> dirs, names |-> names, s |-> s, ci |-> c, first |-> f, subdirs |-> b]
    BY <1>3, <1>4
<1> QED
    BY <1>1, <1>5

LEMMA StattedRun ==
    ASSUME NEW w, NEW names, NEW s, NEW x, IsRun(w),
           x = [w EXCEPT !.names = names, !.s = s]
    PROVE  x = [pc |-> w.pc, dirs |-> w.dirs, names |-> names, s |-> s, ci |-> w.ci,
                first |-> w.first, subdirs |-> w.subdirs]
<1>1. PICK p, dirs, n, t, c, f, b :
         w = [pc |-> p, dirs |-> dirs, names |-> n, s |-> t, ci |-> c, first |-> f, subdirs |-> b]
    BY DEF IsRun
<1>2. PICK u : u = [w EXCEPT !.names = names]
    OBVIOUS
<1>3. u = [pc |-> p, dirs |-> dirs, names |-> names, s |-> t, ci |-> c, first |-> f, subdirs |-> b]
    BY <1>1, <1>2
<1>4. x = [u EXCEPT !.s = s]
    BY <1>2
<1>5. x = [pc |-> p, dirs |-> dirs, names |-> names, s |-> s, ci |-> c, first |-> f, subdirs |-> b]
    BY <1>3, <1>4
<1> QED
    BY <1>1, <1>5

\* An exception or a signal ends the run with the lines it had written out.
LEMMA DieInv ==
    ASSUME WalkInv, Walking, Die
    PROVE  WalkInv'
<1>1. PICK P : Describes(lines, P) /\ Together(P) /\ Ahead(P, walk)
    BY DEF WalkInv, Active, Walking
<1>2. PICK k \in 0 .. Len(lines) : lines' = SubSeq(lines, 1, k)
    BY DEF Die
<1>3. PICK Q : Describes(lines', Q) /\ Together(Q)
    BY <1>1, <1>2, CutLines
<1>4. walk'.pc = "dead"
    <2>1. IsRun(walk)
        BY <1>1 DEF Ahead, RunShape
    <2>2. PICK p, dirs, n, t, c, f, b :
             walk = [pc |-> p, dirs |-> dirs, names |-> n, s |-> t, ci |-> c,
                     first |-> f, subdirs |-> b]
        BY <2>1 DEF IsRun
    <2>3. walk' = [walk EXCEPT !.pc = "dead"]
        BY DEF Die
    <2> QED
        BY <2>2, <2>3
<1> QED
    BY <1>3, <1>4 DEF WalkInv, Active

LEMMA WriteInv ==
    ASSUME WalkInv, Writing, NEW data, NEW sha1, NEW subdirs \in {<<>>, <<This>>},
           Write(data, sha1, subdirs)
    PROVE  WalkInv'
<1>1. PICK P : Describes(lines, P) /\ Together(P) /\ Ahead(P, walk)
    BY DEF WalkInv, Active, Writing
<1>2. Dir = walk.dirs[1] /\ Head(walk.ci) = walk.ci[1] /\ walk.pc = "line" /\ walk.ci # <<>>
    BY <1>1, TailSeq DEF Ahead, RunShape, Writing, Dir
<1>3. This = Append(walk.dirs[1], walk.ci[1])
    BY <1>2 DEF This, Full
<1>4. NewLine(data, sha1).name =
         IF walk.first \/ walk.dirs[1] = Root
         THEN [rel |-> FALSE, path |-> Append(walk.dirs[1], walk.ci[1])]
         ELSE [rel |-> TRUE, path |-> <<Base(Append(walk.dirs[1], walk.ci[1]))>>]
    BY <1>2, <1>3 DEF NewLine, Relname
<1>5. PICK l : l = NewLine(data, sha1)
    OBVIOUS
<1>6. /\ lines' = Append(lines, l)
      /\ walk' = [walk EXCEPT !.ci = Tail(@), !.first = FALSE, !.subdirs = @ \o subdirs]
    BY <1>5 DEF Write
<1>7. subdirs \in {<<>>, <<Append(walk.dirs[1], walk.ci[1])>>}
    BY <1>3
<1>8. PICK Q : /\ Describes(Append(lines, l), Q) /\ Together(Q)
               /\ Ahead(Q, [walk EXCEPT !.ci = Tail(@), !.first = FALSE,
                                        !.subdirs = @ \o subdirs])
    BY <1>1, <1>2, <1>4, <1>5, <1>7, AppendLine
<1>9. Describes(lines', Q) /\ Together(Q) /\ Ahead(Q, walk')
    BY <1>6, <1>8
<1> QED
    BY <1>9 DEF WalkInv

LEMMA DirDoneInv ==
    ASSUME WalkInv, DirDone
    PROVE  WalkInv'
<1>1. PICK P : Describes(lines, P) /\ Together(P) /\ Ahead(P, walk)
    BY DEF WalkInv, Active, DirDone
<1>2. walk' = Entered(walk.subdirs \o Tail(walk.dirs)) /\ lines' = lines
    BY DEF DirDone, Waiting
<1>3. CASE walk.subdirs \o Tail(walk.dirs) = <<>>
    <2>1. walk'.pc = "done"
        BY <1>2, <1>3 DEF Entered
    <2> QED
        BY <1>1, <1>2, <2>1 DEF WalkInv, Active
<1>4. CASE walk.subdirs \o Tail(walk.dirs) # <<>>
    <2>1. Ahead(P, walk')
        BY <1>1, <1>2, <1>4, EnterNext
    <2> QED
        BY <1>1, <1>2, <2>1 DEF WalkInv
<1> QED
    BY <1>3, <1>4

LEMMA ListInv ==
    ASSUME WalkInv, Contents \/ (\E n \in Name : Lstat(n)) \/ Sort
    PROVE  WalkInv'
<1>1. walk.pc \in {"list", "lstat"} /\ lines' = lines
    BY DEF Contents, Lstat, Sort
<1>2. PICK P : Describes(lines, P) /\ Together(P) /\ Ahead(P, walk)
    BY <1>1 DEF WalkInv, Active
<1>3. IsRun(walk) /\ walk.pc # "line"
    BY <1>1, <1>2 DEF Ahead, RunShape
<1>4. CASE Contents
    <2>1. PICK names : walk' = [walk EXCEPT !.pc = "lstat", !.names = names]
        BY <1>4 DEF Contents
    <2>2. /\ IsRun(walk') /\ walk'.pc = "lstat" /\ walk'.s = walk.s
          /\ walk'.dirs = walk.dirs /\ walk'.ci = walk.ci /\ walk'.first = walk.first
          /\ walk'.subdirs = walk.subdirs
        <3>1. PICK w, x : w = walk /\ x = walk'
            OBVIOUS
        <3>2. IsRun(w) /\ x = [w EXCEPT !.pc = "lstat", !.names = names]
            BY <1>3, <2>1, <3>1
        <3>3. /\ IsRun(x) /\ x.pc = "lstat" /\ x.s = w.s
              /\ x.dirs = w.dirs /\ x.ci = w.ci /\ x.first = w.first /\ x.subdirs = w.subdirs
            <4>1. x = [pc |-> "lstat", dirs |-> w.dirs, names |-> names, s |-> w.s, ci |-> w.ci,
                       first |-> w.first, subdirs |-> w.subdirs]
                BY <3>2, ListedRun
            <4> QED
                BY <4>1 DEF IsRun
        <3> QED
            BY <3>1, <3>3
    <2>3. Ahead(P, walk')
        BY <1>2, <1>3, <2>2, LookUp
    <2> QED
        BY <1>1, <1>2, <2>3 DEF WalkInv
<1>5. ASSUME NEW n \in Name, Lstat(n) PROVE WalkInv'
    <2>1. PICK names, s : /\ walk' = [walk EXCEPT !.names = names, !.s = s]
                          /\ s = walk.s \/ \E st : s = Put(walk.s, n, st)
        BY <1>5 DEF Lstat
    <2>2. /\ IsRun(walk') /\ walk'.pc = walk.pc /\ walk'.s = s
          /\ walk'.dirs = walk.dirs /\ walk'.ci = walk.ci /\ walk'.first = walk.first
          /\ walk'.subdirs = walk.subdirs
        <3>1. PICK w, x : w = walk /\ x = walk'
            OBVIOUS
        <3>2. IsRun(w) /\ x = [w EXCEPT !.names = names, !.s = s]
            BY <1>3, <2>1, <3>1
        <3>3. /\ IsRun(x) /\ x.pc = w.pc /\ x.s = s
              /\ x.dirs = w.dirs /\ x.ci = w.ci /\ x.first = w.first /\ x.subdirs = w.subdirs
            <4>1. x = [pc |-> w.pc, dirs |-> w.dirs, names |-> names, s |-> s, ci |-> w.ci,
                       first |-> w.first, subdirs |-> w.subdirs]
                BY <3>2, StattedRun
            <4> QED
                BY <4>1 DEF IsRun
        <3> QED
            BY <3>1, <3>3
    <2>3. n \in Nat
        BY PathIsNumbers
    <2>4. Ahead(P, walk')
        BY <1>2, <1>3, <2>1, <2>2, <2>3, LookUp
    <2> QED
        BY <1>1, <1>2, <2>4 DEF WalkInv
<1>6. CASE Sort
    <2>1. PICK ci \in Sorted(DOMAIN walk.s) : walk' = [walk EXCEPT !.pc = "line", !.ci = ci]
        BY <1>6 DEF Sort
    <2>2. Ahead(P, walk')
        BY <1>2, <1>3, <2>1, SortNames
    <2> QED
        BY <1>1, <1>2, <2>2 DEF WalkInv
<1> QED
    BY <1>4, <1>5, <1>6

LEMMA WalkInvStep ==
    ASSUME WalkInv, [Next]_vars
    PROVE  WalkInv'
<1>1. ASSUME UNCHANGED <<walk, lines>> PROVE WalkInv'
    BY <1>1 DEF WalkInv
<1>2. CASE WalkStep
    <2>1. CASE Contents \/ (\E n \in Name : Lstat(n)) \/ Sort
        BY <2>1, ListInv
    <2>2. CASE ContentsFails \/ LstatFails \/ WriteFails
        BY <2>2, DieInv DEF ContentsFails, LstatFails, WriteFails, Walking, Writing
    <2>3. CASE WriteFile
        BY <2>3, WriteInv DEF WriteFile
    <2>4. CASE WriteDir
        BY <2>4, WriteInv DEF WriteDir
    <2>5. CASE WriteLink \/ WriteSpecial
        BY <2>5, WriteInv DEF WriteLink, WriteSpecial
    <2>6. CASE DirDone
        BY <2>6, DirDoneInv
    <2> QED
        BY <1>2, <2>1, <2>2, <2>3, <2>4, <2>5, <2>6 DEF WalkStep
<1>3. CASE WalkDies
    BY <1>3, DieInv, SMTT(60) DEF WalkDies
<1>4. CASE Change
    BY <1>1, <1>4, ZenonT(60) DEF Change, Create, Edit, Unlink, AddLink, Rename, Becomes
<1>5. CASE RestoreStarts \/ RestoreRuns \/ RestoreDies \/ LoseObject \/ UNCHANGED vars
    BY <1>1, <1>5 DEF RestoreStarts, RestoreRuns, RestoreDies, LoseObject, vars, wvars
<1> QED
    BY <1>2, <1>3, <1>4, <1>5 DEF Next, Backup, BackupDies, Users

LEMMA WalkInvInit ==
    ASSUME Init
    PROVE  WalkInv
<1>1. lines = <<>> /\ walk = Entered(<<Root>>)
    BY DEF Init, WalkInit
<1>2. PICK v : v = walk
    OBVIOUS
<1>3. v = [pc |-> "list", dirs |-> <<Root>>, names |-> {}, s |-> EmptyMap, ci |-> <<>>,
           first |-> TRUE, subdirs |-> <<>>]
    BY <1>1, <1>2 DEF Entered
<1>4. /\ IsRun(v) /\ v.pc = "list" /\ v.dirs = <<Root>> /\ v.s = EmptyMap /\ v.ci = <<>>
      /\ v.first = TRUE /\ v.subdirs = <<>>
    BY <1>3 DEF IsRun
<1>5. /\ <<>> \in Seq(Numbers) /\ <<>> \in Seq(Nat) /\ IsSeq(<<>>)
      /\ DOMAIN EmptyMap = {} /\ IsFiniteSet({})
    BY EmptySeq, FS_EmptySet DEF EmptyMap, IsSeq
<1>6. <<Root>> \in Seq(Numbers) /\ <<Root>> # <<>> /\ Apart(<<Root>>)
    <2>1. PICK r \in Numbers : r = Root
        BY PathIsNumbers
    <2>2. <<r>> \in Seq(Numbers) /\ <<r>> # <<>> /\ Apart(<<r>>)
        BY DEF Apart
    <2> QED
        BY <2>1, <2>2
<1>7. RunShape(v)
    BY <1>4, <1>5, <1>6 DEF RunShape
<1>8. DOMAIN <<>> = {} /\ Len(<<>>) = Len(<<>>)
    OBVIOUS
<1>9. Ahead(<<>>, v)
    BY <1>4, <1>7, <1>8 DEF Ahead, CiInOrder, SubdirsBehind, NoneAhead, ThisDirLast
<1>10. Describes(<<>>, <<>>) /\ Together(<<>>)
    BY <1>5, <1>8 DEF Describes, Together
<1> QED
    BY <1>1, <1>2, <1>9, <1>10 DEF WalkInv

LEMMA TogetherOfInv ==
    ASSUME WalkInv
    PROVE  DirectoriesTogether
<1>1. PICK P : Describes(lines, P) /\ Together(P)
    BY DEF WalkInv
<1>2. DOMAIN lines = DOMAIN P /\ DOMAIN P = 1 .. Len(P) /\ Len(P) \in Nat
    BY <1>1, SeqLength DEF Describes, IsSeq
<1>3. \A i \in DOMAIN P : LinePath(i) = P[i]
    BY <1>1, PathOfLine
<1>4. \A i, j \in DOMAIN P : \A k \in i .. j : k \in DOMAIN P
    BY <1>2
<1> QED
    BY <1>1, <1>2, <1>3, <1>4 DEF DirectoriesTogether, Together

\* Whatever happens to the tree while it is walked, and wherever the run dies,
\* the lines of the files in one directory follow one another in the index,
\* sorted by name, as backup_dir's sort and its queue of subdirectories mean
\* them to (backup.cc:180, 291, 347-362).
THEOREM DirectoriesInOrder == Spec => []DirectoriesTogether
<1>1. Init => WalkInv
    BY WalkInvInit
<1>2. WalkInv /\ [Next]_vars => WalkInv'
    BY WalkInvStep
<1>3. WalkInv => DirectoriesTogether
    BY TogetherOfInv
<1> QED
    BY <1>1, <1>2, <1>3, PTL DEF Spec

----------------------------------------------------------------------------
(***************************************************************************)
(* The tree below the root of the restore, and what the calls do to it.    *)
(***************************************************************************)
NodeOK(n) == \E kind, data, mtime, id :
                n = [kind |-> kind, data |-> data, mtime |-> mtime, id |-> id]

\* o is a tree of files: whatever has something in it is a directory.
OutTree(o) ==
    /\ o = [p \in DOMAIN o |-> o[p]]
    /\ \A p \in DOMAIN o :
          /\ p \in Numbers /\ p # Root /\ NodeOK(o[p])
          /\ \/ Parent(p) = Root
             \/ Parent(p) \in DOMAIN o /\ o[Parent(p)].kind = "dir"

\* From o to u all files but those of X keep their kind, or go, and regular
\* files stay as they are.
Keeps(o, u, X) ==
    \A q \in DOMAIN u \ X :
       /\ q \in DOMAIN o /\ u[q].kind = o[q].kind
       /\ o[q].kind = "file" => u[q] = o[q]

\* The module Restore has the operators of IndexLine once more.
LEMMA SameOperators ==
    /\ \A p : R!Parent(p) = Parent(p) /\ R!Base(p) = Base(p) /\ R!Tmpname(p) = Tmpname(p)
    /\ \A p, q : R!Below(p, q) = Below(p, q)
    /\ \A m, k, v : R!Put(m, k, v) = Put(m, k, v)
    /\ \A m, k : R!Drop(m, k) = Drop(m, k)
    /\ R!Root = Root /\ R!EmptyMap = EmptyMap /\ R!Bytes = Bytes
BY DEF R!Parent, Parent, R!Base, Base, R!Tmpname, Tmpname, R!Below, Below, R!Put, Put,
       R!Drop, Drop, R!Root, Root, R!EmptyMap, EmptyMap, R!Bytes, Bytes

\* A temporary file is beside the file it is made for, and sorts after it.
LEMMA TmpnameOf ==
    ASSUME NEW p \in Numbers, p # Root
    PROVE  /\ Tmpname(p) \in Numbers /\ Tmpname(p) # Root /\ Tmpname(p) # p
           /\ Parent(Tmpname(p)) = Parent(p) /\ Base(Tmpname(p)) = Base(p) + 1
           /\ Parent(p) # p
<1>1. Parent(p) \in Numbers /\ Base(p) \in Nat /\ p = Append(Parent(p), Base(p))
    BY ParentOf
<1>2. Base(p) + 1 \in Nat /\ Base(p) + 1 # Base(p)
    BY <1>1
<1>3. Parent(p) # p
    <2>1. PICK d \in Numbers, n \in Nat : d = Parent(p) /\ p = Append(d, n)
        BY <1>1
    <2>2. Len(d) \in Nat /\ Len(Append(d, n)) = Len(d) + 1
        BY ChildOf
    <2> QED
        BY <2>1, <2>2
<1>4. PICK t : t = Tmpname(p)
    OBVIOUS
<1>5. t \in Numbers /\ t # Root /\ Parent(t) = Parent(p) /\ Base(t) = Base(p) + 1
    BY <1>1, <1>2, <1>4, ChildOf DEF Tmpname
<1> QED
    BY <1>2, <1>3, <1>4, <1>5

\* What is in p is below p.
LEMMA BelowParent ==
    ASSUME NEW q \in Numbers, q # Root, NEW p \in Numbers, Parent(q) = p
    PROVE  Below(p, q)
<1>1. PICK n \in Nat : q = Append(p, n)
    BY ParentOf
<1>2. Len(p) \in Nat /\ Len(q) = Len(p) + 1
    BY <1>1, ChildOf
<1>3. Len(p) = Len(q) - 1 /\ Len(p) < Len(q)
    BY <1>2
<1> QED
    BY <1>3 DEF Below, Parent

LEMMA TouchNode ==
    ASSUME NEW n, NodeOK(n), NEW t
    PROVE  /\ NodeOK([n EXCEPT !.mtime = t]) /\ [n EXCEPT !.mtime = t].kind = n.kind
           /\ [n EXCEPT !.mtime = t].data = n.data /\ [n EXCEPT !.mtime = t].mtime = t
<1>1. PICK kind, data, mtime, id :
         n = [kind |-> kind, data |-> data, mtime |-> mtime, id |-> id]
    BY DEF NodeOK
<1>2. PICK x : x = [n EXCEPT !.mtime = t]
    OBVIOUS
<1>3. x = [kind |-> kind, data |-> data, mtime |-> t, id |-> id]
    BY <1>1, <1>2
<1>4. n.kind = kind /\ n.data = data
    BY <1>1
<1>5. NodeOK(x) /\ x.kind = kind /\ x.data = data /\ x.mtime = t
    BY <1>3 DEF NodeOK
<1> QED
    BY <1>2, <1>4, <1>5

LEMMA FillNode ==
    ASSUME NEW n, NodeOK(n), NEW d
    PROVE  /\ NodeOK([n EXCEPT !.data = d]) /\ [n EXCEPT !.data = d].kind = n.kind
           /\ [n EXCEPT !.data = d].data = d
<1>1. PICK kind, data, mtime, id :
         n = [kind |-> kind, data |-> data, mtime |-> mtime, id |-> id]
    BY DEF NodeOK
<1>2. PICK x : x = [n EXCEPT !.data = d]
    OBVIOUS
<1>3. x = [kind |-> kind, data |-> d, mtime |-> mtime, id |-> id]
    BY <1>1, <1>2
<1>4. n.kind = kind
    BY <1>1
<1>5. NodeOK(x) /\ x.kind = kind /\ x.data = d
    BY <1>3 DEF NodeOK
<1> QED
    BY <1>2, <1>4, <1>5

\* The node n in place of that of t, of the same kind.
LEMMA EditTree ==
    ASSUME NEW o, OutTree(o), NEW t \in DOMAIN o, NEW n, NodeOK(n), n.kind = o[t].kind,
           NEW u, u = [o EXCEPT ![t] = n]
    PROVE  /\ OutTree(u) /\ Keeps(o, u, {t}) /\ DOMAIN u = DOMAIN o /\ u[t] = n
           /\ \A q \in DOMAIN o : u[q].kind = o[q].kind /\ (q # t => u[q] = o[q])
<1>1. /\ DOMAIN u = DOMAIN o /\ u = [q \in DOMAIN u |-> u[q]] /\ u[t] = n
      /\ \A q \in DOMAIN o : q # t => u[q] = o[q]
    BY DEF OutTree
<1>2. \A q \in DOMAIN o : u[q].kind = o[q].kind /\ NodeOK(u[q])
    BY <1>1 DEF OutTree
<1>3. OutTree(u)
    BY <1>1, <1>2 DEF OutTree
<1> QED
    BY <1>1, <1>2, <1>3 DEF Keeps

\* A call in a directory changes its time.
LEMMA TouchTree ==
    ASSUME NEW o, OutTree(o), NEW d, d \in DOMAIN o => o[d].kind # "file"
    PROVE  /\ OutTree(R!Touched(o, d)) /\ Keeps(o, R!Touched(o, d), {})
           /\ DOMAIN R!Touched(o, d) = DOMAIN o
           /\ \A q \in DOMAIN o : R!Touched(o, d)[q].kind = o[q].kind
           /\ \A q \in DOMAIN o : q # d => R!Touched(o, d)[q] = o[q]
<1>1. CASE d \notin DOMAIN o
    BY <1>1 DEF R!Touched, Keeps
<1>2. CASE d \in DOMAIN o
    <2>1. PICK n : n = [o[d] EXCEPT !.mtime = Now]
        OBVIOUS
    <2>2. NodeOK(n) /\ n.kind = o[d].kind
        BY <1>2, <2>1, TouchNode DEF OutTree
    <2>3. PICK u : u = [o EXCEPT ![d] = n]
        OBVIOUS
    <2>4. R!Touched(o, d) = u
        BY <1>2, <2>1, <2>3 DEF R!Touched
    <2>5. /\ OutTree(u) /\ DOMAIN u = DOMAIN o
          /\ \A q \in DOMAIN o : u[q].kind = o[q].kind /\ (q # d => u[q] = o[q])
        BY <1>2, <2>2, <2>3, EditTree
    <2>6. Keeps(o, u, {})
        BY <2>5 DEF Keeps
    <2> QED
        BY <2>4, <2>5, <2>6
<1> QED
    BY <1>1, <1>2

LEMMA MakeTree ==
    ASSUME NEW o, OutTree(o), NEW t \in Numbers, t # Root, t \notin DOMAIN o,
           Parent(t) = Root \/ (Parent(t) \in DOMAIN o /\ o[Parent(t)].kind = "dir"),
           Parent(t) # t, NEW n, NodeOK(n),
           NEW u, u = R!Touched(Put(o, t, n), Parent(t))
    PROVE  /\ OutTree(u) /\ Keeps(o, u, {t}) /\ t \in DOMAIN u /\ u[t] = n
           /\ \A q \in DOMAIN u : Parent(q) # t
<1> DEFINE v == Put(o, t, n)
<1>1. /\ DOMAIN v = DOMAIN o \cup {t} /\ v = [q \in DOMAIN v |-> v[q]] /\ v[t] = n
      /\ \A q \in DOMAIN o : q # t => v[q] = o[q]
    BY DEF Put
<1> HIDE DEF v
<1>2. \A q \in DOMAIN o : v[q] = o[q]
    BY <1>1
<1>3. OutTree(v)
    BY <1>1, <1>2 DEF OutTree
<1>4. \A q \in DOMAIN v : Parent(q) # t
    BY <1>1 DEF OutTree
<1>5. Parent(t) \in DOMAIN v => v[Parent(t)].kind # "file"
    <2>1. Root \notin DOMAIN o
        BY DEF OutTree
    <2> QED
        BY <1>1, <1>2, <2>1
<1>6. /\ OutTree(u) /\ DOMAIN u = DOMAIN v /\ Keeps(v, u, {})
      /\ \A q \in DOMAIN v : q # Parent(t) => u[q] = v[q]
    BY <1>3, <1>5, TouchTree DEF v
<1>7. Keeps(o, u, {t})
    BY <1>1, <1>2, <1>6 DEF Keeps
<1> QED
    BY <1>1, <1>4, <1>6, <1>7

LEMMA RemoveTree ==
    ASSUME NEW o, OutTree(o), NEW t, \A q \in DOMAIN o : Parent(q) # t,
           NEW d, d \in DOMAIN o => o[d].kind # "file",
           NEW u, u = R!Touched(Drop(o, t), d)
    PROVE  OutTree(u) /\ Keeps(o, u, {})
<1> DEFINE v == Drop(o, t)
<1>1. /\ DOMAIN v = DOMAIN o \ {t} /\ v = [q \in DOMAIN v |-> v[q]]
      /\ \A q \in DOMAIN v : v[q] = o[q]
    BY DEF Drop
<1> HIDE DEF v
<1>2. OutTree(v)
    BY <1>1 DEF OutTree
<1>3. OutTree(u) /\ DOMAIN u = DOMAIN v /\ Keeps(v, u, {})
    BY <1>1, <1>2, TouchTree DEF v
<1> QED
    BY <1>1, <1>3 DEF Keeps

LEMMA RenameTree ==
    ASSUME NEW o, OutTree(o), NEW t \in DOMAIN o, NEW p \in Numbers, p # Root, p # t,
           Parent(p) = Parent(t), Parent(p) # p, Parent(p) # t,
           \A q \in DOMAIN o : Parent(q) # t /\ Parent(q) # p,
           NEW u, u = R!Touched(Drop(Put(o, p, o[t]), t), Parent(p))
    PROVE  /\ OutTree(u) /\ Keeps(o, u, {p}) /\ p \in DOMAIN u /\ u[p] = o[t]
<1> DEFINE v == Drop(Put(o, p, o[t]), t)
<1>1. /\ DOMAIN v = (DOMAIN o \cup {p}) \ {t} /\ v = [q \in DOMAIN v |-> v[q]]
      /\ v[p] = o[t]
      /\ \A q \in DOMAIN v : q # p => v[q] = o[q]
    BY DEF Put, Drop
<1> HIDE DEF v
<1>2. OutTree(v)
    <2> SUFFICES ASSUME NEW q \in DOMAIN v
                 PROVE  /\ q \in Numbers /\ q # Root /\ NodeOK(v[q])
                        /\ \/ Parent(q) = Root
                           \/ Parent(q) \in DOMAIN v /\ v[Parent(q)].kind = "dir"
        BY <1>1 DEF OutTree
    <2>1. CASE q = p
        BY <1>1, <2>1 DEF OutTree
    <2>2. CASE q # p
        BY <1>1, <2>2 DEF OutTree
    <2> QED
        BY <2>1, <2>2
<1>3. Parent(p) \in DOMAIN v => v[Parent(p)].kind # "file"
    <2>1. Root \notin DOMAIN o
        BY DEF OutTree
    <2> QED
        BY <1>1, <2>1 DEF OutTree
<1>4. /\ OutTree(u) /\ DOMAIN u = DOMAIN v /\ Keeps(v, u, {})
      /\ \A q \in DOMAIN v : q # Parent(p) => u[q] = v[q]
    BY <1>2, <1>3, TouchTree DEF v
<1>5. Keeps(o, u, {p})
    BY <1>1, <1>4 DEF Keeps
<1> QED
    BY <1>1, <1>4, <1>5

----------------------------------------------------------------------------
(***************************************************************************)
(* The restores of the index.  A restore fills the temporary file of a     *)
(* line, gives it its times and renames it; all else it does to the files  *)
(* that were there changes the times of directories.  The lines are in     *)
(* order, so the temporary name of a line is not that of an earlier one.   *)
(***************************************************************************)
\* The node n has the contents and times of line j.
OfLine(ls, n, j) == n.data = R!Contents(ls[j]) /\ n.mtime = ls[j].mtime

RightBy(ls, n, i) ==
    \E j \in DOMAIN ls :
       /\ j = i \/ (ls[j].inode = ls[i].inode /\ ls[i].inode # None)
       /\ OfLine(ls, n, j)

\* NeverTorn, said of a tree o where there was o0, and of the paths P.
FilesRight(ls, P, o, o0) ==
    \A p \in DOMAIN o :
       o[p].kind = "file" /\ (p \in DOMAIN o0 => o[p] # o0[p])
       => \/ \E i \in DOMAIN P : Tmpname(P[i]) = p
          \/ \E i \in DOMAIN P : P[i] = p /\ RightBy(ls, o[p], i)

\* The files that later links are made to belong to lines already restored, or
\* to this one.
Linked(ls, P, o, inodes, pos, own) ==
    \A k \in DOMAIN inodes :
       /\ k # None
       /\ \E m \in DOMAIN P :
             /\ ls[m].inode = k /\ inodes[k] = P[m]
             /\ \/ /\ m < pos
                   /\ P[m] \in DOMAIN o =>
                         /\ o[P[m]].kind = "file"
                         /\ \E j \in DOMAIN ls : ls[j].inode = k /\ OfLine(ls, o[P[m]], j)
                \/ m = pos /\ own

\* And so do those whose times are to be set at the end, which are no files.
Timed(P, o, dirtimes, pos, own) ==
    \A x \in DOMAIN dirtimes : \E m \in DOMAIN P :
       /\ dirtimes[x].dir = P[m]
       /\ \/ m < pos /\ (P[m] \in DOMAIN o => o[P[m]].kind # "file")
          \/ m = pos /\ own

Begins(d, c) ==
    d \in Bytes /\ c \in Bytes /\ Len(d) <= Len(c) /\ \A i \in 1 .. Len(d) : d[i] = c[i]

\* The temporary file, once it is made.
Temp(ls, o, t, pc, pos) ==
    /\ pc \in {"fill", "times", "rename"} => t \in DOMAIN o /\ \A q \in DOMAIN o : Parent(q) # t
    /\ pc = "fill" => /\ o[t].kind = "file" /\ ls[pos].kind = "file"
                      /\ Begins(o[t].data, R!Contents(ls[pos]))
    /\ pc = "times" => /\ o[t].kind = ls[pos].kind
                       /\ o[t].kind = "file" => o[t].data = R!Contents(ls[pos])
    /\ pc = "rename" => (o[t].kind = "file" => RightBy(ls, o[t], pos))

\* The line being restored, and its path.
Busy == {"make", "fill", "times", "rename"}

Place(P, r) ==
    /\ r.pos \in Nat \ {0}
    /\ r.pc \in Busy => r.pos \in DOMAIN P /\ r.path = P[r.pos] /\ r.dir = Parent(r.path)
    /\ r.pc = "read" /\ r.pos # 1 =>
          r.pos - 1 \in DOMAIN P /\ r.dir = Parent(P[r.pos - 1])

IsRs(r) ==
    \E pc, pos, dir, path, inodes, dirtimes, errors, left :
       r = [pc |-> pc, pos |-> pos, dir |-> dir, path |-> path, inodes |-> inodes,
            dirtimes |-> dirtimes, errors |-> errors, left |-> left]

OwnFile(o, r) == r.pc \in {"times", "rename"} /\ o[Tmpname(r.path)].kind = "file"
OwnDir(o, r) == r.pc = "rename" /\ o[Tmpname(r.path)].kind # "file"

RestInv(ls, P, o, o0, r) ==
    /\ OutTree(o) /\ FilesRight(ls, P, o, o0)
    /\ IsRs(r) /\ IsSeq(r.dirtimes) /\ Place(P, r)
    /\ Linked(ls, P, o, r.inodes, r.pos, OwnFile(o, r))
    /\ Timed(P, o, r.dirtimes, r.pos, OwnDir(o, r))
    /\ Temp(ls, o, Tmpname(r.path), r.pc, r.pos)

LEMMA RightStays ==
    ASSUME NEW ls, NEW P, NEW o, NEW o0, NEW u, NEW X, FilesRight(ls, P, o, o0),
           Keeps(o, u, X),
           \A q \in X \cap DOMAIN u : u[q].kind = "file" =>
              \/ \E i \in DOMAIN P : Tmpname(P[i]) = q
              \/ \E i \in DOMAIN P : P[i] = q /\ RightBy(ls, u[q], i)
    PROVE  FilesRight(ls, P, u, o0)
<1> SUFFICES ASSUME NEW p \in DOMAIN u, u[p].kind = "file", p \in DOMAIN o0 => u[p] # o0[p]
             PROVE  \/ \E i \in DOMAIN P : Tmpname(P[i]) = p
                    \/ \E i \in DOMAIN P : P[i] = p /\ RightBy(ls, u[p], i)
    BY DEF FilesRight
<1>1. CASE p \in X
    BY <1>1
<1>2. CASE p \notin X
    <2>1. p \in DOMAIN o /\ o[p].kind = "file" /\ u[p] = o[p]
        BY <1>2 DEF Keeps
    <2> QED
        BY <2>1 DEF FilesRight
<1> QED
    BY <1>1, <1>2

LEMMA LinkedStays ==
    ASSUME NEW ls, NEW P, NEW o, NEW u, NEW X, NEW inodes, NEW pos, NEW own, NEW own2,
           Linked(ls, P, o, inodes, pos, own), Keeps(o, u, X),
           \A m \in DOMAIN P : m < pos => P[m] \notin X,
           own => own2
    PROVE  Linked(ls, P, u, inodes, pos, own2)
<1> SUFFICES ASSUME NEW k \in DOMAIN inodes
             PROVE  /\ k # None
                    /\ \E m \in DOMAIN P :
                         /\ ls[m].inode = k /\ inodes[k] = P[m]
                         /\ \/ /\ m < pos
                               /\ P[m] \in DOMAIN u =>
                                     /\ u[P[m]].kind = "file"
                                     /\ \E j \in DOMAIN ls :
                                           ls[j].inode = k /\ OfLine(ls, u[P[m]], j)
                            \/ m = pos /\ own2
    BY DEF Linked
<1>1. PICK m \in DOMAIN P :
         /\ ls[m].inode = k /\ inodes[k] = P[m]
         /\ \/ /\ m < pos
               /\ P[m] \in DOMAIN o =>
                     /\ o[P[m]].kind = "file"
                     /\ \E j \in DOMAIN ls : ls[j].inode = k /\ OfLine(ls, o[P[m]], j)
            \/ m = pos /\ own
    BY DEF Linked
<1>2. k # None
    BY DEF Linked
<1>3. CASE m = pos /\ own
    BY <1>1, <1>2, <1>3
<1>4. CASE /\ m < pos
           /\ P[m] \in DOMAIN o =>
                 /\ o[P[m]].kind = "file"
                 /\ \E j \in DOMAIN ls : ls[j].inode = k /\ OfLine(ls, o[P[m]], j)
    <2>1. P[m] \in DOMAIN u => P[m] \in DOMAIN o /\ u[P[m]] = o[P[m]]
        BY <1>4 DEF Keeps
    <2> QED
        BY <1>1, <1>2, <1>4, <2>1
<1> QED
    BY <1>1, <1>3, <1>4

LEMMA TimedStays ==
    ASSUME NEW P, NEW o, NEW u, NEW X, NEW dirtimes, NEW pos, NEW own, NEW own2,
           Timed(P, o, dirtimes, pos, own), Keeps(o, u, X),
           \A m \in DOMAIN P : m < pos => P[m] \notin X,
           own => own2
    PROVE  Timed(P, u, dirtimes, pos, own2)
<1> SUFFICES ASSUME NEW x \in DOMAIN dirtimes
             PROVE  \E m \in DOMAIN P :
                       /\ dirtimes[x].dir = P[m]
                       /\ \/ m < pos /\ (P[m] \in DOMAIN u => u[P[m]].kind # "file")
                          \/ m = pos /\ own2
    BY DEF Timed
<1>1. PICK m \in DOMAIN P :
         /\ dirtimes[x].dir = P[m]
         /\ \/ m < pos /\ (P[m] \in DOMAIN o => o[P[m]].kind # "file")
            \/ m = pos /\ own
    BY DEF Timed
<1>2. m < pos /\ P[m] \in DOMAIN u => P[m] \in DOMAIN o /\ u[P[m]].kind = o[P[m]].kind
    BY DEF Keeps
<1> QED
    BY <1>1, <1>2

\* When a line is done, its file is one that was restored.
LEMMA NextLinked ==
    ASSUME NEW ls, NEW P, DOMAIN P \subseteq Nat, NEW o, NEW inodes, NEW pos \in Nat, NEW own,
           Linked(ls, P, o, inodes, pos, own),
           own /\ P[pos] \in DOMAIN o => o[P[pos]].kind = "file" /\ RightBy(ls, o[P[pos]], pos)
    PROVE  Linked(ls, P, o, inodes, pos + 1, FALSE)
<1> SUFFICES ASSUME NEW k \in DOMAIN inodes
             PROVE  /\ k # None
                    /\ \E m \in DOMAIN P :
                         /\ ls[m].inode = k /\ inodes[k] = P[m]
                         /\ m < pos + 1
                         /\ P[m] \in DOMAIN o =>
                               /\ o[P[m]].kind = "file"
                               /\ \E j \in DOMAIN ls :
                                     ls[j].inode = k /\ OfLine(ls, o[P[m]], j)
    BY DEF Linked
<1>1. PICK m \in DOMAIN P :
         /\ ls[m].inode = k /\ inodes[k] = P[m]
         /\ \/ /\ m < pos
               /\ P[m] \in DOMAIN o =>
                     /\ o[P[m]].kind = "file"
                     /\ \E j \in DOMAIN ls : ls[j].inode = k /\ OfLine(ls, o[P[m]], j)
            \/ m = pos /\ own
    BY DEF Linked
<1>2. k # None
    BY DEF Linked
<1>3. CASE m = pos /\ own
    <2>1. m < pos + 1
        BY <1>3
    <2>2. ASSUME P[m] \in DOMAIN o
          PROVE  /\ o[P[m]].kind = "file"
                 /\ \E j \in DOMAIN ls : ls[j].inode = k /\ OfLine(ls, o[P[m]], j)
        <3>1. o[P[m]].kind = "file" /\ RightBy(ls, o[P[m]], m)
            BY <1>3, <2>2
        <3>2. PICK j \in DOMAIN ls :
                 /\ j = m \/ (ls[j].inode = ls[m].inode /\ ls[m].inode # None)
                 /\ OfLine(ls, o[P[m]], j)
            BY <3>1 DEF RightBy
        <3>3. ls[j].inode = k
            BY <1>1, <3>2
        <3> QED
            BY <3>1, <3>2, <3>3
    <2> QED
        BY <1>1, <1>2, <2>1, <2>2
<1>4. CASE /\ m < pos
           /\ P[m] \in DOMAIN o =>
                 /\ o[P[m]].kind = "file"
                 /\ \E j \in DOMAIN ls : ls[j].inode = k /\ OfLine(ls, o[P[m]], j)
    <2>1. m < pos + 1
        BY <1>4
    <2> QED
        BY <1>1, <1>2, <1>4, <2>1
<1> QED
    BY <1>1, <1>3, <1>4

LEMMA NextTimed ==
    ASSUME NEW P, DOMAIN P \subseteq Nat, NEW o, NEW dirtimes, NEW pos \in Nat, NEW own,
           Timed(P, o, dirtimes, pos, own),
           own /\ P[pos] \in DOMAIN o => o[P[pos]].kind # "file"
    PROVE  Timed(P, o, dirtimes, pos + 1, FALSE)
<1> SUFFICES ASSUME NEW x \in DOMAIN dirtimes
             PROVE  \E m \in DOMAIN P :
                       /\ dirtimes[x].dir = P[m]
                       /\ m < pos + 1 /\ (P[m] \in DOMAIN o => o[P[m]].kind # "file")
    BY DEF Timed
<1>1. PICK m \in DOMAIN P :
         /\ dirtimes[x].dir = P[m]
         /\ \/ m < pos /\ (P[m] \in DOMAIN o => o[P[m]].kind # "file")
            \/ m = pos /\ own
    BY DEF Timed
<1>2. m < pos + 1
    BY <1>1
<1> QED
    BY <1>1, <1>2


\* No earlier line is of this file or of one with its temporary name.
LEMMA EarlierLines ==
    ASSUME NEW P \in Seq(Numbers), \A i \in DOMAIN P : P[i] # Root, Together(P),
           NEW i \in DOMAIN P, NEW m \in DOMAIN P, m < i
    PROVE  P[m] # P[i] /\ P[m] # Tmpname(P[i])
<1>1. P[i] \in Numbers /\ P[m] \in Numbers /\ P[i] # Root /\ P[m] # Root
    BY ElementOfSeq, LenProperties
<1>2. Parent(P[m]) = Parent(P[i]) => Base(P[m]) < Base(P[i])
    BY DEF Together
<1>3. Base(P[m]) \in Nat /\ Base(P[i]) \in Nat
    BY <1>1, ParentOf
<1>4. /\ Parent(Tmpname(P[i])) = Parent(P[i]) /\ Base(Tmpname(P[i])) = Base(P[i]) + 1
    BY <1>1, TmpnameOf
<1> QED
    BY <1>2, <1>3, <1>4

\* The line being restored.
LEMMA BusyLine ==
    ASSUME NEW ls, NEW P, NEW o, NEW o0, NEW r, Describes(ls, P), Together(P),
           RestInv(ls, P, o, o0, r), r.pc \in Busy
    PROVE  /\ DOMAIN P \subseteq Nat /\ DOMAIN ls = DOMAIN P
           /\ r.pos \in DOMAIN P /\ r.pos \in Nat /\ r.path = P[r.pos]
           /\ r.path \in Numbers /\ r.path # Root /\ r.dir = Parent(r.path)
           /\ \A m \in DOMAIN P : m < r.pos => P[m] # r.path /\ P[m] # Tmpname(r.path)
<1>1. /\ P \in Seq(Numbers) /\ DOMAIN P = 1 .. Len(P) /\ DOMAIN ls = 1 .. Len(P) /\ Len(P) \in Nat
    BY SeqLength DEF Describes, IsSeq
<1>2. r.pos \in DOMAIN P /\ r.path = P[r.pos] /\ r.dir = Parent(r.path)
    BY DEF RestInv, Place
<1>3. \A i \in DOMAIN P : P[i] # Root /\ P[i] \in Numbers
    BY <1>1, ElementOfSeq DEF Describes
<1>4. \A m \in DOMAIN P : m < r.pos => P[m] # P[r.pos] /\ P[m] # Tmpname(P[r.pos])
    BY <1>1, <1>2, <1>3, EarlierLines
<1> QED
    BY <1>1, <1>2, <1>3, <1>4

\* A step that does something to the temporary file and goes on with the line.
LEMMA StepWithin ==
    ASSUME NEW ls, NEW P, NEW o, NEW o0, NEW r, NEW u, NEW x,
           Describes(ls, P), Together(P), RestInv(ls, P, o, o0, r), r.pc \in Busy,
           OutTree(u), Keeps(o, u, {Tmpname(r.path)}),
           IsRs(x), x.pc \in Busy, x.pos = r.pos, x.dir = r.dir, x.path = r.path,
           x.inodes = r.inodes, x.dirtimes = r.dirtimes,
           OwnFile(o, r) => OwnFile(u, x), OwnDir(o, r) => OwnDir(u, x),
           Temp(ls, u, Tmpname(r.path), x.pc, r.pos)
    PROVE  RestInv(ls, P, u, o0, x)
<1> DEFINE t == Tmpname(r.path)
<1>1. /\ DOMAIN P \subseteq Nat /\ r.pos \in DOMAIN P /\ r.path = P[r.pos]
      /\ \A m \in DOMAIN P : m < r.pos => P[m] \notin {t}
    BY BusyLine
<1>2. FilesRight(ls, P, u, o0)
    <2>1. \A q \in {t} \cap DOMAIN u : \E i \in DOMAIN P : Tmpname(P[i]) = q
        BY <1>1
    <2> HIDE DEF t
    <2>2. FilesRight(ls, P, o, o0) /\ Keeps(o, u, {t})
        BY DEF RestInv, t
    <2> QED
        BY <2>1, <2>2, RightStays
<1> HIDE DEF t
<1>3. Linked(ls, P, u, x.inodes, x.pos, OwnFile(u, x))
    <2>1. Linked(ls, P, o, x.inodes, x.pos, OwnFile(o, r))
        BY DEF RestInv
    <2>2. Keeps(o, u, {t}) /\ \A m \in DOMAIN P : m < x.pos => P[m] \notin {t}
        BY <1>1 DEF t
    <2> QED
        BY <2>1, <2>2, LinkedStays
<1>4. Timed(P, u, x.dirtimes, x.pos, OwnDir(u, x))
    <2>1. Timed(P, o, x.dirtimes, x.pos, OwnDir(o, r))
        BY DEF RestInv
    <2>2. Keeps(o, u, {t}) /\ \A m \in DOMAIN P : m < x.pos => P[m] \notin {t}
        BY <1>1 DEF t
    <2> QED
        BY <2>1, <2>2, TimedStays
<1>5. Place(P, x)
    BY DEF RestInv, Place, Busy
<1>6. IsSeq(x.dirtimes)
    BY DEF RestInv
<1> QED
    BY <1>2, <1>3, <1>4, <1>5, <1>6 DEF RestInv

\* A run starts, or is over.
LEMMA FreshRun ==
    ASSUME NEW ls, NEW P, NEW o, NEW o0, NEW x, OutTree(o), FilesRight(ls, P, o, o0),
           IsRs(x), x.pc \in {"idle", "read"}, x.pos = 1, x.inodes = EmptyMap, x.dirtimes = <<>>
    PROVE  RestInv(ls, P, o, o0, x)
<1>1. IsSeq(x.dirtimes) /\ DOMAIN x.dirtimes = {} /\ DOMAIN x.inodes = {}
    BY EmptySeq DEF IsSeq, EmptyMap
<1>2. /\ Linked(ls, P, o, x.inodes, x.pos, OwnFile(o, x))
      /\ Timed(P, o, x.dirtimes, x.pos, OwnDir(o, x))
    BY <1>1 DEF Linked, Timed
<1>3. Place(P, x) /\ Temp(ls, o, Tmpname(x.path), x.pc, x.pos)
    BY DEF Place, Busy, Temp
<1> QED
    BY <1>1, <1>2, <1>3 DEF RestInv

\* The last line is restored, or the times of the last directory.
LEMMA EndRun ==
    ASSUME NEW ls, NEW P, NEW o, NEW o0, NEW r, NEW x, RestInv(ls, P, o, o0, r),
           r.pc \in {"read", "fix"}, IsRs(x), x.pc \in {"fix", "done"}, x.pos = r.pos,
           x.inodes = r.inodes, x.dirtimes = r.dirtimes
    PROVE  RestInv(ls, P, o, o0, x)
<1>1. ~ OwnFile(o, r) /\ ~ OwnFile(o, x) /\ ~ OwnDir(o, r) /\ ~ OwnDir(o, x)
    BY DEF OwnFile, OwnDir
<1>2. /\ Linked(ls, P, o, x.inodes, x.pos, OwnFile(o, x))
      /\ Timed(P, o, x.dirtimes, x.pos, OwnDir(o, x))
    BY <1>1 DEF RestInv, Linked, Timed
<1>3. Place(P, x) /\ Temp(ls, o, Tmpname(x.path), x.pc, x.pos)
    BY DEF RestInv, Place, Busy, Temp
<1> QED
    BY <1>2, <1>3 DEF RestInv

\* The temporary file of a dead run is got out of the way.
LEMMA StepRead ==
    ASSUME NEW ls, NEW P, NEW o, NEW o0, NEW r, NEW u, NEW x,
           RestInv(ls, P, o, o0, r), r.pc = "read",
           OutTree(u), Keeps(o, u, {}),
           IsRs(x), x.pc = "make", x.pos = r.pos, r.pos \in DOMAIN P, x.path = P[r.pos],
           x.dir = Parent(x.path), x.inodes = r.inodes, x.dirtimes = r.dirtimes
    PROVE  RestInv(ls, P, u, o0, x)
<1>1. FilesRight(ls, P, u, o0)
    <2>1. FilesRight(ls, P, o, o0) /\ Keeps(o, u, {}) /\ {} \cap DOMAIN u = {}
        BY DEF RestInv
    <2> QED
        BY <2>1, RightStays
<1>2. ~ OwnFile(o, r) /\ ~ OwnDir(o, r)
    BY DEF OwnFile, OwnDir
<1>3. Linked(ls, P, u, x.inodes, x.pos, OwnFile(u, x))
    <2>1. Linked(ls, P, o, x.inodes, x.pos, OwnFile(o, r))
        BY DEF RestInv
    <2> QED
        BY <1>2, <2>1, LinkedStays
<1>4. Timed(P, u, x.dirtimes, x.pos, OwnDir(u, x))
    <2>1. Timed(P, o, x.dirtimes, x.pos, OwnDir(o, r))
        BY DEF RestInv
    <2> QED
        BY <1>2, <2>1, TimedStays
<1>5. Place(P, x) /\ Temp(ls, u, Tmpname(x.path), x.pc, x.pos) /\ IsSeq(x.dirtimes)
    BY DEF RestInv, Place, Busy, Temp
<1> QED
    BY <1>1, <1>3, <1>4, <1>5 DEF RestInv

\* A directory that is there already, or a socket that cannot be made.
LEMMA StepSkip ==
    ASSUME NEW ls, NEW P, NEW o, NEW o0, NEW r, NEW x, Describes(ls, P), Together(P),
           RestInv(ls, P, o, o0, r), r.pc = "make",
           IsRs(x), x.pc = "read", x.pos = r.pos + 1, x.dir = r.dir,
           x.inodes = r.inodes, x.dirtimes = r.dirtimes
    PROVE  RestInv(ls, P, o, o0, x)
<1>1. ~ OwnFile(o, r) /\ ~ OwnFile(o, x) /\ ~ OwnDir(o, r) /\ ~ OwnDir(o, x)
    BY DEF OwnFile, OwnDir
<1>2. /\ DOMAIN P \subseteq Nat /\ r.pos \in DOMAIN P /\ r.pos \in Nat
      /\ r.path = P[r.pos] /\ r.dir = Parent(r.path)
    BY BusyLine DEF Busy
<1>3. Linked(ls, P, o, x.inodes, x.pos, OwnFile(o, x))
    <2>1. Linked(ls, P, o, r.inodes, r.pos, OwnFile(o, r))
        BY DEF RestInv
    <2>2. Linked(ls, P, o, r.inodes, r.pos + 1, FALSE)
        BY <1>1, <1>2, <2>1, NextLinked
    <2> QED
        BY <1>1, <2>2 DEF Linked
<1>4. Timed(P, o, x.dirtimes, x.pos, OwnDir(o, x))
    <2>1. Timed(P, o, r.dirtimes, r.pos, OwnDir(o, r))
        BY DEF RestInv
    <2>2. Timed(P, o, r.dirtimes, r.pos + 1, FALSE)
        BY <1>1, <1>2, <2>1, NextTimed
    <2> QED
        BY <1>1, <2>2 DEF Timed
<1>5. Place(P, x)
    <2>1. x.pos \in Nat \ {0} /\ x.pos - 1 = r.pos
        BY <1>2
    <2> QED
        BY <1>2, <2>1 DEF Place, Busy
<1>6. Temp(ls, o, Tmpname(x.path), x.pc, x.pos) /\ IsSeq(x.dirtimes)
    BY DEF RestInv, Temp
<1> QED
    BY <1>3, <1>4, <1>5, <1>6 DEF RestInv


\* The temporary file takes its place.
LEMMA StepRename ==
    ASSUME NEW ls, NEW P, NEW o, NEW o0, NEW r, NEW u, NEW x, Describes(ls, P), Together(P),
           RestInv(ls, P, o, o0, r), r.pc = "rename",
           OutTree(u), Keeps(o, u, {r.path}),
           r.path \in DOMAIN u, u[r.path] = o[Tmpname(r.path)],
           IsRs(x), x.pc = "read", x.pos = r.pos + 1, x.dir = r.dir,
           x.inodes = r.inodes, x.dirtimes = r.dirtimes
    PROVE  RestInv(ls, P, u, o0, x)
<1>1. ~ OwnFile(u, x) /\ ~ OwnDir(u, x)
    BY DEF OwnFile, OwnDir
<1>2. /\ DOMAIN P \subseteq Nat /\ r.pos \in DOMAIN P /\ r.pos \in Nat
      /\ r.path = P[r.pos] /\ r.dir = Parent(r.path)
      /\ \A m \in DOMAIN P : m < r.pos => P[m] \notin {r.path}
    BY BusyLine DEF Busy
<1>3. u[r.path].kind = "file" => RightBy(ls, u[r.path], r.pos)
    BY DEF RestInv, Temp
<1>4. FilesRight(ls, P, u, o0)
    <2>1. \A q \in {r.path} \cap DOMAIN u : u[q].kind = "file" =>
             \E i \in DOMAIN P : P[i] = q /\ RightBy(ls, u[q], i)
        BY <1>2, <1>3
    <2>2. FilesRight(ls, P, o, o0)
        BY DEF RestInv
    <2> QED
        BY <2>1, <2>2, RightStays
<1>5. Linked(ls, P, u, x.inodes, x.pos, OwnFile(u, x))
    <2>1. Linked(ls, P, o, r.inodes, r.pos, OwnFile(o, r))
        BY DEF RestInv
    <2>2. Linked(ls, P, u, r.inodes, r.pos, OwnFile(o, r))
        BY <1>2, <2>1, LinkedStays
    <2>3. OwnFile(o, r) => u[P[r.pos]].kind = "file" /\ RightBy(ls, u[P[r.pos]], r.pos)
        BY <1>2, <1>3 DEF OwnFile
    <2>4. Linked(ls, P, u, r.inodes, r.pos + 1, FALSE)
        BY <1>2, <2>2, <2>3, NextLinked
    <2> QED
        BY <1>1, <2>4 DEF Linked
<1>6. Timed(P, u, x.dirtimes, x.pos, OwnDir(u, x))
    <2>1. Timed(P, o, r.dirtimes, r.pos, OwnDir(o, r))
        BY DEF RestInv
    <2>2. Timed(P, u, r.dirtimes, r.pos, OwnDir(o, r))
        BY <1>2, <2>1, TimedStays
    <2>3. OwnDir(o, r) => u[P[r.pos]].kind # "file"
        BY <1>2 DEF OwnDir
    <2>4. Timed(P, u, r.dirtimes, r.pos + 1, FALSE)
        BY <1>2, <2>2, <2>3, NextTimed
    <2> QED
        BY <1>1, <2>4 DEF Timed
<1>7. Place(P, x)
    <2>1. x.pos \in Nat \ {0} /\ x.pos - 1 = r.pos
        BY <1>2
    <2> QED
        BY <1>2, <2>1 DEF Place, Busy
<1>8. Temp(ls, u, Tmpname(x.path), x.pc, x.pos) /\ IsSeq(x.dirtimes)
    BY DEF RestInv, Temp
<1> QED
    BY <1>4, <1>5, <1>6, <1>7, <1>8 DEF RestInv

\* A file is complete: later links of it are made to its name.
LEMMA StepFilled ==
    ASSUME NEW ls, NEW P, NEW o, NEW o0, NEW r, NEW x, Describes(ls, P), Together(P),
           RestInv(ls, P, o, o0, r), r.pc = "fill",
           o[Tmpname(r.path)].data = R!Contents(ls[r.pos]),
           IsRs(x), x.pc = "times", x.pos = r.pos, x.dir = r.dir, x.path = r.path,
           x.inodes = IF ls[r.pos].inode = None THEN r.inodes
                      ELSE Put(r.inodes, ls[r.pos].inode, r.path),
           x.dirtimes = r.dirtimes
    PROVE  RestInv(ls, P, o, o0, x)
<1>1. /\ r.pos \in DOMAIN P /\ r.path = P[r.pos]
    BY BusyLine DEF Busy
<1>2. o[Tmpname(r.path)].kind = "file" /\ ls[r.pos].kind = "file"
    BY DEF RestInv, Temp
<1>3. ~ OwnFile(o, r) /\ OwnFile(o, x) /\ ~ OwnDir(o, r) /\ ~ OwnDir(o, x)
    BY <1>2 DEF OwnFile, OwnDir
<1>4. Linked(ls, P, o, x.inodes, x.pos, OwnFile(o, x))
    <2> SUFFICES ASSUME NEW k \in DOMAIN x.inodes
                 PROVE  /\ k # None
                        /\ \E m \in DOMAIN P :
                             /\ ls[m].inode = k /\ x.inodes[k] = P[m]
                             /\ \/ /\ m < r.pos
                                   /\ P[m] \in DOMAIN o =>
                                         /\ o[P[m]].kind = "file"
                                         /\ \E j \in DOMAIN ls :
                                               ls[j].inode = k /\ OfLine(ls, o[P[m]], j)
                                \/ m = r.pos
        BY <1>3 DEF Linked
    <2>1. \/ k \in DOMAIN r.inodes /\ x.inodes[k] = r.inodes[k]
          \/ k = ls[r.pos].inode /\ k # None /\ x.inodes[k] = r.path
        BY DEF Put
    <2>2. CASE k \in DOMAIN r.inodes /\ x.inodes[k] = r.inodes[k]
        BY <1>3, <2>2 DEF RestInv, Linked
    <2>3. CASE k = ls[r.pos].inode /\ k # None /\ x.inodes[k] = r.path
        BY <1>1, <2>3
    <2> QED
        BY <2>1, <2>2, <2>3
<1>5. Timed(P, o, x.dirtimes, x.pos, OwnDir(o, x))
    BY <1>3 DEF RestInv, Timed
<1>6. Place(P, x) /\ IsSeq(x.dirtimes)
    BY DEF RestInv, Place, Busy
<1>7. Temp(ls, o, Tmpname(x.path), x.pc, x.pos)
    BY <1>2 DEF RestInv, Temp
<1>8. OutTree(o) /\ FilesRight(ls, P, o, o0)
    BY DEF RestInv
<1> QED
    BY <1>4, <1>5, <1>6, <1>7, <1>8 DEF RestInv

\* The times of a directory are put off to the end.
LEMMA StepDirTimes ==
    ASSUME NEW ls, NEW P, NEW o, NEW o0, NEW r, NEW x, NEW e, Describes(ls, P), Together(P),
           RestInv(ls, P, o, o0, r), r.pc = "times", ls[r.pos].kind = "dir",
           IsRs(x), x.pc = "rename", x.pos = r.pos, x.dir = r.dir, x.path = r.path,
           x.inodes = r.inodes, x.dirtimes = Append(r.dirtimes, e), e.dir = r.path
    PROVE  RestInv(ls, P, o, o0, x)
<1>1. /\ r.pos \in DOMAIN P /\ r.path = P[r.pos]
    BY BusyLine DEF Busy
<1>2. o[Tmpname(r.path)].kind = "dir"
    BY DEF RestInv, Temp
<1>3. ~ OwnFile(o, r) /\ ~ OwnFile(o, x) /\ ~ OwnDir(o, r) /\ OwnDir(o, x)
    BY <1>2 DEF OwnFile, OwnDir
<1>4. Linked(ls, P, o, x.inodes, x.pos, OwnFile(o, x))
    BY <1>3 DEF RestInv, Linked
<1>5. /\ IsSeq(x.dirtimes) /\ Len(r.dirtimes) \in Nat
      /\ DOMAIN x.dirtimes = 1 .. Len(r.dirtimes) + 1
      /\ DOMAIN r.dirtimes = 1 .. Len(r.dirtimes)
      /\ \A i \in DOMAIN r.dirtimes : x.dirtimes[i] = r.dirtimes[i]
      /\ x.dirtimes[Len(r.dirtimes) + 1] = e
    BY AppendSeq, SeqLength DEF RestInv
<1>6. Timed(P, o, x.dirtimes, x.pos, OwnDir(o, x))
    <2> SUFFICES ASSUME NEW y \in DOMAIN x.dirtimes
                 PROVE  \E m \in DOMAIN P :
                           /\ x.dirtimes[y].dir = P[m]
                           /\ \/ m < r.pos /\ (P[m] \in DOMAIN o => o[P[m]].kind # "file")
                              \/ m = r.pos
        BY <1>3 DEF Timed
    <2>1. y \in DOMAIN r.dirtimes \/ y = Len(r.dirtimes) + 1
        BY <1>5
    <2>2. CASE y \in DOMAIN r.dirtimes
        BY <1>3, <1>5, <2>2 DEF RestInv, Timed
    <2>3. CASE y = Len(r.dirtimes) + 1
        BY <1>1, <1>5, <2>3
    <2> QED
        BY <2>1, <2>2, <2>3
<1>7. Place(P, x)
    BY DEF RestInv, Place, Busy
<1>8. Temp(ls, o, Tmpname(x.path), x.pc, x.pos)
    BY <1>2 DEF RestInv, Temp
<1>9. OutTree(o) /\ FilesRight(ls, P, o, o0)
    BY DEF RestInv
<1> QED
    BY <1>4, <1>5, <1>6, <1>7, <1>8, <1>9 DEF RestInv

\* The time of a directory is set at the end; whatever is there now, it is no
\* regular file.
LEMMA FixTree ==
    ASSUME NEW o, OutTree(o), NEW d, d \in DOMAIN o => o[d].kind # "file",
           NEW mtime, NEW u, u = [o EXCEPT ![d].mtime = mtime]
    PROVE  OutTree(u) /\ Keeps(o, u, {})
<1>1. CASE d \notin DOMAIN o
    <2>1. u = o
        BY <1>1 DEF OutTree
    <2> QED
        BY <2>1 DEF Keeps
<1>2. CASE d \in DOMAIN o
    <2>1. PICK n : n = [o[d] EXCEPT !.mtime = mtime]
        OBVIOUS
    <2>2. NodeOK(n) /\ n.kind = o[d].kind
        BY <1>2, <2>1, TouchNode DEF OutTree
    <2>3. PICK v : v = [o EXCEPT ![d] = n]
        OBVIOUS
    <2>4. u = v
        BY <2>1, <2>3
    <2>5. /\ OutTree(v) /\ DOMAIN v = DOMAIN o
          /\ \A q \in DOMAIN o : v[q].kind = o[q].kind /\ (q # d => v[q] = o[q])
        BY ONLY OutTree(o), <1>2, <2>2, <2>3, EditTree
    <2>6. Keeps(o, v, {})
        BY <1>2, <2>5 DEF Keeps
    <2> QED
        BY <2>4, <2>5, <2>6
<1> QED
    BY <1>1, <1>2

LEMMA StepFix ==
    ASSUME NEW ls, NEW P, NEW o, NEW o0, NEW r, NEW u, NEW x,
           RestInv(ls, P, o, o0, r), r.pc = "fix", OutTree(u), Keeps(o, u, {}),
           IsRs(x), x.pc = "fix", x.pos = r.pos, x.inodes = r.inodes, IsSeq(x.dirtimes),
           \A i \in DOMAIN x.dirtimes : \E j \in DOMAIN r.dirtimes :
              x.dirtimes[i] = r.dirtimes[j]
    PROVE  RestInv(ls, P, u, o0, x)
<1>1. ~ OwnFile(o, r) /\ ~ OwnFile(u, x) /\ ~ OwnDir(o, r) /\ ~ OwnDir(u, x)
    BY DEF OwnFile, OwnDir
<1>2. FilesRight(ls, P, u, o0)
    <2>1. FilesRight(ls, P, o, o0) /\ {} \cap DOMAIN u = {}
        BY DEF RestInv
    <2> QED
        BY <2>1, RightStays
<1>3. Linked(ls, P, u, x.inodes, x.pos, OwnFile(u, x))
    <2>1. Linked(ls, P, o, x.inodes, x.pos, OwnFile(o, r))
        BY DEF RestInv
    <2> QED
        BY <1>1, <2>1, LinkedStays
<1>4. Timed(P, u, x.dirtimes, x.pos, OwnDir(u, x))
    <2>1. Timed(P, o, r.dirtimes, x.pos, OwnDir(o, r))
        BY DEF RestInv
    <2>2. Timed(P, o, x.dirtimes, x.pos, OwnDir(o, r))
        BY <2>1 DEF Timed
    <2> QED
        BY <1>1, <2>2, TimedStays
<1>5. Place(P, x) /\ Temp(ls, u, Tmpname(x.path), x.pc, x.pos)
    BY DEF RestInv, Place, Busy, Temp
<1> QED
    BY <1>2, <1>3, <1>4, <1>5 DEF RestInv

----------------------------------------------------------------------------
(***************************************************************************)
(* The steps of a restore.                                                 *)
(***************************************************************************)
\* The contents of regular files are bytes.
LineBytes(ls) ==
    \A i \in DOMAIN ls : ls[i].kind = "file" => R!Contents(ls[i]) \in Bytes

Fields(x, pc, pos, dir, path, inodes, dirtimes) ==
    /\ IsRs(x) /\ x.pc = pc /\ x.pos = pos /\ x.dir = dir /\ x.path = path
    /\ x.inodes = inodes /\ x.dirtimes = dirtimes

\* The run with one thing changed.
LEMMA ChangedRun ==
    ASSUME NEW r, IsRs(r), NEW v, NEW x
    PROVE
      /\ x = [r EXCEPT !.pc = v] => Fields(x, v, r.pos, r.dir, r.path, r.inodes, r.dirtimes)
      /\ x = [r EXCEPT !.pos = v] => Fields(x, r.pc, v, r.dir, r.path, r.inodes, r.dirtimes)
      /\ x = [r EXCEPT !.dir = v] => Fields(x, r.pc, r.pos, v, r.path, r.inodes, r.dirtimes)
      /\ x = [r EXCEPT !.path = v] => Fields(x, r.pc, r.pos, r.dir, v, r.inodes, r.dirtimes)
      /\ x = [r EXCEPT !.inodes = v] => Fields(x, r.pc, r.pos, r.dir, r.path, v, r.dirtimes)
      /\ x = [r EXCEPT !.dirtimes = v] => Fields(x, r.pc, r.pos, r.dir, r.path, r.inodes, v)
      /\ x = [r EXCEPT !.errors = v] => Fields(x, r.pc, r.pos, r.dir, r.path, r.inodes, r.dirtimes)
      /\ x = [r EXCEPT !.left = v] => Fields(x, r.pc, r.pos, r.dir, r.path, r.inodes, r.dirtimes)
<1>1. PICK pc, pos, dir, path, inodes, dirtimes, errors, left :
         r = [pc |-> pc, pos |-> pos, dir |-> dir, path |-> path, inodes |-> inodes,
              dirtimes |-> dirtimes, errors |-> errors, left |-> left]
    BY DEF IsRs
<1>2. /\ r.pc = pc /\ r.pos = pos /\ r.dir = dir /\ r.path = path
      /\ r.inodes = inodes /\ r.dirtimes = dirtimes
    BY <1>1
<1>3. ASSUME x = [r EXCEPT !.pc = v]
      PROVE  Fields(x, v, r.pos, r.dir, r.path, r.inodes, r.dirtimes)
    <2>1. x = [pc |-> v, pos |-> pos, dir |-> dir, path |-> path, 
              inodes |-> inodes, dirtimes |-> dirtimes, errors |-> errors, left |-> left]
        BY <1>1, <1>3
    <2> QED
        BY <1>2, <2>1 DEF Fields, IsRs
<1>4. ASSUME x = [r EXCEPT !.pos = v]
      PROVE  Fields(x, r.pc, v, r.dir, r.path, r.inodes, r.dirtimes)
    <2>1. x = [pc |-> pc, pos |-> v, dir |-> dir, path |-> path, 
              inodes |-> inodes, dirtimes |-> dirtimes, errors |-> errors, left |-> left]
        BY <1>1, <1>4
    <2> QED
        BY <1>2, <2>1 DEF Fields, IsRs
<1>5. ASSUME x = [r EXCEPT !.dir = v]
      PROVE  Fields(x, r.pc, r.pos, v, r.path, r.inodes, r.dirtimes)
    <2>1. x = [pc |-> pc, pos |-> pos, dir |-> v, path |-> path, 
              inodes |-> inodes, dirtimes |-> dirtimes, errors |-> errors, left |-> left]
        BY <1>1, <1>5
    <2> QED
        BY <1>2, <2>1 DEF Fields, IsRs
<1>6. ASSUME x = [r EXCEPT !.path = v]
      PROVE  Fields(x, r.pc, r.pos, r.dir, v, r.inodes, r.dirtimes)
    <2>1. x = [pc |-> pc, pos |-> pos, dir |-> dir, path |-> v, 
              inodes |-> inodes, dirtimes |-> dirtimes, errors |-> errors, left |-> left]
        BY <1>1, <1>6
    <2> QED
        BY <1>2, <2>1 DEF Fields, IsRs
<1>7. ASSUME x = [r EXCEPT !.inodes = v]
      PROVE  Fields(x, r.pc, r.pos, r.dir, r.path, v, r.dirtimes)
    <2>1. x = [pc |-> pc, pos |-> pos, dir |-> dir, path |-> path, 
              inodes |-> v, dirtimes |-> dirtimes, errors |-> errors, left |-> left]
        BY <1>1, <1>7
    <2> QED
        BY <1>2, <2>1 DEF Fields, IsRs
<1>8. ASSUME x = [r EXCEPT !.dirtimes = v]
      PROVE  Fields(x, r.pc, r.pos, r.dir, r.path, r.inodes, v)
    <2>1. x = [pc |-> pc, pos |-> pos, dir |-> dir, path |-> path, 
              inodes |-> inodes, dirtimes |-> v, errors |-> errors, left |-> left]
        BY <1>1, <1>8
    <2> QED
        BY <1>2, <2>1 DEF Fields, IsRs
<1>9. ASSUME x = [r EXCEPT !.errors = v]
      PROVE  Fields(x, r.pc, r.pos, r.dir, r.path, r.inodes, r.dirtimes)
    <2>1. x = [pc |-> pc, pos |-> pos, dir |-> dir, path |-> path, 
              inodes |-> inodes, dirtimes |-> dirtimes, errors |-> v, left |-> left]
        BY <1>1, <1>9
    <2> QED
        BY <1>2, <2>1 DEF Fields, IsRs
<1>10. ASSUME x = [r EXCEPT !.left = v]
      PROVE  Fields(x, r.pc, r.pos, r.dir, r.path, r.inodes, r.dirtimes)
    <2>1. x = [pc |-> pc, pos |-> pos, dir |-> dir, path |-> path, 
              inodes |-> inodes, dirtimes |-> dirtimes, errors |-> errors, left |-> v]
        BY <1>1, <1>10
    <2> QED
        BY <1>2, <2>1 DEF Fields, IsRs
<1> QED
    BY <1>3, <1>4, <1>5, <1>6, <1>7, <1>8, <1>9, <1>10


\* The tree is that which line after line was restored to, as far as rs says.
RestOK(P) == Describes(lines, P) /\ Together(P) /\ RestInv(lines, P, out, out0, rs)

LEMMA FailInv ==
    ASSUME NEW P, RestOK(P), R!Fail
    PROVE  RestInv(lines, P, out, out0, rs')
<1>1. PICK x : x = rs'
    OBVIOUS
<1>2. x = [pc |-> "idle", pos |-> 1, dir |-> Root, path |-> Root, inodes |-> EmptyMap,
           dirtimes |-> <<>>, errors |-> FALSE, left |-> {}]
    BY <1>1, SameOperators DEF R!Fail, R!RestoreIdle
<1>3. IsRs(x) /\ x.pc = "idle" /\ x.pos = 1 /\ x.inodes = EmptyMap /\ x.dirtimes = <<>>
    BY <1>2 DEF IsRs
<1>4. OutTree(out) /\ FilesRight(lines, P, out, out0)
    BY DEF RestOK, RestInv
<1>5. RestInv(lines, P, out, out0, x)
    BY <1>3, <1>4, FreshRun
<1> QED
    BY <1>1, <1>5

LEMMA GotoFields ==
    ASSUME IsRs(rs), NEW pc, R!Goto(pc)
    PROVE  Fields(rs', pc, rs.pos, rs.dir, rs.path, rs.inodes, rs.dirtimes)
<1>1. PICK r, x : r = rs /\ x = rs'
    OBVIOUS
<1>2. IsRs(r) /\ x = [r EXCEPT !.pc = pc]
    BY <1>1 DEF R!Goto
<1>3. Fields(x, pc, r.pos, r.dir, r.path, r.inodes, r.dirtimes)
    BY <1>2, ChangedRun
<1> QED
    BY <1>1, <1>3

LEMMA BusyState ==
    ASSUME NEW P, RestOK(P), rs.pc \in Busy
    PROVE  /\ rs.pos \in DOMAIN lines /\ rs.pos \in DOMAIN P /\ rs.pos \in Nat /\ rs.path = P[rs.pos]
           /\ rs.path \in Numbers /\ rs.path # Root /\ Parent(rs.path) # rs.path
           /\ R!Tmp = Tmpname(rs.path) /\ R!Tmp \in Numbers /\ R!Tmp # Root /\ R!Tmp # rs.path
           /\ Parent(R!Tmp) = Parent(rs.path) /\ Parent(R!Tmp) # R!Tmp
           /\ OutTree(out) /\ IsRs(rs)
<1>1. /\ rs.pos \in DOMAIN lines /\ rs.pos \in DOMAIN P /\ rs.pos \in Nat /\ rs.path = P[rs.pos]
      /\ rs.path \in Numbers /\ rs.path # Root
    BY BusyLine DEF RestOK
<1>2. /\ Tmpname(rs.path) \in Numbers /\ Tmpname(rs.path) # Root /\ Tmpname(rs.path) # rs.path
      /\ Parent(Tmpname(rs.path)) = Parent(rs.path) /\ Parent(rs.path) # rs.path
    BY <1>1, TmpnameOf
<1>3. R!Tmp = Tmpname(rs.path)
    BY SameOperators DEF R!Tmp
<1>4. Parent(R!Tmp) # R!Tmp
    BY <1>2, <1>3, TmpnameOf
<1>5. OutTree(out) /\ IsRs(rs)
    BY DEF RestOK, RestInv
<1> QED
    BY <1>1, <1>2, <1>3, <1>4, <1>5

\* The temporary file is made.
LEMMA MakeInv ==
    ASSUME NEW P, RestOK(P), rs.pc = "make", R!CanMake(R!Tmp),
           NEW n, NodeOK(n), R!Make(R!Tmp, n),
           NEW pc \in {"fill", "times", "rename"}, R!Goto(pc),
           pc = "fill" => /\ n.kind = "file" /\ lines[rs.pos].kind = "file"
                          /\ Begins(n.data, R!Contents(lines[rs.pos])),
           pc = "times" => n.kind = lines[rs.pos].kind /\ n.kind # "file",
           pc = "rename" => n.kind = "file" /\ RightBy(lines, n, rs.pos)
    PROVE  RestInv(lines, P, out', out0, rs')
<1>1. PICK t : t = R!Tmp
    OBVIOUS
<1>2. /\ t = Tmpname(rs.path) /\ t \in Numbers /\ t # Root /\ Parent(t) # t
      /\ OutTree(out) /\ IsRs(rs)
    BY <1>1, BusyState DEF Busy
<1>3. /\ t \notin DOMAIN out
      /\ Parent(t) = Root \/ (Parent(t) \in DOMAIN out /\ out[Parent(t)].kind = "dir")
    BY <1>1, SameOperators DEF R!CanMake, R!OutDir
<1>4. PICK u : u = out'
    OBVIOUS
<1>5. u = R!Touched(Put(out, t, n), Parent(t))
    BY <1>1, <1>4, SameOperators DEF R!Make
<1>6. /\ OutTree(u) /\ Keeps(out, u, {t}) /\ t \in DOMAIN u /\ u[t] = n
      /\ \A q \in DOMAIN u : Parent(q) # t
    BY <1>2, <1>3, <1>5, MakeTree
<1>7. PICK x : x = rs'
    OBVIOUS
<1>8. Fields(x, pc, rs.pos, rs.dir, rs.path, rs.inodes, rs.dirtimes)
    BY <1>2, <1>7, GotoFields
<1>9. Temp(lines, u, t, x.pc, rs.pos)
    BY <1>6, <1>8 DEF Temp, Fields
<1>10. ~ OwnFile(out, rs) /\ ~ OwnDir(out, rs)
    BY DEF OwnFile, OwnDir
<1>11. RestInv(lines, P, u, out0, x)
    BY <1>2, <1>6, <1>8, <1>9, <1>10, StepWithin DEF RestOK, Busy, Fields
<1> QED
    BY <1>4, <1>7, <1>11

LEMMA NewNodeOK ==
    ASSUME NEW kind, NEW data
    PROVE  /\ NodeOK(R!NewNode(kind, data)) /\ R!NewNode(kind, data).kind = kind
           /\ R!NewNode(kind, data).data = data
<1>1. PICK id, n : id = R!FreshId /\ n = R!NewNode(kind, data)
    OBVIOUS
<1>2. n = [kind |-> kind, data |-> data, mtime |-> Now, id |-> id]
    BY <1>1 DEF R!NewNode
<1>3. NodeOK(n) /\ n.kind = kind /\ n.data = data
    BY <1>2 DEF NodeOK
<1> QED
    BY <1>1, <1>3

LEMMA MakeLinkInv ==
    ASSUME NEW P, RestOK(P), R!MakeLink(lines)
    PROVE  RestInv(lines, P, out', out0, rs')
<1> DEFINE k == lines[rs.pos].inode
           old == rs.inodes[k]
<1>1. rs.pc = "make" /\ k \in DOMAIN rs.inodes
    BY DEF R!MakeLink, R!Known, R!This
<1>2. \/ /\ old \in DOMAIN out /\ R!CanMake(R!Tmp)
         /\ R!Make(R!Tmp, out[old]) /\ R!Goto("rename")
      \/ R!Fail /\ out' = out
    BY DEF R!MakeLink, R!This
<1>3. CASE R!Fail /\ out' = out
    BY <1>3, FailInv
<1>4. CASE /\ old \in DOMAIN out /\ R!CanMake(R!Tmp)
           /\ R!Make(R!Tmp, out[old]) /\ R!Goto("rename")
    <2>1. ~ OwnFile(out, rs)
        BY <1>1 DEF OwnFile
    <2>2. k # None /\ \E j \in DOMAIN lines : lines[j].inode = k /\ OfLine(lines, out[old], j)
          /\ out[old].kind = "file"
        BY <1>1, <1>4, <2>1, SMTT(60) DEF RestOK, RestInv, Linked
    <2>3. RightBy(lines, out[old], rs.pos)
        BY <2>2 DEF RightBy
    <2>4. NodeOK(out[old])
        BY <1>4 DEF RestOK, RestInv, OutTree
    <2>5. PICK n : n = out[old]
        OBVIOUS
    <2> QED
        BY <1>1, <1>4, <2>2, <2>3, <2>4, <2>5, MakeInv
<1> QED
    BY <1>2, <1>3, <1>4

LEMMA MakeFileInv ==
    ASSUME NEW P, RestOK(P), LineBytes(lines), R!MakeFile(lines)
    PROVE  RestInv(lines, P, out', out0, rs')
<1>1. rs.pc = "make" /\ lines[rs.pos].kind = "file"
    BY DEF R!MakeFile, R!Makes, R!This
<1>2. \/ /\ R!CanMake(R!Tmp)
         /\ R!Make(R!Tmp, R!NewNode("file", <<>>)) /\ R!Goto("fill")
      \/ R!Fail /\ out' = out
    BY DEF R!MakeFile
<1>3. CASE R!Fail /\ out' = out
    BY <1>3, FailInv
<1>4. CASE /\ R!CanMake(R!Tmp)
           /\ R!Make(R!Tmp, R!NewNode("file", <<>>)) /\ R!Goto("fill")
    <2>1. PICK n : n = R!NewNode("file", <<>>)
        OBVIOUS
    <2>2. NodeOK(n) /\ n.kind = "file" /\ n.data = <<>>
        BY <2>1, NewNodeOK
    <2>3. R!Contents(lines[rs.pos]) \in Bytes
        BY <1>1, BusyState DEF LineBytes, Busy
    <2>4. Begins(<<>>, R!Contents(lines[rs.pos]))
        <3>1. PICK c \in Bytes : c = R!Contents(lines[rs.pos])
            BY <2>3
        <3>2. <<>> \in Bytes /\ Len(<<>>) = 0 /\ Len(c) \in Nat
            BY EmptySeq, LenProperties DEF Bytes
        <3>3. Begins(<<>>, c)
            BY <3>2 DEF Begins
        <3> QED
            BY <3>1, <3>3
    <2>5. R!Make(R!Tmp, n)
        BY <1>4, <2>1
    <2> QED
        BY <1>1, <1>4, <2>2, <2>4, <2>5, MakeInv
<1> QED
    BY <1>2, <1>3, <1>4


LEMMA NextLineFields ==
    ASSUME IsRs(rs)
    PROVE  Fields(R!NextLine, "read", rs.pos + 1, rs.dir, rs.path, rs.inodes, rs.dirtimes)
<1>1. PICK r, y : r = rs /\ y = R!NextLine
    OBVIOUS
<1>2. PICK u : u = [r EXCEPT !.pc = "read"]
    OBVIOUS
<1>3. Fields(u, "read", r.pos, r.dir, r.path, r.inodes, r.dirtimes)
    BY <1>1, <1>2, ChangedRun
<1>4. PICK p : p = r.pos + 1
    OBVIOUS
<1>5. y = [u EXCEPT !.pos = p]
    BY <1>1, <1>2, <1>4 DEF R!NextLine
<1>6. IsRs(u)
    BY <1>3 DEF Fields
<1>7. Fields(y, u.pc, p, u.dir, u.path, u.inodes, u.dirtimes)
    BY <1>5, <1>6, ChangedRun
<1>8. Fields(y, "read", r.pos + 1, r.dir, r.path, r.inodes, r.dirtimes)
    BY <1>3, <1>4, <1>7 DEF Fields
<1> QED
    BY <1>1, <1>8

\* The line is left as it is.
LEMMA SkipInv ==
    ASSUME NEW P, RestOK(P), rs.pc = "make", out' = out,
           \/ \E left : rs' = [R!NextLine EXCEPT !.left = left]
           \/ rs' = [R!NextLine EXCEPT !.errors = TRUE]
    PROVE  RestInv(lines, P, out', out0, rs')
<1>1. PICK x, y : x = rs' /\ y = R!NextLine
    OBVIOUS
<1>2. Fields(y, "read", rs.pos + 1, rs.dir, rs.path, rs.inodes, rs.dirtimes)
    BY <1>1, NextLineFields DEF RestOK, RestInv
<1>3. IsRs(y)
    BY <1>2 DEF Fields
<1>4. Fields(x, y.pc, y.pos, y.dir, y.path, y.inodes, y.dirtimes)
    <2>1. ASSUME NEW left, x = [y EXCEPT !.left = left]
          PROVE  Fields(x, y.pc, y.pos, y.dir, y.path, y.inodes, y.dirtimes)
        BY <1>3, <2>1, ChangedRun
    <2>2. ASSUME NEW e, x = [y EXCEPT !.errors = e]
          PROVE  Fields(x, y.pc, y.pos, y.dir, y.path, y.inodes, y.dirtimes)
        BY <1>3, <2>2, ChangedRun
    <2>3. \/ \E left : x = [y EXCEPT !.left = left]
          \/ x = [y EXCEPT !.errors = TRUE]
        BY <1>1
    <2> QED
        BY <2>1, <2>2, <2>3
<1>5. Fields(x, "read", rs.pos + 1, rs.dir, rs.path, rs.inodes, rs.dirtimes)
    BY <1>2, <1>4 DEF Fields
<1>6. RestInv(lines, P, out, out0, x)
    BY <1>5, StepSkip DEF RestOK, Fields
<1> QED
    BY <1>1, <1>6

LEMMA MakeOthersInv ==
    ASSUME NEW P, RestOK(P), R!MakeOther(lines) \/ R!MakeSocket(lines) \/ R!LeaveDir(lines)
    PROVE  RestInv(lines, P, out', out0, rs')
<1>1. ASSUME NEW kind, NEW data, rs.pc = "make", lines[rs.pos].kind = kind, kind # "file",
             R!CanMake(R!Tmp), R!Make(R!Tmp, R!NewNode(kind, data)), R!Goto("times")
      PROVE  RestInv(lines, P, out', out0, rs')
    <2>1. PICK n : n = R!NewNode(kind, data)
        OBVIOUS
    <2>2. NodeOK(n) /\ n.kind = kind
        BY <2>1, NewNodeOK
    <2>3. R!Make(R!Tmp, n)
        BY <1>1, <2>1
    <2> QED
        BY <1>1, <2>2, <2>3, MakeInv
<1>2. CASE R!MakeOther(lines)
    <2>1. /\ rs.pc = "make" /\ lines[rs.pos].kind # "file"
          /\ \/ \E data : /\ R!CanMake(R!Tmp)
                          /\ R!Make(R!Tmp, R!NewNode(lines[rs.pos].kind, data))
                          /\ R!Goto("times")
             \/ R!Fail /\ out' = out
        BY <1>2 DEF R!MakeOther, R!Makes, R!This
    <2>2. CASE R!Fail /\ out' = out
        BY <2>2, FailInv
    <2> QED
        BY <1>1, <2>1, <2>2
<1>3. CASE R!MakeSocket(lines)
    <2>1. /\ rs.pc = "make" /\ lines[rs.pos].kind = "socket"
          /\ \/ /\ R!CanMake(R!Tmp) /\ R!Make(R!Tmp, R!NewNode("socket", <<>>))
                /\ R!Goto("times")
             \/ rs' = [R!NextLine EXCEPT !.errors = TRUE] /\ out' = out
        BY <1>3 DEF R!MakeSocket, R!Makes, R!This
    <2>2. CASE rs' = [R!NextLine EXCEPT !.errors = TRUE] /\ out' = out
        BY <2>1, <2>2, SkipInv
    <2> QED
        BY <1>1, <2>1, <2>2
<1>4. CASE R!LeaveDir(lines)
    <2>1. PICK left : rs' = [R!NextLine EXCEPT !.left = left]
        BY <1>4 DEF R!LeaveDir
    <2> QED
        BY <1>4, <2>1, SkipInv DEF R!LeaveDir, R!Makes
<1> QED
    BY <1>2, <1>3, <1>4

\* The block after those that d has of c.
LEMMA NextBlock ==
    ASSUME NEW d, NEW c, Begins(d, c), ~ Len(d) >= Len(c)
    PROVE  Begins(Append(d, c[Len(d) + 1]), c)
<1>1. d \in Seq(Byte) /\ c \in Seq(Byte) /\ Len(d) \in Nat /\ Len(c) \in Nat
      /\ DOMAIN d = 1 .. Len(d) /\ DOMAIN c = 1 .. Len(c)
    BY LenProperties DEF Begins, Bytes
<1>2. Len(d) + 1 \in 1 .. Len(c)
    BY <1>1
<1>3. PICK b \in Byte : b = c[Len(d) + 1]
    BY <1>1, <1>2, ElementOfSeq
<1>4. PICK e : e = Append(d, b)
    OBVIOUS
<1>5. /\ e \in Seq(Byte) /\ Len(e) = Len(d) + 1
      /\ \A i \in 1 .. Len(d) : e[i] = d[i]
      /\ e[Len(d) + 1] = b
    BY <1>1, <1>4, AppendProperties
<1>6. \A i \in 1 .. Len(e) : e[i] = c[i]
    <2>1. \A i \in 1 .. Len(e) : i \in 1 .. Len(d) \/ i = Len(d) + 1
        BY <1>1, <1>5
    <2> QED
        BY <1>3, <1>5, <2>1 DEF Begins
<1> QED
    BY <1>1, <1>2, <1>3, <1>4, <1>5, <1>6 DEF Begins, Bytes

LEMMA AllBlocks ==
    ASSUME NEW d, NEW c, Begins(d, c), Len(d) >= Len(c)
    PROVE  d = c
<1>1. d \in Seq(Byte) /\ c \in Seq(Byte) /\ Len(d) \in Nat /\ Len(c) \in Nat
    BY LenProperties DEF Begins, Bytes
<1>2. Len(d) = Len(c) /\ \A i \in 1 .. Len(d) : d[i] = c[i]
    BY <1>1 DEF Begins
<1> QED
    BY <1>1, <1>2, SeqEqual

LEMMA FillInv ==
    ASSUME NEW P, RestOK(P), R!Fill(lines, objs)
    PROVE  RestInv(lines, P, out', out0, rs')
<1> DEFINE c == R!Contents(lines[rs.pos])
<1>1. PICK t : t = R!Tmp
    OBVIOUS
<1>2. rs.pc = "fill"
    BY DEF R!Fill
<1>3. /\ t = Tmpname(rs.path) /\ t \in Numbers /\ OutTree(out) /\ IsRs(rs)
    BY <1>1, <1>2, BusyState DEF Busy
<1>4. /\ t \in DOMAIN out /\ \A q \in DOMAIN out : Parent(q) # t
      /\ out[t].kind = "file" /\ lines[rs.pos].kind = "file" /\ Begins(out[t].data, c)
    BY <1>2, <1>3 DEF RestOK, RestInv, Temp
<1>5. \/ R!Fail /\ out' = out
      \/ /\ rs' = rs /\ ~ Len(out[t].data) >= Len(c)
         /\ out' = [out EXCEPT ![t].data = Append(out[t].data, c[Len(out[t].data) + 1])]
    BY <1>1, <1>4 DEF R!Fill, R!AtEnd, R!This
<1> HIDE DEF c
<1>6. CASE R!Fail /\ out' = out
    BY <1>6, FailInv
<1>7. CASE /\ rs' = rs /\ ~ Len(out[t].data) >= Len(c)
           /\ out' = [out EXCEPT ![t].data = Append(out[t].data, c[Len(out[t].data) + 1])]
    <2>1. PICK d : d = Append(out[t].data, c[Len(out[t].data) + 1])
        OBVIOUS
    <2>2. Begins(d, c)
        BY <1>4, <1>7, <2>1, NextBlock
    <2>3. PICK m : m = out[t]
        OBVIOUS
    <2>4. PICK n : n = [m EXCEPT !.data = d]
        OBVIOUS
    <2>5. NodeOK(n) /\ n.kind = "file" /\ n.data = d
        BY <1>3, <1>4, <2>3, <2>4, FillNode DEF OutTree
    <2>6. PICK o, u : o = out /\ u = [o EXCEPT ![t] = n]
        OBVIOUS
    <2>7. u = out'
        BY <1>7, <2>1, <2>3, <2>4, <2>6
    <2>8. /\ OutTree(u) /\ Keeps(o, u, {t}) /\ DOMAIN u = DOMAIN o /\ u[t] = n
        BY <1>3, <1>4, <2>5, <2>6, EditTree, ZenonT(60)
    <2>9. Temp(lines, u, t, rs.pc, rs.pos)
        BY <1>2, <1>4, <2>2, <2>5, <2>6, <2>8 DEF Temp, c
    <2>10. ~ OwnFile(out, rs) /\ ~ OwnDir(out, rs)
        BY <1>2 DEF OwnFile, OwnDir
    <2>11. RestInv(lines, P, u, out0, rs)
        BY <1>2, <1>3, <2>6, <2>8, <2>9, <2>10, StepWithin DEF RestOK, Busy
    <2> QED
        BY <1>7, <2>7, <2>11
<1> QED
    BY <1>5, <1>6, <1>7

LEMMA FilledInv ==
    ASSUME NEW P, RestOK(P), R!Filled(lines, objs)
    PROVE  RestInv(lines, P, out', out0, rs')
<1> DEFINE k == lines[rs.pos].inode
           c == R!Contents(lines[rs.pos])
<1>1. PICK t : t = R!Tmp
    OBVIOUS
<1>2. rs.pc = "fill" /\ Len(out[t].data) >= Len(c) /\ out' = out
    BY <1>1 DEF R!Filled, R!AtEnd, R!This
<1>3. t = Tmpname(rs.path) /\ IsRs(rs)
    BY <1>1, <1>2, BusyState DEF Busy
<1>4. Begins(out[t].data, c)
    BY <1>2, <1>3 DEF RestOK, RestInv, Temp
<1> HIDE DEF c
<1>5. out[t].data = c
    BY <1>2, <1>4, AllBlocks
<1>6. PICK r, x, i : /\ r = rs /\ x = rs'
                     /\ i = IF k = None THEN rs.inodes ELSE Put(rs.inodes, k, rs.path)
    OBVIOUS
<1>7. PICK u : u = [r EXCEPT !.pc = "times"]
    OBVIOUS
<1>8. x = [u EXCEPT !.inodes = i]
    BY <1>6, <1>7, SameOperators DEF R!Filled, R!This
<1>9. Fields(u, "times", r.pos, r.dir, r.path, r.inodes, r.dirtimes)
    BY <1>3, <1>6, <1>7, ChangedRun
<1>10. IsRs(u)
    BY <1>9 DEF Fields
<1>11. Fields(x, u.pc, u.pos, u.dir, u.path, i, u.dirtimes)
    BY <1>8, <1>10, ChangedRun
<1>12. Fields(x, "times", rs.pos, rs.dir, rs.path, i, rs.dirtimes)
    BY <1>6, <1>9, <1>11 DEF Fields
<1>13. RestInv(lines, P, out, out0, x)
    BY <1>2, <1>3, <1>5, <1>6, <1>12, StepFilled DEF RestOK, Fields, c
<1> QED
    BY <1>2, <1>6, <1>13


LEMMA SetTimesInv ==
    ASSUME NEW P, RestOK(P), R!SetTimes(lines)
    PROVE  RestInv(lines, P, out', out0, rs')
<1>1. PICK t : t = R!Tmp
    OBVIOUS
<1>2. rs.pc = "times"
    BY DEF R!SetTimes
<1>3. t = Tmpname(rs.path) /\ OutTree(out) /\ IsRs(rs) /\ rs.pos \in DOMAIN lines
    BY <1>1, <1>2, BusyState DEF Busy
<1>4. /\ t \in DOMAIN out /\ \A q \in DOMAIN out : Parent(q) # t
      /\ out[t].kind = lines[rs.pos].kind
      /\ out[t].kind = "file" => out[t].data = R!Contents(lines[rs.pos])
    BY <1>2, <1>3 DEF RestOK, RestInv, Temp
<1>5. PICK r, x : r = rs /\ x = rs'
    OBVIOUS
<1>6. CASE lines[rs.pos].kind = "dir"
    <2>1. PICK e : e = [dir |-> rs.path, mtime |-> lines[rs.pos].mtime]
        OBVIOUS
    <2>2. PICK u : u = [r EXCEPT !.pc = "rename"]
        OBVIOUS
    <2>3. PICK ds : ds = Append(r.dirtimes, e)
        OBVIOUS
    <2>4. x = [u EXCEPT !.dirtimes = ds] /\ out' = out
        BY <1>5, <1>6, <2>1, <2>2, <2>3 DEF R!SetTimes, R!This
    <2>5. Fields(u, "rename", r.pos, r.dir, r.path, r.inodes, r.dirtimes)
        BY <1>3, <1>5, <2>2, ChangedRun
    <2>6. IsRs(u)
        BY <2>5 DEF Fields
    <2>7. Fields(x, u.pc, u.pos, u.dir, u.path, u.inodes, ds)
        BY <2>4, <2>6, ChangedRun
    <2>8. Fields(x, "rename", rs.pos, rs.dir, rs.path, rs.inodes, ds)
        BY <1>5, <2>5, <2>7 DEF Fields
    <2>9. e.dir = rs.path
        BY <2>1
    <2>10. RestInv(lines, P, out, out0, x)
        BY <1>2, <1>5, <1>6, <2>3, <2>8, <2>9, StepDirTimes DEF RestOK, Fields
    <2> QED
        BY <1>5, <2>4, <2>10
<1>7. CASE lines[rs.pos].kind # "dir"
    <2>1. /\ R!Goto("rename")
          /\ out' = IF lines[rs.pos].kind = "link" THEN out
                    ELSE [out EXCEPT ![t].mtime = lines[rs.pos].mtime]
        BY <1>1, <1>7 DEF R!SetTimes, R!This
    <2>2. Fields(x, "rename", rs.pos, rs.dir, rs.path, rs.inodes, rs.dirtimes)
        BY <1>3, <1>5, <2>1, GotoFields
    <2>3. PICK u : u = out'
        OBVIOUS
    <2>4. /\ OutTree(u) /\ Keeps(out, u, {t}) /\ t \in DOMAIN u /\ u[t].kind = out[t].kind
          /\ u[t].kind = "file" =>
                u[t].data = out[t].data /\ u[t].mtime = lines[rs.pos].mtime
        <3>1. CASE lines[rs.pos].kind = "link"
            <4>1. u = out
                BY <2>1, <2>3, <3>1
            <4> QED
                BY <1>3, <1>4, <3>1, <4>1 DEF Keeps
        <3>2. CASE lines[rs.pos].kind # "link"
            <4>1. PICK o, m : o = out /\ m = out[t]
                OBVIOUS
            <4>2. PICK n : n = [m EXCEPT !.mtime = lines[rs.pos].mtime]
                OBVIOUS
            <4>3. /\ NodeOK(n) /\ n.kind = m.kind /\ n.data = m.data
                  /\ n.mtime = lines[rs.pos].mtime
                BY <1>3, <1>4, <4>1, <4>2, TouchNode DEF OutTree
            <4>4. u = [o EXCEPT ![t] = n]
                BY <2>1, <2>3, <3>2, <4>1, <4>2
            <4>5. OutTree(u) /\ Keeps(o, u, {t}) /\ DOMAIN u = DOMAIN o /\ u[t] = n
                BY <1>3, <1>4, <4>1, <4>3, <4>4, EditTree
            <4> QED
                BY <1>4, <4>1, <4>3, <4>5
        <3> QED
            BY <3>1, <3>2
    <2>5. u[t].kind = "file" => RightBy(lines, u[t], rs.pos)
        BY <1>3, <1>4, <2>4 DEF RightBy, OfLine
    <2>6. \A q \in DOMAIN u : Parent(q) # t
        <3>1. \A q \in DOMAIN u : q \in DOMAIN out
            BY <1>4, <2>4 DEF Keeps
        <3> QED
            BY <1>4, <3>1
    <2>7. Temp(lines, u, t, x.pc, rs.pos)
        BY <2>2, <2>4, <2>5, <2>6 DEF Temp, Fields
    <2>8. /\ OwnFile(out, rs) => OwnFile(u, x)
          /\ OwnDir(out, rs) => OwnDir(u, x)
        BY <1>2, <1>3, <2>2, <2>4 DEF OwnFile, OwnDir, Fields
    <2>9. RestInv(lines, P, u, out0, x)
        BY <1>2, <1>3, <2>2, <2>4, <2>7, <2>8, StepWithin DEF RestOK, Busy, Fields
    <2> QED
        BY <1>5, <2>3, <2>9
<1> QED
    BY <1>6, <1>7

\* What cannot be removed, or overwritten by a rename, has something in it.
LEMMA NothingIn ==
    ASSUME OutTree(out), NEW p \in Numbers, ~ R!NotEmpty(p)
    PROVE  \A q \in DOMAIN out : Parent(q) # p
<1> SUFFICES ASSUME NEW q \in DOMAIN out, Parent(q) = p PROVE FALSE
    OBVIOUS
<1>1. Below(p, q)
    BY BelowParent DEF OutTree
<1> QED
    BY <1>1, SameOperators DEF R!NotEmpty

\* The directory a file is in is none.
LEMMA InNoFile ==
    ASSUME NEW o, OutTree(o), NEW p \in DOMAIN o, Parent(p) \in DOMAIN o
    PROVE  o[Parent(p)].kind # "file"
<1>1. Root \notin DOMAIN o
    BY DEF OutTree
<1>2. o[Parent(p)].kind = "dir"
    BY <1>1 DEF OutTree
<1> QED
    BY <1>2

LEMMA RenameInv ==
    ASSUME NEW P, RestOK(P), R!RenameInto
    PROVE  RestInv(lines, P, out', out0, rs')
<1>1. PICK t, p : t = R!Tmp /\ p = rs.path
    OBVIOUS
<1>2. rs.pc = "rename"
    BY DEF R!RenameInto
<1>3. /\ t = Tmpname(rs.path) /\ t \in Numbers /\ p \in Numbers /\ p # Root /\ p # t
      /\ Parent(p) = Parent(t) /\ Parent(p) # p /\ Parent(p) # t
      /\ OutTree(out) /\ IsRs(rs)
    BY <1>1, <1>2, BusyState DEF Busy
<1>4. t \in DOMAIN out /\ \A q \in DOMAIN out : Parent(q) # t
    BY <1>2, <1>3 DEF RestOK, RestInv, Temp
<1>5. \/ R!Fail /\ out' = out
      \/ /\ R!CanRename(t, p) /\ rs' = R!NextLine
         /\ out' = R!Touched(Drop(Put(out, p, out[t]), t), Parent(p))
    BY <1>1, SameOperators DEF R!RenameInto, R!RenamedIntoPlace
<1>6. CASE R!Fail /\ out' = out
    BY <1>6, FailInv
<1>7. CASE /\ R!CanRename(t, p) /\ rs' = R!NextLine
           /\ out' = R!Touched(Drop(Put(out, p, out[t]), t), Parent(p))
    <2>1. \A q \in DOMAIN out : Parent(q) # p
        <3>1. CASE p \in DOMAIN out
            <4>1. ~ R!NotEmpty(p)
                BY <1>7, <3>1 DEF R!CanRename
            <4> QED
                BY <1>3, <4>1, NothingIn
        <3>2. CASE p \notin DOMAIN out
            BY <1>3, <3>2 DEF OutTree
        <3> QED
            BY <3>1, <3>2
    <2>2. PICK o, u : o = out /\ u = out'
        OBVIOUS
    <2>3. u = R!Touched(Drop(Put(o, p, o[t]), t), Parent(p))
        BY <1>7, <2>2
    <2>4. OutTree(u) /\ Keeps(o, u, {p}) /\ p \in DOMAIN u /\ u[p] = o[t]
        BY <1>3, <1>4, <2>1, <2>2, <2>3, RenameTree
    <2>5. PICK x : x = rs'
        OBVIOUS
    <2>6. Fields(x, "read", rs.pos + 1, rs.dir, rs.path, rs.inodes, rs.dirtimes)
        BY <1>3, <1>7, <2>5, NextLineFields
    <2>7. RestInv(lines, P, u, out0, x)
        BY <1>1, <1>2, <1>3, <2>2, <2>4, <2>6, StepRename DEF RestOK, Fields
    <2> QED
        BY <2>2, <2>5, <2>7
<1> QED
    BY <1>5, <1>6, <1>7

LEMMA FixInv ==
    ASSUME NEW P, RestOK(P), R!FixTimes
    PROVE  RestInv(lines, P, out', out0, rs')
<1>1. PICK o, u, r, x : o = out /\ u = out' /\ r = rs /\ x = rs'
    OBVIOUS
<1>2. PICK ds, mtime, d : /\ ds = Tail(r.dirtimes) /\ mtime = Head(r.dirtimes).mtime
                          /\ d = Head(r.dirtimes).dir
    OBVIOUS
<1>3. /\ r.pc = "fix" /\ r.dirtimes # <<>> /\ x = [r EXCEPT !.dirtimes = ds]
      /\ u = [o EXCEPT ![d].mtime = mtime]
    BY <1>1, <1>2 DEF R!FixTimes
<1>4. RestInv(lines, P, o, out0, r) /\ OutTree(o) /\ IsRs(r)
    BY <1>1 DEF RestOK, RestInv
<1>5. Fields(x, r.pc, r.pos, r.dir, r.path, r.inodes, ds)
    BY <1>3, <1>4, ChangedRun
<1>6. PICK S : r.dirtimes \in Seq(S)
    BY <1>4 DEF RestInv, IsSeq
<1>7. /\ ds \in Seq(S) /\ 1 \in DOMAIN r.dirtimes /\ Head(r.dirtimes) = r.dirtimes[1]
      /\ \A i \in DOMAIN ds : i + 1 \in DOMAIN r.dirtimes /\ ds[i] = r.dirtimes[i + 1]
    BY <1>2, <1>3, <1>6, TailSeq
<1>8. d \in DOMAIN o => o[d].kind # "file"
    <2>1. ~ OwnDir(o, r)
        BY <1>3 DEF OwnDir
    <2> QED
        BY <1>2, <1>4, <1>7, <2>1 DEF RestInv, Timed
<1>9. OutTree(u) /\ Keeps(o, u, {})
    BY ONLY <1>3, <1>4, <1>8, FixTree
<1>10. /\ r.pc = "fix" /\ IsRs(x) /\ x.pc = "fix" /\ x.pos = r.pos /\ x.inodes = r.inodes
       /\ IsSeq(x.dirtimes)
       /\ \A i \in DOMAIN x.dirtimes : \E j \in DOMAIN r.dirtimes :
             x.dirtimes[i] = r.dirtimes[j]
    BY <1>3, <1>5, <1>7 DEF Fields, IsSeq
<1>11. RestInv(lines, P, u, out0, x)
    BY <1>4, <1>9, <1>10, StepFix
<1> QED
    BY <1>1, <1>11

LEMMA EndInv ==
    ASSUME NEW P, RestOK(P), R!ReadEnd(lines, end) \/ R!RestoreDone
    PROVE  RestInv(lines, P, out', out0, rs')
<1>1. PICK x : x = rs'
    OBVIOUS
<1>2. /\ rs.pc \in {"read", "fix"} /\ out' = out
      /\ R!Fail \/ R!Goto("fix") \/ R!Goto("done")
    BY DEF R!ReadEnd, R!RestoreDone, R!Goto
<1>3. CASE R!Fail
    BY <1>2, <1>3, FailInv
<1>4. ASSUME NEW pc \in {"fix", "done"}, R!Goto(pc) PROVE RestInv(lines, P, out', out0, rs')
    <2>1. RestInv(lines, P, out, out0, rs) /\ IsRs(rs)
        BY DEF RestOK, RestInv
    <2>2. Fields(x, pc, rs.pos, rs.dir, rs.path, rs.inodes, rs.dirtimes)
        BY <1>1, <1>4, <2>1, GotoFields
    <2>3. RestInv(lines, P, out, out0, x)
        BY <1>2, <2>1, <2>2, EndRun DEF Fields
    <2> QED
        BY <1>1, <1>2, <2>3
<1> QED
    BY <1>2, <1>3, <1>4

LEMMA StartInv ==
    ASSUME NEW P, RestOK(P), R!StartRestore
    PROVE  RestInv(lines, P, out', out0, rs')
<1>1. PICK r, x : r = R!RestoreIdle /\ x = rs'
    OBVIOUS
<1>2. r = [pc |-> "idle", pos |-> 1, dir |-> Root, path |-> Root, inodes |-> EmptyMap,
           dirtimes |-> <<>>, errors |-> FALSE, left |-> {}]
    BY <1>1, SameOperators DEF R!RestoreIdle
<1>3. IsRs(r) /\ r.pos = 1 /\ r.inodes = EmptyMap /\ r.dirtimes = <<>>
    BY <1>2 DEF IsRs
<1>4. x = [r EXCEPT !.pc = "read"] /\ out' = out
    BY <1>1 DEF R!StartRestore
<1>5. Fields(x, "read", r.pos, r.dir, r.path, r.inodes, r.dirtimes)
    BY <1>3, <1>4, ChangedRun
<1>6. OutTree(out) /\ FilesRight(lines, P, out, out0)
    BY DEF RestOK, RestInv
<1>7. RestInv(lines, P, out, out0, x)
    BY <1>3, <1>5, <1>6, FreshRun DEF Fields
<1> QED
    BY <1>1, <1>4, <1>7


\* dir is the directory of the line before line i.
DirBefore(P, i, dir) == i # 1 => i - 1 \in DOMAIN P /\ dir = Parent(P[i - 1])

\* The path that a restore makes of the name in line i.
LEMMA ResolveLine ==
    ASSUME NEW ls, NEW P, Describes(ls, P), NEW i \in DOMAIN P, NEW dir,
           DirBefore(P, i, dir)
    PROVE  /\ P[i] \in Numbers /\ P[i] # Root
           /\ ls[i].name.rel => dir \o ls[i].name.path = P[i] /\ dir = Parent(P[i])
           /\ ~ ls[i].name.rel => ls[i].name.path = P[i]
<1>1. DOMAIN P = 1 .. Len(P) /\ Len(P) \in Nat
    BY SeqLength DEF Describes, IsSeq
<1>2. P[i] \in Numbers /\ P[i] # Root
    BY ElementOfSeq, <1>1 DEF Describes
<1>3. ls[i].name.path = IF ls[i].name.rel THEN <<Base(P[i])>> ELSE P[i]
    BY DEF Describes
<1>4. CASE ~ ls[i].name.rel
    BY <1>2, <1>3, <1>4
<1>5. CASE ls[i].name.rel
    <2>1. PICK j \in 1 .. i : /\ ~ ls[j].name.rel /\ Parent(P[j]) = Parent(P[i])
                              /\ \A k \in j + 1 .. i : ls[k].name.rel
        BY DEF Describes
    <2>2. j # i
        BY <1>5, <2>1
    <2>3. i # 1 /\ j \in 1 .. i - 1
        BY <1>1, <2>2
    <2>4. i - 1 \in DOMAIN P /\ dir = Parent(P[i - 1])
        BY <2>3 DEF DirBefore
    <2>5. PICK m \in 1 .. i - 1 : /\ ~ ls[m].name.rel /\ Parent(P[m]) = Parent(P[i - 1])
                                  /\ \A k \in m + 1 .. i - 1 : ls[k].name.rel
        BY <2>4 DEF Describes
    <2>6. ~ m < j
        <3>1. m < j => j \in m + 1 .. i - 1
            BY <1>1, <2>3
        <3> QED
            BY <2>1, <2>5, <3>1
    <2>7. ~ j < m
        <3>1. j < m => m \in j + 1 .. i
            BY <1>1, <2>3
        <3> QED
            BY <2>1, <2>5, <3>1
    <2>8. m = j
        BY <1>1, <2>3, <2>6, <2>7
    <2>9. dir = Parent(P[i])
        BY <2>1, <2>4, <2>5, <2>8
    <2>10. Parent(P[i]) \in Seq(Nat) /\ Base(P[i]) \in Nat
           /\ P[i] = Append(Parent(P[i]), Base(P[i]))
        BY <1>2, ParentOf DEF Numbers
    <2>11. Parent(P[i]) \o <<Base(P[i])>> = Append(Parent(P[i]), Base(P[i]))
        BY <2>10, AppendIsConcat
    <2> QED
        BY <1>2, <1>3, <1>5, <2>9, <2>10, <2>11
<1> QED
    BY <1>4, <1>5

LEMMA ReadLineInv ==
    ASSUME NEW P, RestOK(P), R!ReadLine(lines)
    PROVE  RestInv(lines, P, out', out0, rs')
<1>1. rs.pc = "read" /\ rs.pos \in DOMAIN lines
    BY DEF R!ReadLine
<1>2. rs.pos \in DOMAIN P
    <2>1. Len(P) = Len(lines) /\ DOMAIN P = 1 .. Len(P) /\ DOMAIN lines = 1 .. Len(lines)
        BY SeqLength DEF RestOK, Describes, IsSeq
    <2> QED
        BY <1>1, <2>1
<1>3. PICK p, dir : /\ p = R!Resolve(lines[rs.pos].name)
                    /\ dir = IF lines[rs.pos].name.rel THEN rs.dir ELSE Parent(p)
    OBVIOUS
<1>4. p = P[rs.pos] /\ dir = Parent(p) /\ p \in Numbers /\ p # Root
    <2>1. PICK ls, i, dd : ls = lines /\ i = rs.pos /\ dd = rs.dir
        OBVIOUS
    <2>2. Describes(ls, P) /\ i \in DOMAIN P /\ DirBefore(P, i, dd)
        BY <1>1, <1>2, <2>1 DEF RestOK, RestInv, Place, DirBefore
    <2>3. /\ P[i] \in Numbers /\ P[i] # Root
          /\ ls[i].name.rel => dd \o ls[i].name.path = P[i] /\ dd = Parent(P[i])
          /\ ~ ls[i].name.rel => ls[i].name.path = P[i]
        BY <2>2, ResolveLine
    <2>4. p = IF ls[i].name.rel THEN dd \o ls[i].name.path ELSE ls[i].name.path
        BY <1>3, <2>1 DEF R!Resolve
    <2>5. p = P[i]
        BY <2>3, <2>4
    <2>6. dir = Parent(p)
        BY <1>3, <2>1, <2>3, <2>5
    <2> QED
        BY <2>1, <2>3, <2>5, <2>6
<1>5. PICK r, x : r = rs /\ x = rs'
    OBVIOUS
<1>6. Fields(x, "make", rs.pos, dir, p, rs.inodes, rs.dirtimes)
    <2>1. IsRs(r)
        BY <1>5 DEF RestOK, RestInv
    <2>2. PICK u : u = [r EXCEPT !.pc = "make"]
        OBVIOUS
    <2>3. Fields(u, "make", r.pos, r.dir, r.path, r.inodes, r.dirtimes)
        BY <2>1, <2>2, ChangedRun
    <2>4. PICK v : v = [u EXCEPT !.path = p]
        OBVIOUS
    <2>5. IsRs(u)
        BY <2>3 DEF Fields
    <2>6. Fields(v, u.pc, u.pos, u.dir, p, u.inodes, u.dirtimes)
        BY <2>4, <2>5, ChangedRun
    <2>7. x = [v EXCEPT !.dir = dir]
        <3>1. dir = IF lines[rs.pos].name.rel THEN r.dir ELSE R!Parent(p)
            BY <1>3, <1>5, SameOperators
        <3>2. x = [r EXCEPT !.pc = "make", !.path = p, !.dir = dir]
            BY <1>3, <1>5, <3>1 DEF R!ReadLine
        <3> QED
            BY <2>2, <2>4, <3>2
    <2>8. IsRs(v)
        BY <2>6 DEF Fields
    <2>9. Fields(x, v.pc, v.pos, dir, v.path, v.inodes, v.dirtimes)
        BY <2>7, <2>8, ChangedRun
    <2> QED
        BY <1>5, <2>3, <2>6, <2>9 DEF Fields
<1>7. PICK t, o, u : t = Tmpname(p) /\ o = out /\ u = out'
    OBVIOUS
<1>8. /\ t \in Numbers /\ t # Root
    BY <1>4, <1>7, TmpnameOf
<1>9. OutTree(o)
    BY <1>7 DEF RestOK, RestInv
<1>10. OutTree(u) /\ Keeps(o, u, {})
    <2>1. u = IF R!CanRemove(t) THEN R!Touched(Drop(o, t), Parent(t)) ELSE o
        BY <1>3, <1>7, SameOperators DEF R!ReadLine, R!Cleared, R!Removed
    <2>2. CASE ~ R!CanRemove(t)
        <3>1. u = o
            BY <2>1, <2>2
        <3> QED
            BY <1>9, <3>1 DEF Keeps
    <2>3. CASE R!CanRemove(t)
        <3>1. t \in DOMAIN o /\ ~ R!NotEmpty(t)
            BY <1>7, <2>3 DEF R!CanRemove
        <3>2. \A q \in DOMAIN o : Parent(q) # t
            BY <1>7, <1>8, <1>9, <3>1, NothingIn
        <3>3. Parent(t) \in DOMAIN o => o[Parent(t)].kind # "file"
            BY <1>9, <3>1, InNoFile
        <3>4. u = R!Touched(Drop(o, t), Parent(t))
            BY <2>1, <2>3
        <3> QED
            BY <1>9, <3>2, <3>3, <3>4, RemoveTree
    <2> QED
        BY <2>2, <2>3
<1>11. RestInv(lines, P, o, out0, rs)
    BY <1>7 DEF RestOK
<1>12. /\ IsRs(x) /\ x.pc = "make" /\ x.pos = rs.pos /\ x.path = P[rs.pos]
       /\ x.dir = Parent(x.path) /\ x.inodes = rs.inodes /\ x.dirtimes = rs.dirtimes
    BY <1>4, <1>6 DEF Fields
<1>13. RestInv(lines, P, u, out0, x)
    BY <1>1, <1>2, <1>10, <1>11, <1>12, StepRead
<1> QED
    BY <1>5, <1>7, <1>13

LEMMA RestoreStepInv ==
    ASSUME NEW P, RestOK(P), LineBytes(lines), R!RestoreStep(lines, end, objs)
    PROVE  RestInv(lines, P, out', out0, rs')
BY ReadLineInv, EndInv, MakeLinkInv, MakeFileInv, MakeOthersInv, FillInv, FilledInv,
   SetTimesInv, RenameInv, FixInv DEF R!RestoreStep


----------------------------------------------------------------------------
(***************************************************************************)
(* The backup before them: regular files have bytes, and so have the lines *)
(* that are written of them.                                               *)
(***************************************************************************)
SrcOK(n) == \E kind, ino, mtime : \E data \in Bytes :
               n = [kind |-> kind, data |-> data, ino |-> ino, mtime |-> mtime]

\* A size that lstat gave is that of a sequence of bytes.
Sizes(w) ==
    /\ w.pc \in {"list", "lstat"} => \A n \in DOMAIN w.s : w.s[n].size \in Nat
    /\ w.pc = "line" => \A i \in DOMAIN w.ci : w.s[w.ci[i]].size \in Nat

DataInv == (\A p \in DOMAIN tree : SrcOK(tree[p])) /\ Sizes(walk) /\ LineBytes(lines)

LEMMA SrcData ==
    ASSUME NEW n, SrcOK(n), NEW t
    PROVE  n.data \in Bytes /\ Len(n.data) \in Nat /\ SrcOK([n EXCEPT !.mtime = t])
<1>1. PICK kind, ino, mtime : \E data \in Bytes :
         n = [kind |-> kind, data |-> data, ino |-> ino, mtime |-> mtime]
    BY DEF SrcOK
<1>2. PICK data \in Bytes :
         n = [kind |-> kind, data |-> data, ino |-> ino, mtime |-> mtime]
    BY <1>1
<1>3. PICK x : x = [n EXCEPT !.mtime = t]
    OBVIOUS
<1>4. x = [kind |-> kind, data |-> data, ino |-> ino, mtime |-> t]
    BY <1>2, <1>3
<1>5. SrcOK(x)
    BY <1>4 DEF SrcOK
<1>6. n.data = data /\ Len(data) \in Nat
    BY <1>2, LenProperties DEF Bytes
<1> QED
    BY <1>3, <1>5, <1>6

LEMMA SrcEdit ==
    ASSUME NEW n, SrcOK(n), NEW d \in Bytes, NEW t
    PROVE  SrcOK([n EXCEPT !.data = d, !.mtime = t])
<1>1. PICK kind, ino, mtime : \E data \in Bytes :
         n = [kind |-> kind, data |-> data, ino |-> ino, mtime |-> mtime]
    BY DEF SrcOK
<1>2. PICK data \in Bytes :
         n = [kind |-> kind, data |-> data, ino |-> ino, mtime |-> mtime]
    BY <1>1
<1>3. PICK u : u = [n EXCEPT !.data = d]
    OBVIOUS
<1>4. u = [kind |-> kind, data |-> d, ino |-> ino, mtime |-> mtime]
    BY <1>2, <1>3
<1>5. SrcOK(u)
    BY <1>4 DEF SrcOK
<1>6. [n EXCEPT !.data = d, !.mtime = t] = [u EXCEPT !.mtime = t]
    BY <1>3
<1> QED
    BY <1>5, <1>6, SrcData

\* What users make of the tree.
LEMMA BecomesData ==
    ASSUME NEW t, \A p \in DOMAIN t : SrcOK(t[p]), NEW D, Becomes(t, D), DataInv
    PROVE  DataInv'
<1>1. \A p \in DOMAIN tree' : SrcOK(tree'[p])
    <2> SUFFICES ASSUME NEW p \in DOMAIN tree' PROVE SrcOK(tree'[p])
        OBVIOUS
    <2>1. tree' = [q \in DOMAIN t |-> IF q \in D THEN [t[q] EXCEPT !.mtime = Now] ELSE t[q]]
        BY DEF Becomes
    <2>2. p \in DOMAIN t
        BY <2>1
    <2>3. PICK n : n = t[p]
        OBVIOUS
    <2>4. SrcOK(n) /\ SrcOK([n EXCEPT !.mtime = Now])
        BY <2>2, <2>3, SrcData
    <2>5. tree'[p] = IF p \in D THEN [n EXCEPT !.mtime = Now] ELSE n
        BY <2>1, <2>2, <2>3
    <2> QED
        BY <2>4, <2>5
<1>2. walk' = walk /\ lines' = lines
    BY DEF Becomes
<1> QED
    BY <1>1, <1>2 DEF DataInv

LEMMA PutData ==
    ASSUME NEW t, \A p \in DOMAIN t : SrcOK(t[p]), NEW q, NEW n, SrcOK(n)
    PROVE  \A p \in DOMAIN Put(t, q, n) : SrcOK(Put(t, q, n)[p])
BY DEF Put

LEMMA ChangeData ==
    ASSUME DataInv, Change
    PROVE  DataInv'
<1>0. \A p \in DOMAIN tree : SrcOK(tree[p])
    BY DEF DataInv
<1>1. ASSUME NEW p, NEW kind, Create(p, kind) PROVE DataInv'
    <2>1. PICK i, n : n = [kind |-> kind, data |-> <<>>, ino |-> i, mtime |-> Now]
                      /\ Becomes(Put(tree, p, n), {Parent(p)})
        BY <1>1 DEF Create
    <2>2. <<>> \in Bytes
        BY EmptySeq DEF Bytes
    <2>3. SrcOK(n)
        BY <2>1, <2>2 DEF SrcOK
    <2>4. PICK t : t = Put(tree, p, n)
        OBVIOUS
    <2>5. \A q \in DOMAIN t : SrcOK(t[q])
        BY <1>0, <2>3, <2>4, PutData
    <2> QED
        BY <2>1, <2>4, <2>5, BecomesData
<1>2. ASSUME NEW p \in DOMAIN tree, Edit(p) PROVE DataInv'
    <2>1. PICK d \in {<<>>, Append(tree[p].data, CHOOSE b \in Byte : TRUE)} :
             Becomes([q \in DOMAIN tree |->
                         IF q \in Links(p) THEN [tree[q] EXCEPT !.data = d, !.mtime = Now]
                         ELSE tree[q]], {})
        BY <1>2 DEF Edit
    <2>2. d \in Bytes
        <3>1. PICK b : b = CHOOSE c \in Byte : TRUE
            OBVIOUS
        <3>2. b \in Byte
            BY <3>1, ByteAssumption
        <3>3. tree[p].data \in Seq(Byte)
            BY <1>0, SrcData DEF Bytes
        <3>4. Append(tree[p].data, b) \in Seq(Byte) /\ <<>> \in Seq(Byte)
            BY <3>2, <3>3, AppendProperties, EmptySeq
        <3> QED
            BY <3>1, <3>4 DEF Bytes
    <2>3. PICK t : t = [q \in DOMAIN tree |->
                          IF q \in Links(p) THEN [tree[q] EXCEPT !.data = d, !.mtime = Now]
                          ELSE tree[q]]
        OBVIOUS
    <2>4. ASSUME NEW q \in DOMAIN t PROVE SrcOK(t[q])
        <3>1. PICK n : n = tree[q]
            OBVIOUS
        <3>2. SrcOK(n) /\ SrcOK([n EXCEPT !.data = d, !.mtime = Now])
            BY <1>0, <2>2, <2>3, <3>1, SrcEdit
        <3>3. t[q] = IF q \in Links(p) THEN [n EXCEPT !.data = d, !.mtime = Now] ELSE n
            BY <2>3, <3>1
        <3> QED
            BY <3>2, <3>3
    <2> QED
        BY <2>1, <2>3, <2>4, BecomesData
<1>3. ASSUME NEW p \in DOMAIN tree, Unlink(p) PROVE DataInv'
    <2>1. PICK t : t = Drop(tree, p)
        OBVIOUS
    <2>2. Becomes(t, {Parent(p)})
        BY <1>3, <2>1 DEF Unlink
    <2>3. \A q \in DOMAIN t : SrcOK(t[q])
        BY <1>0, <2>1 DEF Drop
    <2> QED
        BY <2>2, <2>3, BecomesData
<1>4. ASSUME NEW p \in DOMAIN tree, NEW q, AddLink(p, q) PROVE DataInv'
    <2>1. PICK n, t : n = tree[p] /\ t = Put(tree, q, n)
        OBVIOUS
    <2>2. Becomes(t, {Parent(q)})
        BY <1>4, <2>1 DEF AddLink
    <2>3. \A x \in DOMAIN t : SrcOK(t[x])
        BY <1>0, <2>1, PutData
    <2> QED
        BY <2>2, <2>3, BecomesData
<1>5. ASSUME NEW p \in DOMAIN tree, NEW q, Rename(p, q) PROVE DataInv'
    <2> DEFINE Stays == {x \in DOMAIN tree : x # p /\ ~ Below(p, x)}
               Goes == DOMAIN tree \ Stays
               To(x) == q \o SubSeq(x, Len(p) + 1, Len(x))
               t == [y \in Stays \cup {To(x) : x \in Goes} |->
                        IF y \in Stays THEN tree[y]
                        ELSE tree[CHOOSE x \in Goes : To(x) = y]]
    <2>1. Becomes(t, {Parent(p), Parent(q)})
        BY <1>5 DEF Rename
    <2>2. ASSUME NEW y \in DOMAIN t PROVE SrcOK(t[y])
        <3>1. CASE y \in Stays
            <4>1. t[y] = tree[y] /\ y \in DOMAIN tree
                BY <3>1
            <4> QED
                BY <1>0, <4>1
        <3>2. CASE y \notin Stays
            <4> HIDE DEF Stays, Goes, To
            <4>1. \E x \in Goes : To(x) = y
                BY <2>2, <3>2
            <4>2. PICK z : z = CHOOSE x \in Goes : To(x) = y
                OBVIOUS
            <4>3. z \in Goes
                BY <4>1, <4>2
            <4>4. z \in DOMAIN tree
                BY <4>3 DEF Goes
            <4>5. t[y] = tree[z]
                BY <2>2, <3>2, <4>2
            <4> QED
                BY <1>0, <4>4, <4>5
        <3> QED
            BY <3>1, <3>2
    <2> HIDE DEF t
    <2> QED
        BY <2>1, <2>2, BecomesData
<1> QED
    BY <1>1, <1>2, <1>3, <1>4, <1>5 DEF Change


LEMMA SortedRun ==
    ASSUME NEW w, NEW pc, NEW ci, NEW x, IsRun(w), x = [w EXCEPT !.pc = pc, !.ci = ci]
    PROVE  x = [pc |-> pc, dirs |-> w.dirs, names |-> w.names, s |-> w.s, ci |-> ci,
                first |-> w.first, subdirs |-> w.subdirs]
<1>1. PICK p, dirs, n, s, c, f, b :
         w = [pc |-> p, dirs |-> dirs, names |-> n, s |-> s, ci |-> c, first |-> f, subdirs |-> b]
    BY DEF IsRun
<1>2. PICK u : u = [w EXCEPT !.pc = pc]
    OBVIOUS
<1>3. u = [pc |-> pc, dirs |-> dirs, names |-> n, s |-> s, ci |-> c, first |-> f, subdirs |-> b]
    BY <1>1, <1>2
<1>4. x = [u EXCEPT !.ci = ci]
    BY <1>2
<1>5. x = [pc |-> pc, dirs |-> dirs, names |-> n, s |-> s, ci |-> ci, first |-> f, subdirs |-> b]
    BY <1>3, <1>4
<1> QED
    BY <1>1, <1>5

\* What the runs' steps leave of the sizes.
LEMMA SizesStep ==
    ASSUME WalkInv, DataInv,
           Contents \/ (\E n \in Name : Lstat(n)) \/ Sort \/ DirDone
    PROVE  Sizes(walk')
<1>1. Active(walk)
    BY DEF Contents, Lstat, Sort, DirDone, Active
<1>2. IsRun(walk)
    BY <1>1 DEF WalkInv, Ahead, RunShape
<1>3. PICK w, x : w = walk /\ x = walk'
    OBVIOUS
<1>8. IsRun(w)
    BY <1>2, <1>3
<1>4. CASE Contents
    <2>1. PICK names : x = [w EXCEPT !.pc = "lstat", !.names = names]
        BY <1>3, <1>4 DEF Contents
    <2>2. x = [pc |-> "lstat", dirs |-> w.dirs, names |-> names, s |-> w.s, ci |-> w.ci,
               first |-> w.first, subdirs |-> w.subdirs]
        BY <1>8, <2>1, ListedRun
    <2>3. x.pc = "lstat" /\ x.s = w.s
        BY <2>2
    <2>4. \A n \in DOMAIN w.s : w.s[n].size \in Nat
        BY <1>3, <1>4 DEF DataInv, Sizes, Contents
    <2> QED
        BY <1>3, <2>3, <2>4 DEF Sizes
<1>5. ASSUME NEW n \in Name, Lstat(n) PROVE Sizes(walk')
    <2>1. PICK st : st = StatOf(Full(n))
        OBVIOUS
    <2>2. PICK names, s : /\ names = w.names \ {n}
                          /\ s = IF Kept(Full(n)) THEN Put(w.s, n, st) ELSE w.s
        OBVIOUS
    <2>3. x = [w EXCEPT !.names = names, !.s = s]
        BY <1>3, <1>5, <2>1, <2>2 DEF Lstat
    <2>4. x = [pc |-> w.pc, dirs |-> w.dirs, names |-> names, s |-> s, ci |-> w.ci,
               first |-> w.first, subdirs |-> w.subdirs]
        BY <1>8, <2>3, StattedRun
    <2>9. w.pc = "lstat"
        BY <1>3, <1>5 DEF Lstat
    <2>5. x.pc = "lstat" /\ x.s = s
        BY <2>4, <2>9
    <2>6. \A m \in DOMAIN w.s : w.s[m].size \in Nat
        BY <1>3, <1>5 DEF DataInv, Sizes, Lstat
    <2>7. Kept(Full(n)) => st.size \in Nat
        <3>1. ASSUME Kept(Full(n)) PROVE Len(tree[Full(n)].data) \in Nat
            BY <3>1, SrcData DEF Kept, DataInv
        <3> QED
            BY <2>1, <3>1 DEF StatOf
    <2>8. \A m \in DOMAIN s : s[m].size \in Nat
        BY <2>2, <2>6, <2>7 DEF Put
    <2> QED
        BY <1>3, <2>5, <2>8 DEF Sizes
<1>6. CASE Sort
    <2>1. PICK ci \in Sorted(DOMAIN walk.s) : walk' = [walk EXCEPT !.pc = "line", !.ci = ci]
        BY <1>6 DEF Sort
    <2>5. x = [w EXCEPT !.pc = "line", !.ci = ci]
        BY <1>3, <2>1
    <2>6. x = [pc |-> "line", dirs |-> w.dirs, names |-> w.names, s |-> w.s, ci |-> ci,
               first |-> w.first, subdirs |-> w.subdirs]
        BY <1>8, <2>5, SortedRun
    <2>2. x.pc = "line" /\ x.s = w.s /\ x.ci = ci
        BY <2>6
    <2>3. \A i \in DOMAIN ci : ci[i] \in DOMAIN w.s
        BY <1>3, <2>1 DEF Sorted
    <2>4. \A n \in DOMAIN w.s : w.s[n].size \in Nat
        BY <1>3, <1>6 DEF DataInv, Sizes, Sort
    <2> QED
        BY <1>3, <2>2, <2>3, <2>4 DEF Sizes
<1>7. CASE DirDone
    <2>1. PICK W : W = Waiting
        OBVIOUS
    <2>2. x = [pc |-> IF W = <<>> THEN "done" ELSE "list", dirs |-> W, names |-> {},
               s |-> EmptyMap, ci |-> <<>>, first |-> TRUE, subdirs |-> <<>>]
        BY <1>3, <1>7, <2>1 DEF DirDone, Entered
    <2>3. x.pc # "line" /\ DOMAIN x.s = {}
        BY <2>2 DEF EmptyMap
    <2> QED
        BY <1>3, <2>3 DEF Sizes
<1> QED
    BY <1>4, <1>5, <1>6, <1>7

\* An exception or a signal.
LEMMA DieData ==
    ASSUME WalkInv, DataInv, Walking, Die
    PROVE  DataInv'
<1>1. PICK P : Describes(lines, P) /\ Ahead(P, walk)
    BY DEF WalkInv, Active, Walking
<1>2. PICK k \in 0 .. Len(lines) : lines' = SubSeq(lines, 1, k)
    BY DEF Die
<1>3. IsSeq(lines) /\ IsRun(walk)
    BY <1>1 DEF Describes, Ahead, RunShape
<1>4. PICK ls, l : ls = lines /\ l = lines'
    OBVIOUS
<1>5. DOMAIN l = 1 .. k /\ \A i \in 1 .. k : i \in DOMAIN ls /\ l[i] = ls[i]
    BY <1>2, <1>3, <1>4, PrefixSeq
<1>6. LineBytes(ls)
    BY <1>4 DEF DataInv
<1>7. LineBytes(l)
    BY <1>5, <1>6 DEF LineBytes
<1>8. walk'.pc = "dead"
    <2>1. PICK p, dirs, n, t, c, f, b :
             walk = [pc |-> p, dirs |-> dirs, names |-> n, s |-> t, ci |-> c,
                     first |-> f, subdirs |-> b]
        BY <1>3 DEF IsRun
    <2>2. walk' = [walk EXCEPT !.pc = "dead"]
        BY DEF Die
    <2> QED
        BY <2>1, <2>2
<1>9. tree' = tree
    BY DEF Die
<1> QED
    BY <1>4, <1>7, <1>8, <1>9 DEF DataInv, Sizes

\* A line, with the contents that are right for its kind.
LEMMA WriteData ==
    ASSUME WalkInv, DataInv, Writing, NEW data, NEW sha1, NEW subdirs,
           Write(data, sha1, subdirs),
           Sb.kind = "file" => \/ data \in Bytes /\ sha1 = None
                               \/ data = None /\ sha1 \in Bytes
    PROVE  DataInv'
<1>1. PICK P : Describes(lines, P) /\ Ahead(P, walk)
    BY DEF WalkInv, Active, Writing
<1>2. /\ IsSeq(lines) /\ IsRun(walk) /\ walk.ci \in Seq(Nat) /\ walk.ci # <<>>
      /\ walk.pc = "line"
    BY <1>1 DEF Describes, Ahead, RunShape, Writing
<1>3. PICK l : l = NewLine(data, sha1)
    OBVIOUS
<1>4. l.kind = "file" => R!Contents(l) \in Bytes
    <2>1. PICK name, kind, inode, mtime :
             /\ kind = Sb.kind
             /\ l = [name |-> name, kind |-> kind, data |-> data, sha1 |-> sha1,
                     inode |-> inode, mtime |-> mtime]
        BY <1>3 DEF NewLine
    <2>2. l.kind = Sb.kind /\ l.data = data /\ l.sha1 = sha1
        BY <2>1
    <2> QED
        BY <2>2 DEF R!Contents
<1>5. PICK ls, m : ls = lines /\ m = lines'
    OBVIOUS
<1>6. m = Append(ls, l)
    BY <1>3, <1>5 DEF Write
<1>7. /\ DOMAIN m = 1 .. Len(ls) + 1 /\ Len(ls) \in Nat /\ DOMAIN ls = 1 .. Len(ls)
      /\ \A i \in DOMAIN ls : m[i] = ls[i]
      /\ m[Len(ls) + 1] = l
    BY <1>2, <1>5, <1>6, AppendSeq, SeqLength
<1>8. LineBytes(m)
    <2>1. LineBytes(ls)
        BY <1>5 DEF DataInv
    <2>2. \A i \in DOMAIN m : i \in DOMAIN ls \/ i = Len(ls) + 1
        BY <1>7
    <2> QED
        BY <1>4, <1>7, <2>1, <2>2 DEF LineBytes
<1>9. PICK w, x, T, D : w = walk /\ x = walk' /\ T = Tail(walk.ci) /\ D = walk.subdirs \o subdirs
    OBVIOUS
<1>10. x = [w EXCEPT !.ci = T, !.first = FALSE, !.subdirs = D]
    BY <1>9 DEF Write
<1>11. x = [pc |-> w.pc, dirs |-> w.dirs, names |-> w.names, s |-> w.s, ci |-> T,
            first |-> FALSE, subdirs |-> D]
    <2>1. IsRun(w)
        BY <1>2, <1>9
    <2> QED
        BY <1>10, <2>1, NextRun
<1>12. x.pc = "line" /\ x.s = w.s /\ x.ci = T
    <2>1. w.pc = "line"
        BY <1>2, <1>9
    <2> QED
        BY <1>11, <2>1
<1>13. \A i \in DOMAIN T : i + 1 \in DOMAIN w.ci /\ T[i] = w.ci[i + 1]
    BY <1>2, <1>9, TailSeq
<1>14. \A i \in DOMAIN w.ci : w.s[w.ci[i]].size \in Nat
    BY <1>2, <1>9 DEF DataInv, Sizes
<1>15. Sizes(x)
    BY <1>12, <1>13, <1>14 DEF Sizes
<1>16. tree' = tree
    BY DEF Write
<1> QED
    BY <1>5, <1>8, <1>9, <1>15, <1>16 DEF DataInv


LEMMA DataStep ==
    ASSUME WalkInv, DataInv, [Next]_vars
    PROVE  DataInv'
<1>1. ASSUME UNCHANGED <<tree, walk, lines>> PROVE DataInv'
    BY <1>1 DEF DataInv
<1>2. CASE WalkStep
    <2>1. CASE Contents \/ (\E n \in Name : Lstat(n)) \/ Sort \/ DirDone
        <3>1. Sizes(walk') /\ tree' = tree /\ lines' = lines
            BY <2>1, SizesStep DEF Contents, Lstat, Sort, DirDone
        <3> QED
            BY <3>1 DEF DataInv
    <2>2. CASE ContentsFails \/ LstatFails \/ WriteFails
        BY <2>2, DieData DEF ContentsFails, LstatFails, WriteFails, Walking, Writing
    <2>3. CASE WriteFile
        <3>1. Writing /\ Sb.kind = "file" /\ This \in DOMAIN tree
            BY <2>3 DEF WriteFile, Is
        <3>2. PICK d : d = tree[This].data
            OBVIOUS
        <3>3. d \in Bytes
            BY <3>1, <3>2, SrcData DEF DataInv
        <3>4. \/ /\ Len(d) >= Sb.size
                 /\ Write(SubSeq(d, 1, Sb.size), None, <<>>)
              \/ Write(None, d, <<>>)
            BY <2>3, <3>2 DEF WriteFile
        <3>5. CASE Write(None, d, <<>>)
            BY <3>1, <3>3, <3>5, WriteData
        <3>6. CASE Len(d) >= Sb.size /\ Write(SubSeq(d, 1, Sb.size), None, <<>>)
            <4>1. Sb.size \in Nat
                <5>1. PICK P : Ahead(P, walk)
                    BY <3>1 DEF WalkInv, Active, Writing
                <5>2. walk.ci \in Seq(Nat) /\ walk.ci # <<>>
                    BY <3>1, <5>1 DEF Ahead, RunShape, Writing
                <5>3. 1 \in DOMAIN walk.ci /\ Head(walk.ci) = walk.ci[1]
                    BY <5>2, TailSeq
                <5> QED
                    BY <3>1, <5>3 DEF DataInv, Sizes, Writing, Sb
            <4>2. PICK n \in Nat : n = Sb.size
                BY <4>1
            <4>3. d \in Seq(Byte) /\ Len(d) \in Nat /\ n <= Len(d)
                BY <3>3, <3>6, <4>2, LenProperties DEF Bytes
            <4>4. \A i \in 1 .. n : d[i] \in Byte
                BY <4>3, ElementOfSeq
            <4>5. SubSeq(d, 1, n) \in Bytes
                BY <4>3, <4>4, SubSeqProperties DEF Bytes
            <4>6. PICK e \in Bytes : e = SubSeq(d, 1, Sb.size)
                BY <4>2, <4>5
            <4>7. Write(e, None, <<>>)
                BY <3>6, <4>6
            <4> QED
                BY <3>1, <4>7, WriteData
        <3> QED
            BY <3>4, <3>5, <3>6
    <2>4. CASE WriteDir
        <3>1. Writing /\ Sb.kind # "file" /\ \E s : Write(None, None, s)
            BY <2>4 DEF WriteDir
        <3> QED
            BY <3>1, WriteData
    <2>5. CASE WriteLink \/ WriteSpecial
        <3>1. Writing /\ Sb.kind # "file" /\ \E d : Write(d, None, <<>>)
            BY <2>5 DEF WriteLink, WriteSpecial
        <3> QED
            BY <3>1, WriteData
    <2> QED
        BY <1>2, <2>1, <2>2, <2>3, <2>4, <2>5 DEF WalkStep
<1>3. CASE WalkDies
    BY <1>3, DieData DEF WalkDies
<1>4. CASE Change
    BY <1>4, ChangeData
<1>5. CASE RestoreStarts \/ RestoreRuns \/ RestoreDies \/ LoseObject \/ UNCHANGED vars
    BY <1>1, <1>5 DEF RestoreStarts, RestoreRuns, RestoreDies, LoseObject, vars, wvars
<1> QED
    BY <1>2, <1>3, <1>4, <1>5 DEF Next, Backup, BackupDies, Users

----------------------------------------------------------------------------
(***************************************************************************)
(* Both.                                                                   *)
(***************************************************************************)
\* No restore before the backup is over.
TornInv ==
    /\ OutTree(out0)
    /\ Active(walk) => rs = R!RestoreIdle /\ out = out0
    /\ ~ Active(walk) => \E P : RestOK(P)

LEMMA RestoreIsBusy ==
    ASSUME R!RestoreStep(lines, end, objs)
    PROVE  rs.pc # "idle"
BY DEF R!RestoreStep, R!ReadLine, R!ReadEnd, R!MakeLink, R!MakeFile, R!LeaveDir,
       R!MakeOther, R!MakeSocket, R!Makes, R!Fill, R!Filled, R!SetTimes, R!RenameInto,
       R!FixTimes, R!RestoreDone

LEMMA TornStep ==
    ASSUME WalkInv, WalkInv', DataInv, TornInv, [Next]_vars
    PROVE  TornInv'
<1>1. out0' = out0 /\ OutTree(out0)'
    BY DEF TornInv, Next, Backup, BackupDies, Users, RestoreStarts, RestoreRuns, RestoreDies,
           LoseObject, vars
<1>2. CASE Active(walk)
    <2>1. rs = R!RestoreIdle /\ rs.pc = "idle" /\ out = out0
        BY <1>2 DEF TornInv, R!RestoreIdle
    <2>2. rs' = rs /\ out' = out
        <3>1. ~ RestoreStarts /\ ~ LoseObject
            BY <1>2 DEF RestoreStarts, LoseObject, Walking, Active
        <3>2. ~ RestoreRuns /\ ~ RestoreDies
            BY <2>1, RestoreIsBusy DEF RestoreRuns, RestoreDies
        <3> QED
            BY <3>1, <3>2 DEF Next, Backup, BackupDies, Users, vars
    <2>3. ASSUME ~ Active(walk') PROVE (\E P : RestOK(P))'
        <3>1. PICK P : Describes(lines', P) /\ Together(P)
            BY DEF WalkInv
        <3>2. PICK x : x = rs'
            OBVIOUS
        <3>3. x = [pc |-> "idle", pos |-> 1, dir |-> Root, path |-> Root, inodes |-> EmptyMap,
                   dirtimes |-> <<>>, errors |-> FALSE, left |-> {}]
            BY <2>1, <2>2, <3>2, SameOperators DEF R!RestoreIdle
        <3>4. IsRs(x) /\ x.pc = "idle" /\ x.pos = 1 /\ x.inodes = EmptyMap /\ x.dirtimes = <<>>
            BY <3>3 DEF IsRs
        <3>5. PICK o, ls : o = out0 /\ ls = lines'
            OBVIOUS
        <3>6. OutTree(o) /\ FilesRight(ls, P, o, o)
            BY <3>5 DEF TornInv, FilesRight
        <3>7. RestInv(ls, P, o, o, x)
            BY <3>4, <3>6, FreshRun
        <3>8. RestInv(lines', P, out', out0', rs')
            BY <1>1, <2>1, <2>2, <3>2, <3>5, <3>7
        <3> QED
            BY <3>1, <3>8 DEF RestOK
    <2>4. Active(walk') => (rs = R!RestoreIdle /\ out = out0)'
        <3>1. R!RestoreIdle' = R!RestoreIdle
            BY DEF R!RestoreIdle
        <3> QED
            BY <1>1, <2>1, <2>2, <3>1
    <2> QED
        BY <1>1, <2>3, <2>4 DEF TornInv
<1>3. CASE ~ Active(walk)
    <2>1. /\ walk' = walk /\ lines' = lines
          /\ \/ R!StartRestore \/ R!RestoreStep(lines, end, objs)
             \/ R!Fail /\ out' = out
             \/ rs' = rs /\ out' = out
        <3>1. ~ Backup /\ ~ BackupDies /\ ~ Users
            BY <1>3 DEF Backup, BackupDies, Users, WalkStep, Contents, ContentsFails, Lstat, Sort,
               WriteFile, WriteDir, WriteLink, WriteSpecial, LstatFails, WriteFails, Writing, DirDone,
               WalkDies, Walking, Active, Change, Create, Edit, Unlink, AddLink, Rename, Becomes
        <3> QED
            BY <3>1, SMTT(60) DEF Next, RestoreStarts, RestoreRuns, RestoreDies, LoseObject, vars, wvars
    <2>2. PICK P : RestOK(P)
        BY <1>3 DEF TornInv
    <2>3. LineBytes(lines)
        BY DEF DataInv
    <2>4. RestInv(lines, P, out', out0, rs')
        <3>1. CASE R!StartRestore
            BY <2>2, <3>1, StartInv
        <3>2. CASE R!RestoreStep(lines, end, objs)
            BY <2>2, <2>3, <3>2, RestoreStepInv
        <3>3. CASE R!Fail /\ out' = out
            BY <2>2, <3>3, FailInv
        <3>4. CASE rs' = rs /\ out' = out
            BY <2>2, <3>4 DEF RestOK
        <3> QED
            BY <2>1, <3>1, <3>2, <3>3, <3>4
    <2>5. Describes(lines', P) /\ Together(P) /\ RestInv(lines', P, out', out0', rs')
        BY <1>1, <2>1, <2>2, <2>4 DEF RestOK
    <2>6. (\E Q : RestOK(Q))'
        BY <2>5 DEF RestOK
    <2>7. ~ Active(walk')
        BY <1>3, <2>1
    <2> QED
        BY <1>1, <2>6, <2>7 DEF TornInv
<1> QED
    BY <1>2, <1>3

LEMMA TornInit ==
    ASSUME Init
    PROVE  DataInv /\ TornInv
<1>1. /\ tree \in Trees /\ walk = Entered(<<Root>>) /\ lines = <<>>
      /\ out \in Roots /\ out0 = out /\ rs = R!RestoreIdle
    BY DEF Init, WalkInit
<1>2. \A p \in DOMAIN tree : SrcOK(tree[p])
    <2> SUFFICES ASSUME NEW p \in DOMAIN tree PROVE SrcOK(tree[p])
        OBVIOUS
    <2>1. tree \in [DOMAIN tree -> Node]
        BY <1>1, TreesAssumption DEF IsMap
    <2>2. PICK n \in Node : n = tree[p]
        BY <2>1
    <2>3. /\ n = [kind |-> n.kind, data |-> n.data, ino |-> n.ino, mtime |-> n.mtime]
          /\ n.data \in Bytes
        BY DEF Node
    <2>4. SrcOK(n)
        BY <2>3 DEF SrcOK
    <2> QED
        BY <2>2, <2>4
<1>3. PICK w : w = walk
    OBVIOUS
<1>4. w = [pc |-> "list", dirs |-> <<Root>>, names |-> {}, s |-> EmptyMap, ci |-> <<>>,
           first |-> TRUE, subdirs |-> <<>>]
    BY <1>1, <1>3 DEF Entered
<1>5. w.pc = "list" /\ DOMAIN w.s = {}
    BY <1>4 DEF EmptyMap
<1>6. DataInv
    BY <1>1, <1>2, <1>3, <1>5 DEF DataInv, Sizes, LineBytes
<1>7. OutTree(out)
    <2>1. PICK o \in Roots : o = out
        BY <1>1
    <2>2. /\ DOMAIN o \subseteq Path /\ o \in [DOMAIN o -> R!OutNode]
          /\ \A p \in DOMAIN o :
                p # Root /\ (Parent(p) # Root => Parent(p) \in DOMAIN o /\ o[Parent(p)].kind = "dir")
        BY RootsAssumption DEF IsMap
    <2>3. ASSUME NEW p \in DOMAIN o PROVE NodeOK(o[p])
        <3>1. PICK n \in R!OutNode : n = o[p]
            BY <2>2
        <3>2. n = [kind |-> n.kind, data |-> n.data, mtime |-> n.mtime, id |-> n.id]
            BY DEF R!OutNode
        <3> QED
            BY <3>1, <3>2 DEF NodeOK
    <2>4. OutTree(o)
        BY <2>2, <2>3, PathIsNumbers DEF OutTree
    <2> QED
        BY <2>1, <2>4
<1>8. Active(walk)
    BY <1>3, <1>5 DEF Active
<1> QED
    BY <1>1, <1>6, <1>7, <1>8 DEF TornInv

LEMMA NeverTornOfInv ==
    ASSUME TornInv
    PROVE  NeverTorn
<1>1. CASE Active(walk)
    BY <1>1 DEF TornInv, NeverTorn
<1>2. CASE ~ Active(walk)
    <2>1. PICK P : RestOK(P)
        BY <1>2 DEF TornInv
    <2>2. FilesRight(lines, P, out, out0)
        BY <2>1 DEF RestOK, RestInv
    <2>3. DOMAIN lines = DOMAIN P /\ \A i \in DOMAIN P : LinePath(i) = P[i]
        <3>1. Describes(lines, P)
            BY <2>1 DEF RestOK
        <3>2. Len(P) = Len(lines) /\ DOMAIN P = 1 .. Len(P) /\ DOMAIN lines = 1 .. Len(lines)
            BY <3>1, SeqLength DEF Describes, IsSeq
        <3> QED
            BY <3>1, <3>2, PathOfLine
    <2> SUFFICES ASSUME NEW p \in DOMAIN out, out[p].kind = "file", ~ Temporary(p),
                        p \in DOMAIN out0 => out[p] # out0[p]
                 PROVE  \E i, j \in DOMAIN lines :
                           /\ LinePath(i) = p
                           /\ j = i \/ (lines[j].inode = lines[i].inode /\ lines[i].inode # None)
                           /\ out[p].data = R!Contents(lines[j])
                           /\ out[p].mtime = lines[j].mtime
        BY DEF NeverTorn
    <2>4. ~ \E i \in DOMAIN P : Tmpname(P[i]) = p
        BY <2>3, SameOperators DEF Temporary
    <2>5. PICK i \in DOMAIN P : P[i] = p /\ RightBy(lines, out[p], i)
        BY <2>2, <2>4 DEF FilesRight
    <2> QED
        BY <2>3, <2>5 DEF RightBy, OfLine
<1> QED
    BY <1>1, <1>2

\* At no moment, and wherever restores die and are started again over what they
\* left, is there a regular file under its own name that is not complete, with
\* its contents and times, or as it was before: do_restore fills NAME~restore~
\* and only then renames it (restore.cc), and the order of the lines keeps
\* the temporary names apart from those of files already restored.
THEOREM NothingTorn == Spec => []NeverTorn
<1>1. Init => WalkInv /\ DataInv /\ TornInv
    BY WalkInvInit, TornInit
<1>2. WalkInv /\ [Next]_vars => WalkInv'
    BY WalkInvStep
<1>3. WalkInv /\ DataInv /\ [Next]_vars => DataInv'
    BY DataStep
<1>4. WalkInv /\ WalkInv' /\ DataInv /\ TornInv /\ [Next]_vars => TornInv'
    BY TornStep
<1>5. TornInv => NeverTorn
    BY NeverTornOfInv
<1> QED
    BY <1>1, <1>2, <1>3, <1>4, <1>5, PTL DEF Spec


----------------------------------------------------------------------------
(***************************************************************************)
(* Files that have not changed since the backup began.  A directory that   *)
(* has one of them below it stays where it is, too, but for its time.      *)
(***************************************************************************)
\* q is a directory above p.
Above(q, p) == q # Root /\ q # p /\ Under(p, q)

LEMMA UnderTrans ==
    ASSUME NEW a \in Numbers, NEW b \in Numbers, NEW c \in Numbers, Under(a, b), Under(b, c)
    PROVE  Under(a, c)
<1>1. Len(a) \in Nat /\ Len(b) \in Nat /\ Len(c) \in Nat
    BY LenProperties DEF Numbers
<1>2. \A i \in 1 .. Len(c) : i \in 1 .. Len(b)
    BY <1>1 DEF Under
<1> QED
    BY <1>1, <1>2 DEF Under

LEMMA UnderShorter ==
    ASSUME NEW p \in Numbers, NEW q \in Numbers, Under(p, q), q # p
    PROVE  Len(q) \in Nat /\ Len(p) \in Nat /\ Len(q) < Len(p)
<1>1. Len(p) \in Nat /\ Len(q) \in Nat
    BY LenProperties DEF Numbers
<1>2. CASE Len(q) = Len(p)
    BY <1>1, <1>2, SeqEqual DEF Under, Numbers
<1> QED
    BY <1>1, <1>2 DEF Under

\* Of the files in d one is p or above it, if p is below d.
LEMMA ChildTowards ==
    ASSUME NEW p \in Numbers, NEW d \in Numbers, Under(p, d), d # p
    PROVE  \E n \in Nat : Under(p, Append(d, n))
<1>1. Len(d) \in Nat /\ Len(p) \in Nat /\ Len(d) < Len(p)
    BY UnderShorter
<1>2. Len(d) + 1 \in 1 .. Len(p)
    BY <1>1
<1>3. PICK n \in Nat : n = p[Len(d) + 1]
    BY <1>2, ElementOfSeq DEF Numbers
<1>4. PICK c : c = Append(d, n)
    OBVIOUS
<1>5. /\ Len(c) = Len(d) + 1 /\ c[Len(d) + 1] = n
      /\ \A i \in 1 .. Len(d) : c[i] = d[i]
    BY <1>4, ChildOf
<1>6. \A i \in 1 .. Len(c) : p[i] = c[i]
    <2>1. \A i \in 1 .. Len(c) : i \in 1 .. Len(d) \/ i = Len(d) + 1
        BY <1>1, <1>5
    <2> QED
        BY <1>1, <1>3, <1>5, <2>1 DEF Under
<1>7. Len(c) <= Len(p)
    BY <1>1, <1>5
<1> QED
    BY <1>4, <1>6, <1>7 DEF Under

\* The directory of what is above p is above p as well.
LEMMA ParentAbove ==
    ASSUME NEW p \in Numbers, NEW q \in Numbers, Above(q, p)
    PROVE  Parent(q) \in Numbers /\ (Parent(q) = Root \/ Above(Parent(q), p))
<1>1. PICK d \in Numbers, n \in Nat : d = Parent(q) /\ q = Append(d, n)
    BY ParentOf DEF Above
<1>0. Under(p, Append(d, n)) /\ d \in Numbers /\ n \in Nat
    BY <1>1 DEF Above
<1>2. Under(p, d)
    BY <1>0, UnderChild
<1>3. d # p
    BY <1>0, UnderChild
<1> QED
    BY <1>1, <1>2, <1>3 DEF Above

LEMMA ParentIsAbove ==
    ASSUME NEW p \in Numbers, p # Root, Parent(p) # Root
    PROVE  Above(Parent(p), p)
<1>1. PICK d \in Numbers, n \in Nat : d = Parent(p) /\ p = Append(d, n)
    BY ParentOf
<1>2. Under(p, p) /\ Under(p, d) /\ ~ Under(d, p)
    BY <1>1, UnderSelf, UnderChild
<1>3. d # p
    BY <1>2
<1> QED
    BY <1>1, <1>2, <1>3 DEF Above

LEMMA BelowIsUnder ==
    ASSUME NEW p \in Numbers, NEW q \in Numbers
    PROVE  Below(q, p) <=> Under(p, q) /\ q # p
<1>1. Len(p) \in Nat /\ Len(q) \in Nat /\ IsSeq(p)
    BY LenProperties DEF Numbers, IsSeq
<1>2. ASSUME Below(q, p) PROVE Under(p, q) /\ q # p
    <2>1. Len(q) \in 0 .. Len(p) /\ Len(q) < Len(p) /\ SubSeq(p, 1, Len(q)) = q
        BY <1>1, <1>2 DEF Below
    <2>2. \A i \in 1 .. Len(q) : SubSeq(p, 1, Len(q))[i] = p[i]
        BY <1>1, <2>1, PrefixSeq
    <2>3. \A i \in 1 .. Len(q) : p[i] = q[i]
        BY <2>1, <2>2
    <2> QED
        BY <1>1, <2>1, <2>3 DEF Under
<1>3. ASSUME Under(p, q), q # p PROVE Below(q, p)
    <2>1. Len(q) < Len(p) /\ Len(q) \in 0 .. Len(p)
        BY <1>1, <1>3, UnderShorter
    <2>2. PICK s : s = SubSeq(p, 1, Len(q))
        OBVIOUS
    <2>3. IsSeq(s) /\ Len(s) = Len(q) /\ \A i \in 1 .. Len(q) : s[i] = p[i]
        BY <1>1, <2>1, <2>2, PrefixSeq
    <2>4. PICK S : s \in Seq(S)
        BY <2>3 DEF IsSeq
    <2>5. s \in Seq(S \cup Nat) /\ q \in Seq(S \cup Nat)
        BY <2>4, SeqMonotonic DEF Numbers
    <2>6. \A i \in 1 .. Len(q) : s[i] = q[i]
        BY <1>3, <2>3 DEF Under
    <2>7. s = q
        BY <2>3, <2>5, <2>6, SeqEqual
    <2> QED
        BY <2>1, <2>2, <2>7 DEF Below
<1> QED
    BY <1>2, <1>3

\* What is above p is a beginning of it.
LEMMA AbovePrefix ==
    ASSUME NEW p \in Numbers, NEW q \in Numbers, Above(q, p)
    PROVE  Len(q) \in 1 .. Len(p) - 1 /\ q = SubSeq(p, 1, Len(q))
<1>1. Below(q, p) /\ q # <<>>
    BY BelowIsUnder DEF Above, Root
<1>2. Len(q) \in Nat /\ Len(p) \in Nat /\ Len(q) # 0
    BY <1>1, LenProperties, EmptySeq DEF Numbers
<1> QED
    BY <1>1, <1>2 DEF Below

\* The files of st in the tree g, and the directories above them.
Steady(g, st) ==
    \A p \in st :
       /\ p \in DOMAIN g /\ p \in Path /\ p # Root /\ g[p] \in Node
       /\ \A q \in Numbers : Above(q, p) => q \in DOMAIN g /\ g[q].kind = "dir"

\* What is above p in g is there in h.
KeepsAbove(g, h, p) ==
    \A q \in Numbers : Above(q, p) =>
       q \in DOMAIN h /\ h[q].kind = g[q].kind /\ h[q].ino = g[q].ino

Remains(g, h, st) == \A p \in st : p \in DOMAIN h /\ h[p] = g[p] /\ KeepsAbove(g, h, p)

\* There are finitely many files.
Finite(g) == DOMAIN g \subseteq Numbers /\ IsFiniteSet(DOMAIN g)

LEMMA SrcFields ==
    ASSUME NEW n, SrcOK(n), NEW t
    PROVE  [n EXCEPT !.mtime = t].kind = n.kind /\ [n EXCEPT !.mtime = t].ino = n.ino
<1>1. PICK kind, ino, mtime : \E data \in Bytes :
         n = [kind |-> kind, data |-> data, ino |-> ino, mtime |-> mtime]
    BY DEF SrcOK
<1>2. PICK data \in Bytes :
         n = [kind |-> kind, data |-> data, ino |-> ino, mtime |-> mtime]
    BY <1>1
<1>3. PICK x : x = [n EXCEPT !.mtime = t]
    OBVIOUS
<1>4. x = [kind |-> kind, data |-> data, ino |-> ino, mtime |-> t]
    BY <1>2, <1>3
<1>5. x.kind = kind /\ x.ino = ino /\ n.kind = kind /\ n.ino = ino
    BY <1>2, <1>4
<1> QED
    BY <1>3, <1>5

\* A change leaves t, but for the times of some directories.
LEMMA BecomesRemains ==
    ASSUME NEW t, NEW D, Becomes(t, D), Finite(t), Steady(tree, stable),
           \A p \in stable : p \in DOMAIN t =>
              KeepsAbove(tree, t, p) /\ \A q \in Numbers : Above(q, p) => SrcOK(t[q])
    PROVE  stable' \subseteq stable /\ Remains(tree, tree', stable') /\ Finite(tree')
<1>1. /\ tree' = [q \in DOMAIN t |-> IF q \in D THEN [t[q] EXCEPT !.mtime = Now] ELSE t[q]]
      /\ stable' = {p \in stable : p \in DOMAIN tree' /\ tree'[p] = tree[p]}
    BY DEF Becomes
<1>2. DOMAIN tree' = DOMAIN t
    BY <1>1
<1>3. ASSUME NEW p \in stable' PROVE KeepsAbove(tree, tree', p)
    <2>1. p \in stable /\ p \in DOMAIN t
        BY <1>1, <1>2
    <2> SUFFICES ASSUME NEW q \in Numbers, Above(q, p)
                 PROVE  /\ q \in DOMAIN tree' /\ tree'[q].kind = tree[q].kind
                        /\ tree'[q].ino = tree[q].ino
        BY DEF KeepsAbove
    <2>2. PICK n : n = t[q]
        OBVIOUS
    <2>3. q \in DOMAIN t /\ SrcOK(n) /\ n.kind = tree[q].kind /\ n.ino = tree[q].ino
        BY <2>1, <2>2 DEF KeepsAbove
    <2>4. PICK m : m = tree'[q]
        OBVIOUS
    <2>5. m = IF q \in D THEN [n EXCEPT !.mtime = Now] ELSE n
        BY <1>1, <2>2, <2>3, <2>4
    <2>6. m.kind = n.kind /\ m.ino = n.ino
        BY <2>3, <2>5, SrcFields
    <2> QED
        BY <1>2, <2>3, <2>4, <2>6
<1>4. \A p \in stable' : p \in stable /\ p \in DOMAIN tree' /\ tree'[p] = tree[p]
    BY <1>1
<1>5. Finite(tree')
    BY <1>2 DEF Finite
<1> QED
    BY <1>3, <1>4, <1>5 DEF Remains

LEMMA PutFinite ==
    ASSUME NEW g, Finite(g), NEW p \in Numbers, NEW n
    PROVE  Finite(Put(g, p, n))
<1>1. DOMAIN Put(g, p, n) = DOMAIN g \cup {p}
    BY DEF Put
<1> QED
    BY <1>1, FS_AddElement DEF Finite

\* A file that is not above one of st comes or goes, or changes its data.
LEMMA OthersKept ==
    ASSUME NEW g, NEW t, NEW st, Steady(g, st), \A q \in DOMAIN g : SrcOK(g[q]),
           NEW p \in st,
           \A q \in DOMAIN g : Above(q, p) => q \in DOMAIN t /\ t[q] = g[q]
    PROVE  KeepsAbove(g, t, p) /\ \A q \in Numbers : Above(q, p) => SrcOK(t[q])
<1>1. \A q \in Numbers : Above(q, p) => q \in DOMAIN g
    BY DEF Steady
<1> QED
    BY <1>1 DEF KeepsAbove

LEMMA ChangeRemains ==
    ASSUME Change, Steady(tree, stable), Finite(tree), \A q \in DOMAIN tree : SrcOK(tree[q])
    PROVE  stable' \subseteq stable /\ Remains(tree, tree', stable') /\ Finite(tree')
<1> DEFINE StaysAbove(t) == \A p \in stable : p \in DOMAIN t =>
                 KeepsAbove(tree, t, p) /\ \A q \in Numbers : Above(q, p) => SrcOK(t[q])
<1>1. ASSUME NEW p \in Places, NEW n, NEW D, Becomes(Put(tree, p, n), D), p \notin DOMAIN tree
      PROVE  stable' \subseteq stable /\ Remains(tree, tree', stable') /\ Finite(tree')
    <2>1. PICK t : t = Put(tree, p, n)
        OBVIOUS
    <2>2. Finite(t)
        BY <2>1, PutFinite, PlacesAssumption, PathIsNumbers
    <2>3. \A q \in DOMAIN tree : q \in DOMAIN t /\ t[q] = tree[q]
        BY <1>1, <2>1 DEF Put
    <2>4. StaysAbove(t)
        <3> SUFFICES ASSUME NEW x \in stable
                     PROVE  KeepsAbove(tree, t, x) /\ \A q \in Numbers : Above(q, x) => SrcOK(t[q])
            OBVIOUS
        <3> QED
            BY <2>3, OthersKept, ZenonT(30)
    <2> QED
        BY <1>1, <2>1, <2>2, <2>4, BecomesRemains
<1>2. ASSUME NEW p \in Places, NEW kind, Create(p, kind)
      PROVE  stable' \subseteq stable /\ Remains(tree, tree', stable') /\ Finite(tree')
    <2>1. PICK n : Becomes(Put(tree, p, n), {Parent(p)})
        BY <1>2 DEF Create
    <2> QED
        BY <1>1, <1>2, <2>1 DEF Create, Room
<1>3. ASSUME NEW p \in DOMAIN tree, NEW q \in Places, AddLink(p, q)
      PROVE  stable' \subseteq stable /\ Remains(tree, tree', stable') /\ Finite(tree')
    BY <1>1, <1>3 DEF AddLink, Room
<1>4. ASSUME NEW p \in DOMAIN tree, Edit(p)
      PROVE  stable' \subseteq stable /\ Remains(tree, tree', stable') /\ Finite(tree')
    <2>1. PICK d \in {<<>>, Append(tree[p].data, CHOOSE b \in Byte : TRUE)} :
             Becomes([q \in DOMAIN tree |->
                         IF q \in Links(p) THEN [tree[q] EXCEPT !.data = d, !.mtime = Now]
                         ELSE tree[q]], {})
        BY <1>4 DEF Edit
    <2>2. d \in Bytes
        <3>1. PICK b : b = CHOOSE c \in Byte : TRUE
            OBVIOUS
        <3>2. b \in Byte
            BY <3>1, ByteAssumption
        <3>3. tree[p].data \in Seq(Byte)
            BY SrcData DEF Bytes
        <3>4. Append(tree[p].data, b) \in Seq(Byte) /\ <<>> \in Seq(Byte)
            BY <3>2, <3>3, AppendProperties, EmptySeq
        <3> QED
            BY <3>1, <3>4 DEF Bytes
    <2>3. PICK t : t = [q \in DOMAIN tree |->
                          IF q \in Links(p) THEN [tree[q] EXCEPT !.data = d, !.mtime = Now]
                          ELSE tree[q]]
        OBVIOUS
    <2>4. DOMAIN t = DOMAIN tree /\ Finite(t)
        BY <2>3 DEF Finite
    <2>5. ASSUME NEW q \in DOMAIN tree
          PROVE  SrcOK(t[q]) /\ t[q].kind = tree[q].kind /\ t[q].ino = tree[q].ino
        <3>1. PICK n : n = tree[q]
            OBVIOUS
        <3>2. SrcOK(n)
            BY <3>1
        <3>3. PICK m : m = t[q]
            OBVIOUS
        <3>4. m = IF q \in Links(p) THEN [n EXCEPT !.data = d, !.mtime = Now] ELSE n
            BY <2>3, <3>1, <3>3
        <3>5. PICK u : u = [n EXCEPT !.data = d]
            OBVIOUS
        <3>6. PICK v : v = [n EXCEPT !.data = d, !.mtime = Now]
            OBVIOUS
        <3>7. SrcOK(v) /\ v.kind = n.kind /\ v.ino = n.ino
            <4>1. PICK kind, ino, mtime : \E data \in Bytes :
                     n = [kind |-> kind, data |-> data, ino |-> ino, mtime |-> mtime]
                BY <3>2 DEF SrcOK
            <4>2. PICK data \in Bytes :
                     n = [kind |-> kind, data |-> data, ino |-> ino, mtime |-> mtime]
                BY <4>1
            <4>3. u = [kind |-> kind, data |-> d, ino |-> ino, mtime |-> mtime]
                BY <3>5, <4>2
            <4>4. v = [u EXCEPT !.mtime = Now]
                BY <3>5, <3>6
            <4>5. v = [kind |-> kind, data |-> d, ino |-> ino, mtime |-> Now]
                BY <4>3, <4>4
            <4>6. v.kind = kind /\ v.ino = ino /\ n.kind = kind /\ n.ino = ino
                BY <4>2, <4>5
            <4> QED
                BY <2>2, <4>5, <4>6 DEF SrcOK
        <3> QED
            BY <3>1, <3>2, <3>3, <3>4, <3>6, <3>7
    <2>6. StaysAbove(t)
        <3> SUFFICES ASSUME NEW x \in stable, NEW q \in Numbers, Above(q, x)
                     PROVE  /\ q \in DOMAIN t /\ t[q].kind = tree[q].kind /\ t[q].ino = tree[q].ino
                            /\ SrcOK(t[q])
            BY DEF KeepsAbove
        <3>1. q \in DOMAIN tree
            BY DEF Steady
        <3> QED
            BY <2>4, <2>5, <3>1
    <2> QED
        BY <2>1, <2>3, <2>4, <2>6, BecomesRemains
<1>5. ASSUME NEW p \in DOMAIN tree, Unlink(p)
      PROVE  stable' \subseteq stable /\ Remains(tree, tree', stable') /\ Finite(tree')
    <2>1. PICK t : t = Drop(tree, p)
        OBVIOUS
    <2>2. Becomes(t, {Parent(p)}) /\ Children(p) = {}
        BY <1>5, <2>1 DEF Unlink
    <2>3. /\ DOMAIN t = DOMAIN tree \ {p}
          /\ \A q \in DOMAIN t : t[q] = tree[q]
        BY <2>1 DEF Drop
    <2>4. Finite(t)
        BY <2>3, FS_RemoveElement DEF Finite
    <2>5. ASSUME NEW x \in stable PROVE ~ Above(p, x)
        <3> SUFFICES ASSUME Above(p, x) PROVE FALSE
            OBVIOUS
        <3>1. p \in Numbers /\ x \in Numbers /\ x \in DOMAIN tree
            BY PathIsNumbers DEF Finite, Steady
        <3>2. PICK n \in Nat : Under(x, Append(p, n))
            BY <3>1, ChildTowards DEF Above
        <3>3. PICK c : c = Append(p, n)
            OBVIOUS
        <3>4. c \in Numbers /\ c # Root /\ Parent(c) = p
            BY <3>1, <3>3, ChildOf
        <3>5. c \in DOMAIN tree
            BY <3>1, <3>2, <3>3, <3>4 DEF Steady, Above
        <3> QED
            BY <2>2, <3>4, <3>5 DEF Children
    <2>6. StaysAbove(t)
        <3> SUFFICES ASSUME NEW x \in stable
                     PROVE  KeepsAbove(tree, t, x) /\ \A q \in Numbers : Above(q, x) => SrcOK(t[q])
            OBVIOUS
        <3>1. \A q \in DOMAIN tree : Above(q, x) => q \in DOMAIN t /\ t[q] = tree[q]
            BY <2>3, <2>5
        <3> QED
            BY <3>1, OthersKept, ZenonT(30)
    <2> QED
        BY <2>2, <2>4, <2>6, BecomesRemains
<1>6. ASSUME NEW p \in DOMAIN tree, NEW q \in Places, Rename(p, q)
      PROVE  stable' \subseteq stable /\ Remains(tree, tree', stable') /\ Finite(tree')
    <2> DEFINE Stay == {x \in DOMAIN tree : x # p /\ ~ Below(p, x)}
               Goes == DOMAIN tree \ Stay
               To(x) == q \o SubSeq(x, Len(p) + 1, Len(x))
               t == [y \in Stay \cup {To(x) : x \in Goes} |->
                        IF y \in Stay THEN tree[y]
                        ELSE tree[CHOOSE x \in Goes : To(x) = y]]
    <2>1. Becomes(t, {Parent(p), Parent(q)}) /\ q \notin DOMAIN tree
        BY <1>6 DEF Rename, Room
    <2>2. /\ DOMAIN t = Stay \cup {To(x) : x \in Goes}
          /\ \A y \in Stay : t[y] = tree[y]
        OBVIOUS
    <2>3. p \in Numbers /\ q \in Numbers /\ q # Root
        BY PlacesAssumption, PathIsNumbers DEF Finite
    <2>4. ASSUME NEW x \in Goes PROVE To(x) \in Numbers /\ Under(To(x), q)
        <3>1. x \in Numbers /\ Len(x) \in Nat /\ Len(p) \in Nat
            BY <2>3, LenProperties DEF Finite, Numbers
        <3>2. PICK s : s = SubSeq(x, Len(p) + 1, Len(x))
            OBVIOUS
        <3>3. \A i \in Len(p) + 1 .. Len(x) : x[i] \in Nat
            BY <3>1, ElementOfSeq DEF Numbers
        <3>4. s \in Seq(Nat)
            BY <3>1, <3>2, <3>3, SubSeqProperties
        <3>5. PICK y : y = q \o s
            OBVIOUS
        <3>6. /\ y \in Seq(Nat) /\ Len(y) = Len(q) + Len(s) /\ Len(q) \in Nat /\ Len(s) \in Nat
              /\ \A i \in 1 .. Len(q) + Len(s) : y[i] = IF i <= Len(q) THEN q[i] ELSE s[i - Len(q)]
            BY <2>3, <3>4, <3>5, ConcatProperties, LenProperties DEF Numbers
        <3>7. Under(y, q)
            BY <3>6 DEF Under
        <3> QED
            BY <3>2, <3>5, <3>6, <3>7 DEF Numbers
    <2>5. Finite(t)
        <3> DEFINE T == {To(x) : x \in Goes}
                   f == [x \in Goes |-> To(x)]
        <3>1. Stay \subseteq DOMAIN tree /\ Goes \subseteq DOMAIN tree
            OBVIOUS
        <3>2. T \subseteq Numbers
            BY <2>4
        <3>3. f \in Surjection(Goes, T)
            BY DEF Surjection
        <3>4. IsFiniteSet(Goes) /\ IsFiniteSet(Stay)
            BY <3>1, FS_Subset DEF Finite
        <3> HIDE DEF T, f, Goes, Stay
        <3>5. IsFiniteSet(T)
            BY <3>3, <3>4, FS_Surjection
        <3>6. IsFiniteSet(Stay \cup T)
            BY <3>4, <3>5, FS_Union
        <3> QED
            BY <2>2, <3>1, <3>2, <3>6 DEF Finite, T
    <2>6. ASSUME NEW x \in stable, x \in DOMAIN t, NEW y \in DOMAIN tree, Above(y, x)
          PROVE  y \in Stay
        <3>1. x \in Numbers /\ y \in Numbers /\ x \in DOMAIN tree
            BY PathIsNumbers DEF Finite, Steady
        <3>2. x \in Stay
            <4> SUFFICES ASSUME x \notin Stay PROVE FALSE
                OBVIOUS
            <4>1. PICK z \in Goes : x = To(z)
                BY <2>2, <2>6
            <4>2. Under(x, q)
                BY <2>4, <4>1
            <4>3. Above(q, x)
                BY <2>1, <2>3, <3>1, <4>2 DEF Above
            <4> QED
                BY <2>1, <2>3, <4>3 DEF Steady
        <3>3. y # p /\ ~ Below(p, y)
            <4>1. x # p /\ ~ Below(p, x)
                BY <3>2
            <4>2. y # p
                BY <2>3, <2>6, <3>1, <4>1, BelowIsUnder DEF Above
            <4>3. ASSUME Below(p, y) PROVE FALSE
                <5>1. Under(y, p) /\ Under(x, y)
                    BY <2>3, <2>6, <3>1, <4>3, BelowIsUnder DEF Above
                <5>2. Under(x, p)
                    BY <2>3, <3>1, <5>1, UnderTrans
                <5> QED
                    BY <2>3, <3>1, <4>1, <5>2, BelowIsUnder
            <4> QED
                BY <4>2, <4>3
        <3> QED
            BY <3>3
    <2>7. StaysAbove(t)
        <3> HIDE DEF t
        <3> SUFFICES ASSUME NEW x \in stable, x \in DOMAIN t
                     PROVE  KeepsAbove(tree, t, x) /\ \A y \in Numbers : Above(y, x) => SrcOK(t[y])
            OBVIOUS
        <3>1. \A y \in DOMAIN tree : Above(y, x) => y \in DOMAIN t /\ t[y] = tree[y]
            BY <2>2, <2>6
        <3> QED
            BY <3>1, OthersKept, ZenonT(30)
    <2> HIDE DEF t
    <2> QED
        BY <2>1, <2>5, <2>7, BecomesRemains
<1> QED
    BY <1>2, <1>3, <1>4, <1>5, <1>6 DEF Change

----------------------------------------------------------------------------
(***************************************************************************)
(* What the lines of an index say of the files that have not changed, and  *)
(* that each has one.                                                      *)
(***************************************************************************)
\* What is said of the file p, in the tree g in which those of st have not
\* changed: by a line, and by lstat.
Says(l, p, g, st) ==
    /\ l.kind = g[p].kind /\ l.mtime = g[p].mtime
    /\ g[p].kind \in {"file", "link"} => DataOf(l) = g[p].data
    /\ l.inode \in {None, g[p].ino[2]}
    /\ g[p].kind = "file" /\ (\E q \in st \ {p} : g[q].ino = g[p].ino) => l.inode # None

LinesSay(ls, P, g, st) == \A i \in DOMAIN P : P[i] \in st => Says(ls[i], P[i], g, st)

StatSays(s, p, g, st) ==
    /\ p \in st =>
          /\ s.kind = g[p].kind /\ s.mtime = g[p].mtime /\ s.ino = g[p].ino
          /\ s.size = Len(g[p].data)
          /\ (\E q \in st \ {p} : g[q].ino = g[p].ino) => s.nlink > 1
    /\ \A q \in st : Above(p, q) => s.kind = "dir"

StatsSay(w, g, st) ==
    /\ \A n \in DOMAIN w.s : StatSays(w.s[n], Append(w.dirs[1], n), g, st)
    /\ w.pc = "line" => \A i \in DOMAIN w.ci : w.ci[i] \in DOMAIN w.s

\* The file p is one that backup takes, and no mount point that it is not to
\* cross is above it.
DeviceIn(g, p) == IF p = Root THEN 0 ELSE g[p].ino[1]
Reached(g, p) ==
    /\ g[p].kind \notin Unknown
    /\ \A q \in Numbers : Above(q, p) => CrossFs \/ DeviceIn(g, q) = DeviceIn(g, Parent(q))

\* p has its line, or is in this directory or one still to enter, or below.
Listed(p, P) == \E i \in DOMAIN P : P[i] = p
Coming(p, w) ==
    \/ \E k \in DOMAIN w.dirs : k # 1 /\ Above(w.dirs[k], p)
    \/ \E k \in DOMAIN w.subdirs : Above(w.subdirs[k], p)
    \/ w.pc = "list" /\ Under(p, w.dirs[1]) /\ p # w.dirs[1]
    \/ w.pc = "lstat" /\ \E n \in w.names \cup DOMAIN w.s : Under(p, Append(w.dirs[1], n))
    \/ w.pc = "line" /\ \E i \in DOMAIN w.ci : Under(p, Append(w.dirs[1], w.ci[i]))

NoneMissed(P, w, g, st) == \A p \in st : Reached(g, p) => Listed(p, P) \/ Coming(p, w)
AllListed(P, g, st) == \A p \in st : Reached(g, p) => Listed(p, P)

ListedInv ==
    /\ Finite(tree) /\ Steady(tree, stable)
    /\ end => walk.pc = "done"
    /\ \E P : /\ Describes(lines, P) /\ LinesSay(lines, P, tree, stable)
              /\ Active(walk) => StatsSay(walk, tree, stable) /\ NoneMissed(P, walk, tree, stable)
              /\ end => AllListed(P, tree, stable)

\* A change of the tree: what was said of the files that remain is still true.
LEMMA StillSaid ==
    ASSUME NEW g, NEW h, NEW st, NEW rem, Steady(g, st), rem \subseteq st, Remains(g, h, rem)
    PROVE  /\ Steady(h, rem)
           /\ \A p \in rem : Reached(h, p) => Reached(g, p)
           /\ \A l, p : p \in rem /\ Says(l, p, g, st) => Says(l, p, h, rem)
           /\ \A s, p : StatSays(s, p, g, st) => StatSays(s, p, h, rem)
<1>1. Steady(h, rem)
    BY DEF Steady, Remains, KeepsAbove
<1>2. ASSUME NEW p \in rem, Reached(h, p) PROVE Reached(g, p)
    <2>1. p \in Numbers
        BY PathIsNumbers DEF Steady
    <2>2. g[p].kind \notin Unknown
        BY <1>2 DEF Reached, Remains
    <2>3. ASSUME NEW q \in Numbers, Above(q, p), ~ CrossFs
          PROVE  DeviceIn(g, q) = DeviceIn(g, Parent(q))
        <3>1. DeviceIn(h, q) = DeviceIn(h, Parent(q))
            BY <1>2, <2>3 DEF Reached
        <3>2. Parent(q) \in Numbers /\ (Parent(q) = Root \/ Above(Parent(q), p))
            BY <2>1, <2>3, ParentAbove
        <3>3. h[q].ino = g[q].ino /\ (Parent(q) # Root => h[Parent(q)].ino = g[Parent(q)].ino)
            BY <2>3, <3>2 DEF Remains, KeepsAbove
        <3> QED
            BY <3>1, <3>3 DEF DeviceIn
    <2> QED
        BY <2>2, <2>3 DEF Reached
<1>3. \A p \in rem : p \in st /\ h[p] = g[p]
    BY DEF Remains
<1>4. ASSUME NEW l, NEW p, p \in rem, Says(l, p, g, st) PROVE Says(l, p, h, rem)
    BY <1>3, <1>4 DEF Says
<1>5. ASSUME NEW s, NEW p, StatSays(s, p, g, st) PROVE StatSays(s, p, h, rem)
    BY <1>3, <1>5 DEF StatSays
<1> QED
    BY <1>1, <1>2, <1>4, <1>5

LEMMA ChangeListed ==
    ASSUME ListedInv, DataInv, Change
    PROVE  ListedInv'
<1>1. /\ walk' = walk /\ lines' = lines /\ end' = end /\ Active(walk)
    BY ZenonT(60) DEF Change, Create, Edit, Unlink, AddLink, Rename, Becomes, Active, Walking
<1>2. /\ Finite(tree) /\ Steady(tree, stable) /\ ~ end
      /\ \A q \in DOMAIN tree : SrcOK(tree[q])
    BY <1>1 DEF ListedInv, DataInv, Active
<1>3. PICK P : /\ Describes(lines, P) /\ LinesSay(lines, P, tree, stable)
               /\ StatsSay(walk, tree, stable) /\ NoneMissed(P, walk, tree, stable)
    BY <1>1 DEF ListedInv
<1>4. PICK g, h, st, rem : g = tree /\ h = tree' /\ st = stable /\ rem = stable'
    OBVIOUS
<1>5. rem \subseteq st /\ Remains(g, h, rem) /\ Finite(h) /\ Steady(g, st)
    BY <1>2, <1>4, ChangeRemains
<1>6. /\ Steady(h, rem)
      /\ \A p \in rem : Reached(h, p) => Reached(g, p)
      /\ \A l, p : p \in rem /\ Says(l, p, g, st) => Says(l, p, h, rem)
      /\ \A s, p : StatSays(s, p, g, st) => StatSays(s, p, h, rem)
    BY <1>5, StillSaid
<1>7. LinesSay(lines, P, h, rem)
    BY <1>3, <1>4, <1>5, <1>6 DEF LinesSay
<1>8. StatsSay(walk, h, rem)
    BY <1>3, <1>4, <1>6 DEF StatsSay
<1>9. NoneMissed(P, walk, h, rem)
    BY <1>3, <1>4, <1>5, <1>6 DEF NoneMissed
<1> QED
    BY <1>1, <1>2, <1>3, <1>4, <1>5, <1>6, <1>7, <1>8, <1>9 DEF ListedInv

\* The names of a directory: that of p is one of them, or that of a directory
\* above p.
LEMMA NamesListed ==
    ASSUME NEW P, NEW w, NEW v, NEW g, NEW st, Steady(g, st), NoneMissed(P, w, g, st),
           w.pc = "list", w.dirs[1] \in Numbers, v.pc = "lstat", v.dirs = w.dirs,
           v.subdirs = w.subdirs,
           v.names = {Base(p) : p \in {q \in DOMAIN g : q # Root /\ Parent(q) = w.dirs[1]}}
    PROVE  NoneMissed(P, v, g, st)
<1> SUFFICES ASSUME NEW p \in st, Reached(g, p), Under(p, w.dirs[1]), p # w.dirs[1]
             PROVE  Coming(p, v)
    BY DEF NoneMissed, Coming
<1>1. p \in Numbers
    BY PathIsNumbers DEF Steady
<1>2. PICK n \in Nat : Under(p, Append(w.dirs[1], n))
    BY <1>1, ChildTowards
<1>3. PICK c : c = Append(w.dirs[1], n)
    OBVIOUS
<1>4. c \in Numbers /\ c # Root /\ Parent(c) = w.dirs[1] /\ Base(c) = n
    BY <1>3, ChildOf
<1>5. c \in DOMAIN g
    BY <1>2, <1>3, <1>4 DEF Steady, Above
<1>6. n \in v.names
    BY <1>4, <1>5
<1> QED
    BY <1>2, <1>6 DEF Coming

\* lstat of one of the names; ENOENT and unknown types cannot be of one that p
\* needs.
LEMMA StattedListed ==
    ASSUME NEW P, NEW w, NEW v, NEW g, NEW st, Steady(g, st), NoneMissed(P, w, g, st),
           w.pc = "lstat", w.dirs[1] \in Numbers, v.pc = "lstat", v.dirs = w.dirs,
           v.subdirs = w.subdirs, NEW n \in Nat, v.names = w.names \ {n},
           NEW c, c = Append(w.dirs[1], n),
           DOMAIN w.s \subseteq DOMAIN v.s,
           c \in DOMAIN g /\ g[c].kind \notin Unknown => n \in DOMAIN v.s
    PROVE  NoneMissed(P, v, g, st)
<1>1. ASSUME NEW p \in st, Reached(g, p), Under(p, c) PROVE n \in DOMAIN v.s
    <2>1. p \in Numbers /\ c \in Numbers /\ c # Root /\ p \in DOMAIN g
        BY ChildOf, PathIsNumbers DEF Steady
    <2>2. CASE c = p
        BY <1>1, <2>1, <2>2 DEF Reached
    <2>3. CASE c # p
        <3>1. c \in DOMAIN g /\ g[c].kind = "dir"
            BY <1>1, <2>1, <2>3 DEF Steady, Above
        <3> QED
            BY <3>1 DEF Unknown
    <2> QED
        BY <2>2, <2>3
<1> SUFFICES ASSUME NEW p \in st, Reached(g, p), Coming(p, w)
             PROVE  Coming(p, v)
    BY DEF NoneMissed
<1>2. ASSUME NEW m \in w.names \cup DOMAIN w.s, Under(p, Append(w.dirs[1], m))
      PROVE  Coming(p, v)
    <2>1. m \in v.names \cup DOMAIN v.s
        BY <1>1, <1>2
    <2> QED
        BY <1>2, <2>1 DEF Coming
<1> QED
    BY <1>2 DEF Coming

\* A sorted sequence of as many names as there are has all of them.
LEMMA SortedHasAll ==
    ASSUME NEW S, IsFiniteSet(S), S \subseteq Nat, NEW c \in Sorted(S)
    PROVE  /\ \A n \in S : \E i \in DOMAIN c : c[i] = n
           /\ \A i \in DOMAIN c : c[i] \in S
<1> DEFINE k == Cardinality(S)
<1>1. /\ c \in [1 .. k -> S]
      /\ \A i, j \in DOMAIN c : i < j => c[i] < c[j]
    BY DEF Sorted
<1>2. k \in Nat
    BY FS_CardinalityType
<1>3. \A i \in DOMAIN c : i \in Int /\ c[i] \in S
    BY <1>1, <1>2
<1>4. \A i, j \in DOMAIN c : i # j => c[i] # c[j]
    <2> SUFFICES ASSUME NEW i \in DOMAIN c, NEW j \in DOMAIN c, i # j PROVE c[i] # c[j]
        OBVIOUS
    <2>1. c[i] \in Nat /\ c[j] \in Nat /\ i \in Int /\ j \in Int
        BY <1>3
    <2>2. i < j \/ j < i
        BY <2>1
    <2> QED
        BY <1>1, <2>1, <2>2
<1>5. IsFiniteSet(1 .. k) /\ Cardinality(1 .. k) = k
    BY <1>2, FS_Interval
<1> HIDE DEF k
<1>6. c \in Injection(1 .. k, S)
    BY <1>1, <1>4 DEF Injection, IsInjective
<1>7. c \in Surjection(1 .. k, S)
    BY <1>5, <1>6, FS_Injection DEF k
<1> QED
    BY <1>1, <1>3, <1>7 DEF Surjection

LEMMA SamePaths ==
    ASSUME NEW P, NEW Q, Describes(lines, P), Describes(lines, Q)
    PROVE  P = Q
<1>1. \A i \in DOMAIN P : LinePath(i) = P[i]
    BY PathOfLine
<1>2. \A i \in DOMAIN Q : LinePath(i) = Q[i]
    BY PathOfLine
<1>3. P \in Seq(Numbers) /\ Q \in Seq(Numbers) /\ Len(P) = Len(Q)
    BY DEF Describes
<1>4. DOMAIN P = 1 .. Len(P) /\ DOMAIN Q = 1 .. Len(P)
    BY <1>3, LenProperties
<1> QED
    BY <1>1, <1>2, <1>3, <1>4, SeqEqual

\* lstat of a file that has not changed: also its number of links, if one of
\* the others has not changed either.
LEMMA StatIsRight ==
    ASSUME NEW p \in Numbers, p # Root, p \in DOMAIN tree, Finite(tree), Steady(tree, stable)
    PROVE  StatSays(StatOf(p), p, tree, stable)
<1>1. PICK s : s = StatOf(p)
    OBVIOUS
<1>2. s = [kind |-> tree[p].kind, size |-> Len(tree[p].data), nlink |-> Cardinality(Links(p)),
           ino |-> tree[p].ino, mtime |-> tree[p].mtime]
    BY <1>1 DEF StatOf
<1>3. /\ s.kind = tree[p].kind /\ s.size = Len(tree[p].data) /\ s.nlink = Cardinality(Links(p))
      /\ s.ino = tree[p].ino /\ s.mtime = tree[p].mtime
    BY <1>2
<1>4. ASSUME NEW q \in stable, q # p, tree[q].ino = tree[p].ino
      PROVE  Cardinality(Links(p)) > 1
    <2>1. {p} \cup {q} \subseteq Links(p) /\ Links(p) \subseteq DOMAIN tree
        BY <1>4 DEF Links, Steady
    <2>2. IsFiniteSet(Links(p))
        BY <2>1, FS_Subset DEF Finite
    <2>3. IsFiniteSet({p}) /\ Cardinality({p}) = 1
        BY FS_Singleton
    <2>4. Cardinality({p} \cup {q}) = 2
        BY <1>4, <2>3, FS_AddElement
    <2>5. Cardinality({p} \cup {q}) <= Cardinality(Links(p)) /\ Cardinality(Links(p)) \in Nat
        BY <2>1, <2>2, FS_Subset, FS_CardinalityType
    <2> QED
        BY <2>4, <2>5
<1>5. \A q \in stable : Above(p, q) => tree[p].kind = "dir"
    BY DEF Steady
<1>6. StatSays(s, p, tree, stable)
    BY <1>3, <1>4, <1>5 DEF StatSays
<1> QED
    BY <1>1, <1>6

\* The walk has a directory, and its lines the paths P.
LEMMA ListedParts ==
    ASSUME WalkInv, ListedInv, Active(walk)
    PROVE  \E P : /\ Describes(lines, P) /\ Together(P) /\ Ahead(P, walk)
                  /\ LinesSay(lines, P, tree, stable) /\ StatsSay(walk, tree, stable)
                  /\ NoneMissed(P, walk, tree, stable)
<1>1. PICK P : Describes(lines, P) /\ Together(P) /\ Ahead(P, walk)
    BY DEF WalkInv
<1>2. PICK Q : /\ Describes(lines, Q) /\ LinesSay(lines, Q, tree, stable)
               /\ StatsSay(walk, tree, stable) /\ NoneMissed(Q, walk, tree, stable)
    BY DEF ListedInv
<1>3. P = Q
    BY <1>1, <1>2, SamePaths
<1> QED
    BY <1>1, <1>2, <1>3

LEMMA ContentsListed ==
    ASSUME WalkInv, ListedInv, Contents
    PROVE  ListedInv'
<1>1. walk.pc = "list" /\ Active(walk)
    BY DEF Contents, Active
<1>2. PICK P : /\ Describes(lines, P) /\ Together(P) /\ Ahead(P, walk)
               /\ LinesSay(lines, P, tree, stable) /\ StatsSay(walk, tree, stable)
               /\ NoneMissed(P, walk, tree, stable)
    BY <1>1, ListedParts
<1>3. /\ IsRun(walk) /\ walk.dirs # <<>> /\ walk.dirs \in Seq(Numbers)
      /\ Dir = walk.dirs[1] /\ walk.dirs[1] \in Numbers
    <2>1. /\ IsRun(walk) /\ walk.dirs # <<>> /\ walk.dirs \in Seq(Numbers)
        BY <1>2 DEF Ahead, RunShape
    <2> QED
        BY <2>1, TailSeq DEF Dir
<1>4. PICK w, v, names : w = walk /\ v = walk' /\ names = {Base(p) : p \in Children(Dir)}
    OBVIOUS
<1>5. IsRun(w) /\ v = [w EXCEPT !.pc = "lstat", !.names = names]
    BY <1>3, <1>4 DEF Contents
<1>6. v = [pc |-> "lstat", dirs |-> w.dirs, names |-> names, s |-> w.s, ci |-> w.ci,
           first |-> w.first, subdirs |-> w.subdirs]
    BY <1>5, ListedRun
<1>7. /\ v.pc = "lstat" /\ v.dirs = w.dirs /\ v.names = names /\ v.s = w.s /\ v.ci = w.ci
      /\ v.subdirs = w.subdirs
    BY <1>6
<1>8. v.names = {Base(p) : p \in {q \in DOMAIN tree : q # Root /\ Parent(q) = w.dirs[1]}}
    BY <1>3, <1>4, <1>7 DEF Children
<1>9. Steady(tree, stable) /\ Finite(tree) /\ ~ end
    BY <1>1 DEF ListedInv
<1>10. NoneMissed(P, v, tree, stable)
    BY <1>1, <1>2, <1>3, <1>4, <1>7, <1>8, <1>9, NamesListed
<1>11. StatsSay(v, tree, stable)
    BY <1>2, <1>4, <1>7 DEF StatsSay
<1>12. tree' = tree /\ stable' = stable /\ lines' = lines /\ end' = end
    BY DEF Contents
<1> QED
    BY <1>2, <1>4, <1>9, <1>10, <1>11, <1>12 DEF ListedInv

LEMMA LstatListed ==
    ASSUME WalkInv, ListedInv, NEW n \in Name, Lstat(n)
    PROVE  ListedInv'
<1>1. walk.pc = "lstat" /\ Active(walk)
    BY DEF Lstat, Active
<1>2. PICK P : /\ Describes(lines, P) /\ Together(P) /\ Ahead(P, walk)
               /\ LinesSay(lines, P, tree, stable) /\ StatsSay(walk, tree, stable)
               /\ NoneMissed(P, walk, tree, stable)
    BY <1>1, ListedParts
<1>3. /\ IsRun(walk) /\ Dir = walk.dirs[1] /\ walk.dirs[1] \in Numbers
    <2>1. /\ IsRun(walk) /\ walk.dirs # <<>> /\ walk.dirs \in Seq(Numbers)
        BY <1>2 DEF Ahead, RunShape
    <2> QED
        BY <2>1, TailSeq DEF Dir
<1>4. PICK w, v, s, c : /\ w = walk /\ v = walk' /\ c = Append(walk.dirs[1], n)
                        /\ s = IF Kept(c) THEN Put(w.s, n, StatOf(c)) ELSE w.s
    OBVIOUS
<1>5. c = Full(n)
    BY <1>3, <1>4 DEF Full
<1>6. PICK names : names = w.names \ {n}
    OBVIOUS
<1>7. IsRun(w) /\ v = [w EXCEPT !.names = names, !.s = s]
    BY <1>3, <1>4, <1>5, <1>6 DEF Lstat
<1>8. v = [pc |-> w.pc, dirs |-> w.dirs, names |-> names, s |-> s, ci |-> w.ci,
           first |-> w.first, subdirs |-> w.subdirs]
    BY <1>7, StattedRun
<1>9. /\ v.pc = "lstat" /\ v.dirs = w.dirs /\ v.names = names /\ v.s = s /\ v.ci = w.ci
      /\ v.subdirs = w.subdirs
    BY <1>1, <1>4, <1>8
<1>10. Steady(tree, stable) /\ Finite(tree) /\ ~ end
    BY <1>1 DEF ListedInv
<1>11. n \in Nat /\ c \in Numbers /\ c # Root
    BY <1>3, <1>4, PathIsNumbers, ChildOf
<1>12. /\ DOMAIN w.s \subseteq DOMAIN s
       /\ c \in DOMAIN tree /\ tree[c].kind \notin Unknown => n \in DOMAIN s
       /\ \A m \in DOMAIN s : \/ m \in DOMAIN w.s /\ s[m] = w.s[m]
                              \/ m = n /\ s[m] = StatOf(c) /\ c \in DOMAIN tree
    <2>1. CASE Kept(c)
        <3>1. PICK st : st = StatOf(c)
            OBVIOUS
        <3>2. s = [x \in DOMAIN w.s \cup {n} |-> IF x = n THEN st ELSE w.s[x]]
            BY <1>4, <2>1, <3>1 DEF Put
        <3> QED
            BY <2>1, <3>1, <3>2 DEF Kept
    <2>2. CASE ~ Kept(c)
        <3>1. s = w.s
            BY <1>4, <2>2
        <3> QED
            BY <2>2, <3>1 DEF Kept
    <2> QED
        BY <2>1, <2>2
<1>13. NoneMissed(P, v, tree, stable)
    <2>1. NoneMissed(P, w, tree, stable) /\ w.pc = "lstat" /\ w.dirs[1] \in Numbers
          /\ v.names = w.names \ {n} /\ c = Append(w.dirs[1], n) /\ DOMAIN w.s \subseteq DOMAIN v.s
          /\ (c \in DOMAIN tree /\ tree[c].kind \notin Unknown => n \in DOMAIN v.s)
        BY <1>1, <1>2, <1>3, <1>4, <1>6, <1>9, <1>12
    <2> QED
        BY <1>9, <1>10, <1>11, <2>1, StattedListed
<1>14. StatsSay(v, tree, stable)
    <2> SUFFICES ASSUME NEW m \in DOMAIN s
                 PROVE  StatSays(s[m], Append(w.dirs[1], m), tree, stable)
        BY <1>9 DEF StatsSay
    <2>1. CASE m \in DOMAIN w.s /\ s[m] = w.s[m]
        BY <1>2, <1>4, <2>1 DEF StatsSay
    <2>2. CASE m = n /\ s[m] = StatOf(c) /\ c \in DOMAIN tree
        BY <1>4, <1>10, <1>11, <2>2, StatIsRight
    <2> QED
        BY <1>12, <2>1, <2>2
<1>15. tree' = tree /\ stable' = stable /\ lines' = lines /\ end' = end
    BY DEF Lstat
<1> QED
    BY <1>2, <1>4, <1>10, <1>13, <1>14, <1>15 DEF ListedInv

LEMMA SortListed ==
    ASSUME WalkInv, ListedInv, Sort
    PROVE  ListedInv'
<1>1. walk.pc = "lstat" /\ walk.names = {} /\ Active(walk)
    BY DEF Sort, Active
<1>2. PICK P : /\ Describes(lines, P) /\ Together(P) /\ Ahead(P, walk)
               /\ LinesSay(lines, P, tree, stable) /\ StatsSay(walk, tree, stable)
               /\ NoneMissed(P, walk, tree, stable)
    BY <1>1, ListedParts
<1>3. IsRun(walk) /\ DOMAIN walk.s \subseteq Nat /\ IsFiniteSet(DOMAIN walk.s)
    BY <1>2 DEF Ahead, RunShape
<1>4. PICK ci \in Sorted(DOMAIN walk.s) : walk' = [walk EXCEPT !.pc = "line", !.ci = ci]
    BY DEF Sort
<1>5. PICK w, v : w = walk /\ v = walk'
    OBVIOUS
<1>6. IsRun(w) /\ v = [w EXCEPT !.pc = "line", !.ci = ci]
    BY <1>3, <1>4, <1>5
<1>7. v = [pc |-> "line", dirs |-> w.dirs, names |-> w.names, s |-> w.s, ci |-> ci,
           first |-> w.first, subdirs |-> w.subdirs]
    BY <1>6, SortedRun
<1>8. /\ v.pc = "line" /\ v.dirs = w.dirs /\ v.s = w.s /\ v.ci = ci /\ v.subdirs = w.subdirs
    BY <1>7
<1>9. /\ \A n \in DOMAIN w.s : \E i \in DOMAIN ci : ci[i] = n
      /\ \A i \in DOMAIN ci : ci[i] \in DOMAIN w.s
    BY <1>3, <1>5, SortedHasAll
<1>10. StatsSay(v, tree, stable)
    BY <1>2, <1>5, <1>8, <1>9 DEF StatsSay
<1>11. NoneMissed(P, v, tree, stable)
    <2> SUFFICES ASSUME NEW p \in stable, Reached(tree, p), Coming(p, w)
                 PROVE  Coming(p, v)
        BY <1>2, <1>5 DEF NoneMissed
    <2>1. ASSUME NEW n \in w.names \cup DOMAIN w.s, Under(p, Append(w.dirs[1], n))
          PROVE  Coming(p, v)
        <3>1. PICK i \in DOMAIN ci : ci[i] = n
            BY <1>1, <1>5, <1>9, <2>1
        <3> QED
            BY <1>8, <2>1, <3>1 DEF Coming
    <2> QED
        BY <1>1, <1>5, <1>8, <2>1 DEF Coming
<1>12. tree' = tree /\ stable' = stable /\ lines' = lines /\ end' = end
    BY DEF Sort
<1>13. Steady(tree, stable) /\ Finite(tree) /\ ~ end
    BY <1>1 DEF ListedInv
<1> QED
    BY <1>2, <1>5, <1>10, <1>11, <1>12, <1>13 DEF ListedInv

\* What is said of the lines but the last holds of those before it.
LEMMA CutSays ==
    ASSUME NEW ls, NEW P, NEW g, NEW st, Describes(ls, P), Together(P), LinesSay(ls, P, g, st),
           NEW k \in 0 .. Len(ls)
    PROVE  \E Q : Describes(SubSeq(ls, 1, k), Q) /\ LinesSay(SubSeq(ls, 1, k), Q, g, st)
<1>1. PICK Q : Q = SubSeq(P, 1, k) /\ Describes(SubSeq(ls, 1, k), Q)
    BY CutLines
<1>2. IsSeq(ls) /\ IsSeq(P) /\ Len(P) = Len(ls)
    BY DEF Describes, IsSeq
<1>3. /\ DOMAIN SubSeq(P, 1, k) = 1 .. k
      /\ \A i \in 1 .. k : i \in DOMAIN P /\ SubSeq(P, 1, k)[i] = P[i]
      /\ \A i \in 1 .. k : SubSeq(ls, 1, k)[i] = ls[i]
    BY <1>2, PrefixSeq
<1>4. LinesSay(SubSeq(ls, 1, k), Q, g, st)
    BY <1>1, <1>3 DEF LinesSay
<1> QED
    BY <1>1, <1>4

LEMMA DieListed ==
    ASSUME WalkInv, ListedInv, Walking, Die
    PROVE  ListedInv'
<1>1. Active(walk)
    BY DEF Walking, Active
<1>2. PICK P : /\ Describes(lines, P) /\ Together(P) /\ Ahead(P, walk)
               /\ LinesSay(lines, P, tree, stable)
    BY <1>1, ListedParts
<1>3. PICK k \in 0 .. Len(lines) : lines' = SubSeq(lines, 1, k)
    BY DEF Die
<1>4. PICK Q : Describes(lines', Q) /\ LinesSay(lines', Q, tree, stable)
    BY <1>2, <1>3, CutSays
<1>5. tree' = tree /\ stable' = stable /\ end' = end
    BY DEF Die
<1>6. Steady(tree, stable) /\ Finite(tree) /\ ~ end
    BY <1>1 DEF ListedInv, Active
<1>7. ~ Active(walk')
    <2>1. IsRun(walk)
        BY <1>2 DEF Ahead, RunShape
    <2>2. PICK p, dirs, n, t, c, f, b :
             walk = [pc |-> p, dirs |-> dirs, names |-> n, s |-> t, ci |-> c,
                     first |-> f, subdirs |-> b]
        BY <2>1 DEF IsRun
    <2>3. walk' = [walk EXCEPT !.pc = "dead"]
        BY DEF Die
    <2>4. walk'.pc = "dead"
        BY <2>2, <2>3
    <2> QED
        BY <2>4 DEF Active
<1> QED
    BY <1>4, <1>5, <1>6, <1>7 DEF ListedInv

\* The run goes on with the next name, which is one nearer to the end.
NameDone(w, v, c, ss) ==
    /\ c \in Numbers /\ c # Root /\ w.ci[1] \in Nat /\ 1 \in DOMAIN w.ci
    /\ \A i \in DOMAIN v.ci : \E j \in DOMAIN w.ci : v.ci[i] = w.ci[j]
    /\ \A j \in DOMAIN w.ci : j # 1 => \E i \in DOMAIN v.ci : v.ci[i] = w.ci[j]
    /\ \A k \in DOMAIN w.subdirs : \E m \in DOMAIN v.subdirs : v.subdirs[m] = w.subdirs[k]
    /\ ss = <<c>> => \E m \in DOMAIN v.subdirs : v.subdirs[m] = c

LEMMA NextName ==
    ASSUME NEW w, NEW P, NEW ss, Ahead(P, w), w.pc = "line", w.ci # <<>>,
           NEW c, c = Append(w.dirs[1], w.ci[1]), ss \in {<<>>, <<c>>},
           NEW v, v.ci = Tail(w.ci), v.subdirs = w.subdirs \o ss
    PROVE  NameDone(w, v, c, ss)
<1>1. /\ IsRun(w) /\ w.ci \in Seq(Nat) /\ w.subdirs \in Seq(Numbers) /\ w.dirs[1] \in Numbers
    BY TailSeq DEF Ahead, RunShape
<1>2. PICK T, D : T = Tail(w.ci) /\ D = w.subdirs \o ss /\ v.ci = T /\ v.subdirs = D
    OBVIOUS
<1>6. /\ T \in Seq(Nat) /\ Len(T) = Len(w.ci) - 1 /\ 1 \in DOMAIN w.ci /\ w.ci[1] \in Nat
      /\ \A i \in DOMAIN T : i \in Nat \ {0} /\ i + 1 \in DOMAIN w.ci /\ T[i] = w.ci[i + 1]
    <2>1. /\ T \in Seq(Nat) /\ Len(T) = Len(w.ci) - 1 /\ 1 \in DOMAIN w.ci
          /\ Head(w.ci) = w.ci[1] /\ Head(w.ci) \in Nat
        BY <1>1, <1>2, TailSeq
    <2>2. \A i \in DOMAIN T : i \in Nat \ {0} /\ i + 1 \in DOMAIN w.ci /\ T[i] = w.ci[i + 1]
        BY <1>1, <1>2, TailSeq
    <2> QED
        BY <2>1, <2>2
<1>7. c \in Numbers /\ c # Root
    BY <1>1, <1>6, ChildOf
<1>8. \A j \in DOMAIN w.ci : j # 1 => \E i \in DOMAIN T : T[i] = w.ci[j]
    <2> SUFFICES ASSUME NEW j \in DOMAIN w.ci, j # 1 PROVE \E i \in DOMAIN T : T[i] = w.ci[j]
        OBVIOUS
    <2>1. DOMAIN w.ci = 1 .. Len(w.ci) /\ Len(w.ci) \in Nat /\ DOMAIN T = 1 .. Len(w.ci) - 1
        BY <1>1, <1>6, LenProperties
    <2>2. j - 1 \in DOMAIN T /\ (j - 1) + 1 = j
        BY <2>1
    <2> QED
        BY <1>6, <2>2
<1>9. /\ \A k \in DOMAIN w.subdirs : k \in DOMAIN D /\ D[k] = w.subdirs[k]
      /\ ss = <<c>> => \E m \in DOMAIN D : D[m] = c
    <2>1. Len(w.subdirs) \in Nat /\ DOMAIN w.subdirs = 1 .. Len(w.subdirs) /\ IsSeq(w.subdirs)
        BY <1>1, LenProperties DEF IsSeq
    <2>2. CASE ss = <<>>
        BY <1>1, <1>2, <2>1, <2>2, ConcatEmptySeq
    <2>3. CASE ss = <<c>>
        <3>1. D = Append(w.subdirs, c)
            BY <1>1, <1>2, <1>7, <2>3, AppendIsConcat
        <3>2. PICK N \in Nat : N = Len(w.subdirs)
            BY <2>1
        <3>3. /\ DOMAIN D = 1 .. N + 1 /\ D[N + 1] = c
              /\ \A i \in DOMAIN w.subdirs : D[i] = w.subdirs[i]
            BY <2>1, <3>1, <3>2, AppendSeq
        <3>4. N + 1 \in DOMAIN D /\ \A k \in DOMAIN w.subdirs : k \in DOMAIN D
            BY <2>1, <3>2, <3>3
        <3> QED
            BY <3>3, <3>4
    <2> QED
        BY <2>2, <2>3
<1> QED
    BY <1>2, <1>6, <1>7, <1>8, <1>9 DEF NameDone

\* A line is written that says what is true of the file, if it has not changed,
\* and of a directory above one that has not, its name is kept.
LEMMA WriteListed ==
    ASSUME WalkInv, ListedInv, Writing, NEW data, NEW sha1, NEW subdirs \in {<<>>, <<This>>},
           Write(data, sha1, subdirs),
           This \in stable => Says(NewLine(data, sha1), This, tree, stable),
           \A p \in stable : Reached(tree, p) /\ Above(This, p) => subdirs = <<This>>
    PROVE  ListedInv'
<1>1. walk.pc = "line" /\ walk.ci # <<>> /\ Active(walk)
    BY DEF Writing, Active
<1>2. PICK P : /\ Describes(lines, P) /\ Together(P) /\ Ahead(P, walk)
               /\ LinesSay(lines, P, tree, stable) /\ StatsSay(walk, tree, stable)
               /\ NoneMissed(P, walk, tree, stable)
    BY <1>1, ListedParts
<1>3. Dir = walk.dirs[1] /\ Head(walk.ci) = walk.ci[1]
    BY <1>1, <1>2, TailSeq DEF Ahead, RunShape, Dir
<1>4. PICK w, v, c, l : w = walk /\ v = walk' /\ c = This /\ l = NewLine(data, sha1)
    OBVIOUS
<1>5. c = Append(w.dirs[1], w.ci[1])
    BY <1>3, <1>4 DEF This, Full
<1>6. l.name = IF w.first \/ w.dirs[1] = Root
               THEN [rel |-> FALSE, path |-> Append(w.dirs[1], w.ci[1])]
               ELSE [rel |-> TRUE, path |-> <<Base(Append(w.dirs[1], w.ci[1]))>>]
    BY <1>3, <1>4, <1>5 DEF NewLine, Relname
<1>7. /\ lines' = Append(lines, l)
      /\ v = [w EXCEPT !.ci = Tail(@), !.first = FALSE, !.subdirs = @ \o subdirs]
      /\ tree' = tree /\ stable' = stable /\ end' = end
    BY <1>4 DEF Write
<1>8. subdirs \in {<<>>, <<c>>}
    BY <1>4
<1>9. Ahead(P, w) /\ w.pc = "line" /\ w.ci # <<>>
    BY <1>1, <1>2, <1>4
<1>10. PICK Q : Q = Append(P, c) /\ Describes(Append(lines, l), Q)
    BY <1>2, <1>5, <1>6, <1>8, <1>9, AppendLine
<1>11. /\ v.pc = "line" /\ v.dirs = w.dirs /\ v.s = w.s
      /\ v.ci = Tail(w.ci) /\ v.subdirs = w.subdirs \o subdirs
    <2>1. PICK T, D : T = Tail(w.ci) /\ D = w.subdirs \o subdirs
        OBVIOUS
    <2>2. IsRun(w) /\ v = [w EXCEPT !.ci = T, !.first = FALSE, !.subdirs = D]
        BY <1>7, <1>9, <2>1 DEF Ahead, RunShape
    <2>3. v = [pc |-> w.pc, dirs |-> w.dirs, names |-> w.names, s |-> w.s, ci |-> T,
               first |-> FALSE, subdirs |-> D]
        BY <2>2, NextRun
    <2> QED
        BY <1>9, <2>1, <2>3
<1>12. NameDone(w, v, c, subdirs)
    <2>1. PICK ss : ss = subdirs
        OBVIOUS
    <2>2. NameDone(w, v, c, ss)
        BY <1>5, <1>8, <1>9, <1>11, <2>1, NextName
    <2> QED
        BY <2>1, <2>2
<1>13. /\ IsSeq(P) /\ IsSeq(lines) /\ Len(P) = Len(lines) /\ Len(P) \in Nat
       /\ DOMAIN P = 1 .. Len(P) /\ DOMAIN lines = 1 .. Len(P)
    BY <1>2, SeqLength DEF Describes, IsSeq
<1>14. PICK N \in Nat : N = Len(P) /\ N = Len(lines) /\ DOMAIN P = 1 .. N /\ DOMAIN lines = 1 .. N
    BY <1>13
<1>15. /\ DOMAIN Q = 1 .. N + 1 /\ Q[N + 1] = c
       /\ \A i \in DOMAIN P : Q[i] = P[i]
    BY <1>10, <1>13, <1>14, AppendSeq
<1>16. PICK ls : ls = lines'
    OBVIOUS
<1>17. /\ ls[N + 1] = l
       /\ \A i \in DOMAIN P : ls[i] = lines[i]
    BY <1>7, <1>13, <1>14, <1>16, AppendSeq
<1>18. LinesSay(ls, Q, tree, stable)
    <2> SUFFICES ASSUME NEW i \in DOMAIN Q, Q[i] \in stable
                 PROVE  Says(ls[i], Q[i], tree, stable)
        BY DEF LinesSay
    <2>1. CASE i \in DOMAIN P
        BY <1>2, <1>15, <1>17, <2>1 DEF LinesSay
    <2>2. CASE i = N + 1
        BY <1>4, <1>15, <1>17, <2>2
    <2> QED
        BY <1>14, <1>15, <2>1, <2>2
<1>19. StatsSay(v, tree, stable)
    <2>1. \A j \in DOMAIN w.ci : w.ci[j] \in DOMAIN w.s
        BY <1>2, <1>4, <1>9 DEF StatsSay
    <2> QED
        BY <1>2, <1>4, <1>12, <1>11, <2>1 DEF StatsSay, NameDone
<1>20. NoneMissed(Q, v, tree, stable)
    <2> SUFFICES ASSUME NEW p \in stable, Reached(tree, p)
                 PROVE  Listed(p, Q) \/ Coming(p, v)
        BY DEF NoneMissed
    <2>1. Listed(p, P) \/ Coming(p, w)
        BY <1>2, <1>4 DEF NoneMissed
    <2>2. CASE Listed(p, P)
        BY <1>14, <1>15, <2>2 DEF Listed
    <2>3. CASE \/ \E k \in DOMAIN w.dirs : k # 1 /\ Above(w.dirs[k], p)
               \/ \E k \in DOMAIN w.subdirs : Above(w.subdirs[k], p)
        BY <1>12, <1>11, <2>3 DEF Coming, NameDone
    <2>4. ASSUME NEW i \in DOMAIN w.ci, Under(p, Append(w.dirs[1], w.ci[i]))
          PROVE  Listed(p, Q) \/ Coming(p, v)
        <3>1. CASE i # 1
            BY <1>12, <1>11, <2>4, <3>1 DEF Coming, NameDone
        <3>2. CASE i = 1 /\ p = c
            BY <1>14, <1>15, <3>2 DEF Listed
        <3>3. CASE i = 1 /\ p # c
            <4>1. Above(c, p)
                BY <1>5, <1>12, <1>11, <2>4, <3>3 DEF Above, NameDone
            <4>2. subdirs = <<c>>
                BY <1>4, <4>1
            <4> QED
                BY <1>12, <1>11, <4>1, <4>2 DEF Coming, NameDone
        <3> QED
            BY <3>1, <3>2, <3>3
    <2> QED
        BY <1>9, <2>1, <2>2, <2>3, <2>4 DEF Coming
<1>21. Steady(tree, stable) /\ Finite(tree) /\ ~ end
    BY <1>1 DEF ListedInv
<1> QED
    BY <1>4, <1>7, <1>10, <1>16, <1>18, <1>19, <1>20, <1>21 DEF ListedInv

\* What lstat said of the file whose line is next.
LEMMA StatOfThis ==
    ASSUME WalkInv, ListedInv, Writing
    PROVE  StatSays(Sb, This, tree, stable) /\ This \in Numbers /\ This # Root
<1>1. walk.pc = "line" /\ walk.ci # <<>> /\ Active(walk)
    BY DEF Writing, Active
<1>2. PICK P : Ahead(P, walk) /\ StatsSay(walk, tree, stable)
    BY <1>1, ListedParts
<1>3. /\ Dir = walk.dirs[1] /\ walk.dirs[1] \in Numbers
      /\ Head(walk.ci) = walk.ci[1] /\ 1 \in DOMAIN walk.ci /\ walk.ci[1] \in Nat
    BY <1>1, <1>2, TailSeq DEF Ahead, RunShape, Dir
<1>4. This = Append(walk.dirs[1], walk.ci[1]) /\ Sb = walk.s[walk.ci[1]]
    BY <1>3 DEF This, Full, Sb
<1>5. walk.ci[1] \in DOMAIN walk.s
    BY <1>1, <1>2, <1>3 DEF StatsSay
<1>6. StatSays(Sb, This, tree, stable)
    BY <1>2, <1>4, <1>5 DEF StatsSay
<1> QED
    BY <1>3, <1>4, <1>6, ChildOf

\* The line says what lstat said, and of a file or a link what was read.
LEMMA LineIsRight ==
    ASSUME WalkInv, ListedInv, Writing, This \in stable, NEW data, NEW sha1,
           Sb.kind = "file" => (IF data # None THEN data ELSE sha1) = tree[This].data,
           Sb.kind = "link" => data = tree[This].data
    PROVE  Says(NewLine(data, sha1), This, tree, stable)
<1>1. PICK l, p, s : l = NewLine(data, sha1) /\ p = This /\ s = Sb
    OBVIOUS
<1>2. l = [name |-> Relname, kind |-> s.kind, data |-> data, sha1 |-> sha1,
           inode |-> Inode, mtime |-> s.mtime]
    BY <1>1 DEF NewLine
<1>3. /\ l.kind = s.kind /\ l.data = data /\ l.sha1 = sha1 /\ l.inode = Inode /\ l.mtime = s.mtime
    BY <1>2
<1>4. /\ s.kind = tree[p].kind /\ s.mtime = tree[p].mtime /\ s.ino = tree[p].ino
      /\ (\E q \in stable \ {p} : tree[q].ino = tree[p].ino) => s.nlink > 1
    BY <1>1, StatOfThis DEF StatSays
<1>5. tree[p].ino[2] # None
    <2>1. tree[p] \in Node
        BY <1>1 DEF ListedInv, Steady
    <2>2. tree[p].ino \in Nat \X Nat
        BY <2>1 DEF Node
    <2> QED
        BY <2>2, NoneAssumption
<1>6. l.inode = IF s.kind = "file" /\ s.nlink > 1 THEN tree[p].ino[2] ELSE None
    BY <1>1, <1>3, <1>4 DEF Inode
<1>7. tree[p].kind \in {"file", "link"} => DataOf(l) = tree[p].data
    BY <1>1, <1>3, <1>4 DEF DataOf, R!Contents
<1> QED
    BY <1>1, <1>3, <1>4, <1>5, <1>6, <1>7 DEF Says

LEMMA WriteFileListed ==
    ASSUME WalkInv, ListedInv, WriteFile
    PROVE  ListedInv'
<1>1. PICK d : d = tree[This].data
    OBVIOUS
<1>2. PICK data, sha1 : /\ Write(data, sha1, <<>>)
                        /\ \/ Small /\ data = SubSeq(d, 1, Sb.size) /\ sha1 = None
                           \/ data = None /\ sha1 = d
    BY <1>1 DEF WriteFile
<1>3. Writing /\ Sb.kind = "file"
    BY DEF WriteFile
<1>4. StatSays(Sb, This, tree, stable)
    BY <1>3, StatOfThis
<1>5. ASSUME This \in stable PROVE (IF data # None THEN data ELSE sha1) = d
    <2>1. d \in Bytes
        <3>1. tree[This] \in Node
            BY <1>5 DEF ListedInv, Steady
        <3> QED
            BY <1>1, <3>1 DEF Node
    <2>2. SubSeq(d, 1, Len(d)) = d
        <3>1. Len(d) \in Nat /\ IsSeq(d)
            BY <2>1, LenProperties DEF Bytes, IsSeq
        <3>2. PICK t : t = SubSeq(d, 1, Len(d))
            OBVIOUS
        <3>3. IsSeq(t) /\ Len(t) = Len(d) /\ \A i \in 1 .. Len(d) : t[i] = d[i]
            BY <3>1, <3>2, PrefixSeq
        <3>4. PICK S : t \in Seq(S)
            BY <3>3 DEF IsSeq
        <3>5. t \in Seq(S \cup Byte) /\ d \in Seq(S \cup Byte)
            BY <2>1, <3>4, SeqMonotonic DEF Bytes
        <3> QED
            BY <3>2, <3>3, <3>5, SeqEqual
    <2>3. Sb.size = Len(d)
        BY <1>1, <1>4, <1>5 DEF StatSays
    <2> QED
        BY <1>2, <2>2, <2>3
<1>6. This \in stable => Says(NewLine(data, sha1), This, tree, stable)
    BY <1>1, <1>3, <1>5, LineIsRight
<1>7. \A p \in stable : ~ Above(This, p)
    BY <1>3, <1>4 DEF StatSays
<1> QED
    BY <1>2, <1>3, <1>6, <1>7, WriteListed

LEMMA WriteDirListed ==
    ASSUME WalkInv, ListedInv, WriteDir
    PROVE  ListedInv'
<1>1. PICK ss : ss = IF Enter(This) THEN <<This>> ELSE <<>>
    OBVIOUS
<1>2. Writing /\ Sb.kind = "dir" /\ Write(None, None, ss)
    BY <1>1 DEF WriteDir
<1>3. This \in stable => Says(NewLine(None, None), This, tree, stable)
    BY <1>2, LineIsRight
<1>4. ASSUME NEW p \in stable, Reached(tree, p), Above(This, p) PROVE Enter(This)
    <2>1. This \in Numbers /\ This # Root
        BY <1>2, StatOfThis
    <2>2. CrossFs \/ DeviceIn(tree, This) = DeviceIn(tree, Parent(This))
        BY <1>4, <2>1 DEF Reached
    <2> QED
        BY <2>2 DEF Enter, IsMount, Device, DeviceIn
<1> QED
    BY <1>1, <1>2, <1>3, <1>4, WriteListed

LEMMA WriteOtherListed ==
    ASSUME WalkInv, ListedInv, WriteLink \/ WriteSpecial
    PROVE  ListedInv'
<1>1. PICK data : /\ Writing /\ Write(data, None, <<>>) /\ Sb.kind \in {"link", "chr", "socket"}
                  /\ Sb.kind = "link" => data = tree[This].data
    BY DEF WriteLink, WriteSpecial
<1>2. This \in stable => Says(NewLine(data, None), This, tree, stable)
    BY <1>1, LineIsRight
<1>3. \A p \in stable : ~ Above(This, p)
    BY <1>1, StatOfThis DEF StatSays
<1> QED
    BY <1>1, <1>2, <1>3, WriteListed

\* The next directory is entered; after the last one nothing is to come.
LEMMA DirDoneListed ==
    ASSUME WalkInv, ListedInv, DirDone
    PROVE  ListedInv'
<1>1. walk.pc = "line" /\ walk.ci = <<>> /\ Active(walk)
    BY DEF DirDone, Active
<1>2. PICK P : /\ Describes(lines, P) /\ Together(P) /\ Ahead(P, walk)
               /\ LinesSay(lines, P, tree, stable) /\ NoneMissed(P, walk, tree, stable)
    BY <1>1, ListedParts
<1>3. PICK w, v, T, W : /\ w = walk /\ v = walk' /\ T = Tail(walk.dirs) /\ W = walk.subdirs \o T
    OBVIOUS
<1>4. /\ w.dirs \in Seq(Numbers) /\ w.dirs # <<>> /\ w.subdirs \in Seq(Numbers)
    BY <1>2, <1>3 DEF Ahead, RunShape
<1>5. /\ T \in Seq(Numbers) /\ Len(T) = Len(w.dirs) - 1
      /\ \A i \in DOMAIN T : i \in Nat \ {0} /\ i + 1 \in DOMAIN w.dirs /\ T[i] = w.dirs[i + 1]
    BY <1>3, <1>4, TailSeq
<1>6. PICK a \in Nat, b \in Nat : a = Len(w.subdirs) /\ b = Len(T)
    BY <1>4, <1>5, LenProperties
<1>7. /\ W \in Seq(Numbers) /\ Len(W) = a + b /\ DOMAIN W = 1 .. a + b
      /\ \A i \in 1 .. a + b : W[i] = IF i <= a THEN w.subdirs[i] ELSE T[i - a]
    <2>1. T \in Seq(Numbers)
        BY <1>5
    <2>2. /\ w.subdirs \o T \in Seq(Numbers)
          /\ Len(w.subdirs \o T) = Len(w.subdirs) + Len(T)
          /\ \A i \in 1 .. Len(w.subdirs) + Len(T) :
                (w.subdirs \o T)[i]
                    = IF i <= Len(w.subdirs) THEN w.subdirs[i] ELSE T[i - Len(w.subdirs)]
        BY <1>4, <2>1, ConcatProperties
    <2>3. W = w.subdirs \o T
        BY <1>3
    <2>4. W \in Seq(Numbers)
        BY <2>2, <2>3
    <2>5. DOMAIN W = 1 .. Len(W)
        BY <2>4, LenProperties
    <2> QED
        BY <1>6, <2>2, <2>3, <2>4, <2>5
<1>8. /\ DOMAIN w.subdirs = 1 .. a /\ DOMAIN T = 1 .. b /\ DOMAIN w.dirs = 1 .. b + 1
    <2>1. Len(w.dirs) \in Nat /\ Len(w.dirs) = b + 1
        BY <1>4, <1>5, <1>6, LenProperties
    <2> QED
        BY <1>4, <1>5, <1>6, <2>1, LenProperties
<1>9. /\ \A i \in DOMAIN w.subdirs : \E k \in DOMAIN W : W[k] = w.subdirs[i]
      /\ \A i \in DOMAIN w.dirs : i # 1 => \E k \in DOMAIN W : W[k] = w.dirs[i]
    <2>1. ASSUME NEW i \in DOMAIN w.subdirs PROVE i \in DOMAIN W /\ W[i] = w.subdirs[i]
        BY <1>7, <1>8
    <2>2. ASSUME NEW i \in DOMAIN w.dirs, i # 1 PROVE \E k \in DOMAIN W : W[k] = w.dirs[i]
        <3>1. i - 1 \in DOMAIN T /\ (i - 1) + 1 = i
            BY <1>8, <2>2
        <3>2. a + (i - 1) \in DOMAIN W /\ ~ a + (i - 1) <= a /\ (a + (i - 1)) - a = i - 1
            BY <1>7, <1>8, <2>2
        <3>3. W[a + (i - 1)] = T[i - 1]
            BY <1>7, <3>2
        <3> QED
            BY <1>5, <3>1, <3>2, <3>3
    <2> QED
        BY <2>1, <2>2
<1>10. /\ v = Entered(W) /\ end' = (W = <<>>)
       /\ lines' = lines /\ tree' = tree /\ stable' = stable
    BY <1>3 DEF DirDone, Waiting
<1>11. v = [pc |-> IF W = <<>> THEN "done" ELSE "list", dirs |-> W, names |-> {},
            s |-> EmptyMap, ci |-> <<>>, first |-> TRUE, subdirs |-> <<>>]
    BY <1>10 DEF Entered
<1>12. /\ v.pc = IF W = <<>> THEN "done" ELSE "list"
       /\ v.dirs = W /\ v.s = EmptyMap
    BY <1>11
<1>13. StatsSay(v, tree, stable)
    BY <1>12 DEF StatsSay, EmptyMap
<1>14. \A p \in stable : Reached(tree, p) =>
          Listed(p, P) \/ \E k \in DOMAIN W : Above(W[k], p)
    <2>1. DOMAIN w.ci = {}
        BY <1>1, <1>3
    <2> QED
        BY <1>1, <1>2, <1>3, <1>9, <2>1 DEF NoneMissed, Coming
<1>15. CASE W = <<>>
    <2>1. DOMAIN W = {} /\ v.pc = "done"
        BY <1>12, <1>15
    <2>3. end'
        <3>1. end' = (W = <<>>)
            BY <1>10
        <3> QED
            BY <1>15, <3>1
    <2>2. AllListed(P, tree, stable)
        BY <1>14, <2>1 DEF AllListed
    <2> QED
        BY <1>2, <1>3, <1>10, <2>1, <2>2, <2>3 DEF ListedInv, Active
<1>16. CASE W # <<>>
    <2>1. v.pc = "list" /\ ~ end'
        BY <1>10, <1>12, <1>16
    <2>2. NoneMissed(P, v, tree, stable)
        <3> SUFFICES ASSUME NEW p \in stable, Reached(tree, p), NEW k \in DOMAIN W, Above(W[k], p)
                     PROVE  Coming(p, v)
            BY <1>14 DEF NoneMissed
        <3> QED
            BY <1>12, <2>1 DEF Coming, Above
    <2> QED
        BY <1>2, <1>3, <1>10, <1>13, <2>1, <2>2 DEF ListedInv, Active
<1> QED
    BY <1>15, <1>16

LEMMA ListedStep ==
    ASSUME WalkInv, DataInv, ListedInv, [Next]_vars
    PROVE  ListedInv'
<1>1. ASSUME UNCHANGED <<tree, walk, lines, end, stable>> PROVE ListedInv'
    BY <1>1 DEF ListedInv
<1>2. CASE WalkStep
    <2>1. CASE Contents
        BY <2>1, ContentsListed
    <2>2. ASSUME NEW n \in Name, Lstat(n) PROVE ListedInv'
        BY <2>2, LstatListed
    <2>3. CASE Sort
        BY <2>3, SortListed
    <2>4. CASE WriteFile
        BY <2>4, WriteFileListed
    <2>5. CASE WriteDir
        BY <2>5, WriteDirListed
    <2>6. CASE WriteLink \/ WriteSpecial
        BY <2>6, WriteOtherListed
    <2>7. CASE ContentsFails \/ LstatFails \/ WriteFails
        BY <2>7, DieListed DEF ContentsFails, LstatFails, WriteFails, Walking, Writing
    <2>8. CASE DirDone
        BY <2>8, DirDoneListed
    <2> QED
        BY <1>2, <2>1, <2>2, <2>3, <2>4, <2>5, <2>6, <2>7, <2>8 DEF WalkStep
<1>3. CASE WalkDies
    BY <1>3, DieListed DEF WalkDies
<1>4. CASE Change
    BY <1>4, ChangeListed
<1>5. CASE RestoreStarts \/ RestoreRuns \/ RestoreDies \/ LoseObject \/ UNCHANGED vars
    BY <1>1, <1>5 DEF RestoreStarts, RestoreRuns, RestoreDies, LoseObject, vars, wvars
<1> QED
    BY <1>2, <1>3, <1>4, <1>5 DEF Next, Backup, BackupDies, Users

LEMMA ListedInit ==
    ASSUME Init
    PROVE  ListedInv
<1>1. /\ tree \in Trees /\ walk = Entered(<<Root>>) /\ lines = <<>> /\ end = FALSE
      /\ stable = DOMAIN tree
    BY DEF Init, WalkInit
<1>2. PICK t : t = tree
    OBVIOUS
<1>3. /\ DOMAIN t \subseteq Path /\ t \in [DOMAIN t -> Node] /\ IsFiniteSet(DOMAIN t)
      /\ \A p \in DOMAIN t :
            /\ p # Root
            /\ \A n \in 1 .. Len(p) - 1 :
                  SubSeq(p, 1, n) \in DOMAIN t /\ t[SubSeq(p, 1, n)].kind = "dir"
    BY <1>1, <1>2, TreesAssumption DEF IsMap
<1>4. Finite(t)
    BY <1>3, PathIsNumbers DEF Finite
<1>5. Steady(t, DOMAIN t)
    <2>1. \A p \in DOMAIN t : p \in Path /\ p # Root /\ t[p] \in Node
        BY <1>3
    <2>2. ASSUME NEW p \in DOMAIN t, NEW q \in Numbers, Above(q, p)
          PROVE  q \in DOMAIN t /\ t[q].kind = "dir"
        <3>1. PICK n : n = Len(q)
            OBVIOUS
        <3>2. n \in 1 .. Len(p) - 1 /\ q = SubSeq(p, 1, n)
            BY <2>1, <2>2, <3>1, PathIsNumbers, AbovePrefix
        <3> QED
            BY <1>3, <3>2
    <2> QED
        BY <2>1, <2>2 DEF Steady
<1>6. PICK v : v = walk
    OBVIOUS
<1>7. v = [pc |-> "list", dirs |-> <<Root>>, names |-> {}, s |-> EmptyMap, ci |-> <<>>,
           first |-> TRUE, subdirs |-> <<>>]
    BY <1>1, <1>6 DEF Entered
<1>8. v.pc = "list" /\ v.s = EmptyMap /\ v.dirs = <<Root>>
    BY <1>7
<1>9. StatsSay(v, t, DOMAIN t)
    BY <1>8 DEF StatsSay, EmptyMap
<1>10. NoneMissed(<<>>, v, t, DOMAIN t)
    <2> SUFFICES ASSUME NEW p \in DOMAIN t PROVE Coming(p, v)
        BY DEF NoneMissed
    <2>1. v.dirs[1] = Root
        BY <1>8
    <2>2. p # Root /\ p \in Numbers
        BY <1>3, PathIsNumbers
    <2>3. Under(p, Root)
        BY <2>2, LenProperties, EmptySeq DEF Under, Root, Numbers
    <2> QED
        BY <1>8, <2>1, <2>2, <2>3 DEF Coming
<1>11. Describes(<<>>, <<>>) /\ LinesSay(<<>>, <<>>, t, DOMAIN t)
    <2>1. <<>> \in Seq(Numbers) /\ IsSeq(<<>>) /\ DOMAIN <<>> = {}
        BY EmptySeq DEF IsSeq
    <2> QED
        BY <2>1 DEF Describes, LinesSay
<1> QED
    BY <1>1, <1>2, <1>4, <1>5, <1>6, <1>9, <1>10, <1>11 DEF ListedInv

LEMMA UnchangedOfInv ==
    ASSUME ListedInv
    PROVE  UnchangedListed
<1>1. PICK P : /\ Describes(lines, P) /\ LinesSay(lines, P, tree, stable)
               /\ end => AllListed(P, tree, stable)
    BY DEF ListedInv
<1>2. DOMAIN lines = DOMAIN P /\ \A i \in DOMAIN P : LinePath(i) = P[i]
    <2>1. Len(P) = Len(lines) /\ DOMAIN P = 1 .. Len(P) /\ DOMAIN lines = 1 .. Len(lines)
        BY <1>1, SeqLength DEF Describes, IsSeq
    <2> QED
        BY <1>1, <2>1, PathOfLine
<1>3. ASSUME NEW i \in DOMAIN lines, LinePath(i) \in stable
      PROVE  LineRight(lines[i], LinePath(i))
    BY <1>1, <1>2, <1>3 DEF LinesSay, Says, LineRight
<1>4. ASSUME end, NEW p \in stable, Covered(p) PROVE \E i \in DOMAIN lines : LinePath(i) = p
    <2>1. p \in Numbers /\ Finite(tree) /\ Steady(tree, stable)
        BY PathIsNumbers DEF ListedInv, Steady
    <2>2. ASSUME NEW q \in Numbers, Above(q, p), ~ CrossFs
          PROVE  DeviceIn(tree, q) = DeviceIn(tree, Parent(q))
        <3>1. q \in DOMAIN tree /\ tree[q].kind = "dir"
            BY <2>1, <2>2 DEF Steady
        <3>2. Below(q, p)
            BY <2>1, <2>2, BelowIsUnder DEF Above
        <3>3. ~ IsMount(q) /\ IsDir(q)
            BY <1>4, <2>2, <3>1, <3>2 DEF Covered, Enter, IsDir
        <3> QED
            BY <3>3 DEF IsMount, Device, DeviceIn
    <2>3. Reached(tree, p)
        BY <1>4, <2>2 DEF Covered, Reached
    <2> QED
        BY <1>1, <1>2, <1>4, <2>3 DEF AllListed, Listed
<1> QED
    BY <1>3, <1>4 DEF UnchangedListed

\* What a line of the index says of a file that has not changed since the backup
\* began is true, and when the index has its [end] each such file has a line
\* (unless it is beyond a mount point that is not crossed): whatever else comes
\* and goes between contents(), lstat, the read and the queue of subdirectories
\* of backup_dir (backup.cc:130-356).
THEOREM UnchangedInIndex == Spec => []UnchangedListed
<1>1. Init => WalkInv /\ DataInv /\ ListedInv
    BY WalkInvInit, TornInit, ListedInit
<1>2. WalkInv /\ [Next]_vars => WalkInv'
    BY WalkInvStep
<1>3. WalkInv /\ DataInv /\ [Next]_vars => DataInv'
    BY DataStep
<1>4. WalkInv /\ DataInv /\ ListedInv /\ [Next]_vars => ListedInv'
    BY ListedStep
<1>5. ListedInv => UnchangedListed
    BY UnchangedOfInv
<1> QED
    BY <1>1, <1>2, <1>3, <1>4, <1>5, PTL DEF Spec

----------------------------------------------------------------------------
(***************************************************************************)
(* What each step of a restore does to the run and to the tree, exactly:   *)
(* all else, but for the times of directories, is as it was.               *)
(***************************************************************************)
Whole(x, pc, pos, dir, path, inodes, dirtimes, errors, left) ==
    Fields(x, pc, pos, dir, path, inodes, dirtimes) /\ x.errors = errors /\ x.left = left

\* The run with one thing changed, or with nothing changed.
LEMMA ChangedWhole ==
    ASSUME NEW r, NEW pc, NEW pos, NEW dir, NEW path, NEW inodes, NEW dirtimes,
           NEW errors, NEW left,
           Whole(r, pc, pos, dir, path, inodes, dirtimes, errors, left),
           NEW v, NEW x
    PROVE
      /\ x = [r EXCEPT !.pc = v] => Whole(x, v, pos, dir, path, inodes, dirtimes, errors, left)
      /\ x = [r EXCEPT !.pos = v] => Whole(x, pc, v, dir, path, inodes, dirtimes, errors, left)
      /\ x = [r EXCEPT !.dir = v] => Whole(x, pc, pos, v, path, inodes, dirtimes, errors, left)
      /\ x = [r EXCEPT !.path = v] => Whole(x, pc, pos, dir, v, inodes, dirtimes, errors, left)
      /\ x = [r EXCEPT !.inodes = v] => Whole(x, pc, pos, dir, path, v, dirtimes, errors, left)
      /\ x = [r EXCEPT !.dirtimes = v] => Whole(x, pc, pos, dir, path, inodes, v, errors, left)
      /\ x = [r EXCEPT !.errors = v] => Whole(x, pc, pos, dir, path, inodes, dirtimes, v, left)
      /\ x = [r EXCEPT !.left = v] => Whole(x, pc, pos, dir, path, inodes, dirtimes, errors, v)
<1>1. r = [pc |-> pc, pos |-> pos, dir |-> dir, path |-> path, inodes |-> inodes,
           dirtimes |-> dirtimes, errors |-> errors, left |-> left]
    <2>1. PICK a, b, c, d, e, f, g, h :
             r = [pc |-> a, pos |-> b, dir |-> c, path |-> d, inodes |-> e,
                  dirtimes |-> f, errors |-> g, left |-> h]
        BY DEF Whole, Fields, IsRs
    <2>2. /\ r.pc = pc /\ r.pos = pos /\ r.dir = dir /\ r.path = path /\ r.inodes = inodes
          /\ r.dirtimes = dirtimes /\ r.errors = errors /\ r.left = left
        BY DEF Whole, Fields
    <2> QED
        BY <2>1, <2>2
<1>2. ASSUME NEW a, NEW b, NEW c, NEW d, NEW e, NEW f, NEW g, NEW h,
             x = [pc |-> a, pos |-> b, dir |-> c, path |-> d, inodes |-> e,
                  dirtimes |-> f, errors |-> g, left |-> h]
      PROVE  Whole(x, a, b, c, d, e, f, g, h)
    BY <1>2 DEF Whole, Fields, IsRs
<1>3. ASSUME x = [r EXCEPT !.pc = v]
      PROVE  Whole(x, v, pos, dir, path, inodes, dirtimes, errors, left)
    <2>1. x = [pc |-> v, pos |-> pos, dir |-> dir, path |-> path, inodes |-> inodes,
               dirtimes |-> dirtimes, errors |-> errors, left |-> left]
        BY <1>1, <1>3
    <2> QED
        BY <1>2, <2>1
<1>4. ASSUME x = [r EXCEPT !.pos = v]
      PROVE  Whole(x, pc, v, dir, path, inodes, dirtimes, errors, left)
    <2>1. x = [pc |-> pc, pos |-> v, dir |-> dir, path |-> path, inodes |-> inodes,
               dirtimes |-> dirtimes, errors |-> errors, left |-> left]
        BY <1>1, <1>4
    <2> QED
        BY <1>2, <2>1
<1>5. ASSUME x = [r EXCEPT !.dir = v]
      PROVE  Whole(x, pc, pos, v, path, inodes, dirtimes, errors, left)
    <2>1. x = [pc |-> pc, pos |-> pos, dir |-> v, path |-> path, inodes |-> inodes,
               dirtimes |-> dirtimes, errors |-> errors, left |-> left]
        BY <1>1, <1>5
    <2> QED
        BY <1>2, <2>1
<1>6. ASSUME x = [r EXCEPT !.path = v]
      PROVE  Whole(x, pc, pos, dir, v, inodes, dirtimes, errors, left)
    <2>1. x = [pc |-> pc, pos |-> pos, dir |-> dir, path |-> v, inodes |-> inodes,
               dirtimes |-> dirtimes, errors |-> errors, left |-> left]
        BY <1>1, <1>6
    <2> QED
        BY <1>2, <2>1
<1>7. ASSUME x = [r EXCEPT !.inodes = v]
      PROVE  Whole(x, pc, pos, dir, path, v, dirtimes, errors, left)
    <2>1. x = [pc |-> pc, pos |-> pos, dir |-> dir, path |-> path, inodes |-> v,
               dirtimes |-> dirtimes, errors |-> errors, left |-> left]
        BY <1>1, <1>7
    <2> QED
        BY <1>2, <2>1
<1>8. ASSUME x = [r EXCEPT !.dirtimes = v]
      PROVE  Whole(x, pc, pos, dir, path, inodes, v, errors, left)
    <2>1. x = [pc |-> pc, pos |-> pos, dir |-> dir, path |-> path, inodes |-> inodes,
               dirtimes |-> v, errors |-> errors, left |-> left]
        BY <1>1, <1>8
    <2> QED
        BY <1>2, <2>1
<1>9. ASSUME x = [r EXCEPT !.errors = v]
      PROVE  Whole(x, pc, pos, dir, path, inodes, dirtimes, v, left)
    <2>1. x = [pc |-> pc, pos |-> pos, dir |-> dir, path |-> path, inodes |-> inodes,
               dirtimes |-> dirtimes, errors |-> v, left |-> left]
        BY <1>1, <1>9
    <2> QED
        BY <1>2, <2>1
<1>10. ASSUME x = [r EXCEPT !.left = v]
       PROVE  Whole(x, pc, pos, dir, path, inodes, dirtimes, errors, v)
    <2>1. x = [pc |-> pc, pos |-> pos, dir |-> dir, path |-> path, inodes |-> inodes,
               dirtimes |-> dirtimes, errors |-> errors, left |-> v]
        BY <1>1, <1>10
    <2> QED
        BY <1>2, <2>1
<1> QED
    BY <1>3, <1>4, <1>5, <1>6, <1>7, <1>8, <1>9, <1>10

LEMMA WholeRun ==
    ASSUME NEW r, IsRs(r)
    PROVE  Whole(r, r.pc, r.pos, r.dir, r.path, r.inodes, r.dirtimes, r.errors, r.left)
BY DEF Whole, Fields

\* The run as it was, but for pc.
Same(r, x, pc) ==
    Whole(x, pc, r.pos, r.dir, r.path, r.inodes, r.dirtimes, r.errors, r.left)

LEMMA GotoSame ==
    ASSUME IsRs(rs), NEW pc, R!Goto(pc)
    PROVE  Same(rs, rs', pc)
<1>1. PICK r, x : r = rs /\ x = rs'
    OBVIOUS
<1>2. IsRs(r) /\ x = [r EXCEPT !.pc = pc]
    BY <1>1 DEF R!Goto
<1>3. Same(r, x, pc)
    BY <1>2, WholeRun, ChangedWhole DEF Same
<1> QED
    BY <1>1, <1>3

\* All files but those of X are there before and after, the same but for the
\* times of directories.
Frame(o, u, X) ==
    \A q : q \notin X =>
       /\ q \in DOMAIN o <=> q \in DOMAIN u
       /\ q \in DOMAIN o =>
             /\ u[q].kind = o[q].kind /\ u[q].data = o[q].data /\ u[q].id = o[q].id
             /\ o[q].kind # "dir" => u[q].mtime = o[q].mtime

LEMMA TouchId ==
    ASSUME NEW n, NodeOK(n), NEW t
    PROVE  [n EXCEPT !.mtime = t].id = n.id /\ [n EXCEPT !.data = t].id = n.id
<1>1. PICK kind, data, mtime, id :
         n = [kind |-> kind, data |-> data, mtime |-> mtime, id |-> id]
    BY DEF NodeOK
<1>2. PICK x, y : x = [n EXCEPT !.mtime = t] /\ y = [n EXCEPT !.data = t]
    OBVIOUS
<1>3. /\ x = [kind |-> kind, data |-> data, mtime |-> t, id |-> id]
      /\ y = [kind |-> kind, data |-> t, mtime |-> mtime, id |-> id]
    BY <1>1, <1>2
<1>4. x.id = id /\ y.id = id /\ n.id = id
    BY <1>1, <1>3
<1> QED
    BY <1>2, <1>4

LEMMA TouchFrame ==
    ASSUME NEW o, OutTree(o), NEW d, d \in DOMAIN o => o[d].kind = "dir"
    PROVE  DOMAIN R!Touched(o, d) = DOMAIN o /\ Frame(o, R!Touched(o, d), {})
<1>1. CASE d \notin DOMAIN o
    BY <1>1 DEF R!Touched, Frame
<1>2. CASE d \in DOMAIN o
    <2>1. PICK n : n = [o[d] EXCEPT !.mtime = Now]
        OBVIOUS
    <2>2. n.kind = o[d].kind /\ n.data = o[d].data /\ n.id = o[d].id
        BY <1>2, <2>1, TouchNode, TouchId DEF OutTree
    <2>3. PICK u : u = R!Touched(o, d)
        OBVIOUS
    <2>4. u = [o EXCEPT ![d] = n]
        BY <1>2, <2>1, <2>3 DEF R!Touched
    <2>5. DOMAIN u = DOMAIN o /\ u[d] = n /\ \A q \in DOMAIN o : q # d => u[q] = o[q]
        BY <1>2, <2>4 DEF OutTree
    <2>6. Frame(o, u, {})
        BY <1>2, <2>2, <2>5 DEF Frame
    <2> QED
        BY <2>3, <2>5, <2>6
<1> QED
    BY <1>1, <1>2

\* There is a directory for t, of which nothing is there.
Vacant(o, t) ==
    /\ t \in Numbers /\ t # Root /\ t \notin DOMAIN o /\ Parent(t) # t
    /\ Parent(t) = Root \/ (Parent(t) \in DOMAIN o /\ o[Parent(t)].kind = "dir")

\* A file is made in its directory, of which the time changes.
MadeAt(o, u, t, n) ==
    Frame(o, u, {t}) /\ DOMAIN u = DOMAIN o \cup {t} /\ u[t] = n

LEMMA MakeFrame ==
    ASSUME NEW o, OutTree(o), NEW t, Vacant(o, t), NEW n, NodeOK(n),
           NEW u, u = R!Touched(Put(o, t, n), Parent(t))
    PROVE  MadeAt(o, u, t, n)
<1> USE DEF Vacant
<1>1. PICK v : v = Put(o, t, n)
    OBVIOUS
<1>2. /\ DOMAIN v = DOMAIN o \cup {t} /\ v = [q \in DOMAIN v |-> v[q]] /\ v[t] = n
      /\ \A q \in DOMAIN o : q # t => v[q] = o[q]
    BY <1>1 DEF Put
<1>3. OutTree(v)
    <2>1. \A q \in DOMAIN o : v[q] = o[q]
        BY <1>2
    <2> QED
        BY <1>2, <2>1 DEF OutTree
<1>4. Parent(t) \in DOMAIN v => v[Parent(t)].kind = "dir"
    <2>1. Root \notin DOMAIN o
        BY DEF OutTree
    <2> QED
        BY <1>2, <2>1
<1>5. DOMAIN u = DOMAIN v /\ Frame(v, u, {})
    BY <1>1, <1>3, <1>4, TouchFrame
<1>6. Frame(o, u, {t})
    BY <1>2, <1>5 DEF Frame
<1>7. u[t] = n
    <2>1. t \in DOMAIN v /\ t # Parent(t) /\ v[t] = n
        BY <1>2
    <2>2. \A q \in DOMAIN v : q # Parent(t) => u[q] = v[q]
        BY <1>1, <1>3, <1>4, TouchTree
    <2> QED
        BY <2>1, <2>2
<1> QED
    BY <1>2, <1>5, <1>6, <1>7 DEF MadeAt

LEMMA RemoveFrame ==
    ASSUME NEW o, OutTree(o), NEW t, \A q \in DOMAIN o : Parent(q) # t,
           NEW d, d \in DOMAIN o => o[d].kind = "dir",
           NEW u, u = R!Touched(Drop(o, t), d)
    PROVE  Frame(o, u, {t}) /\ DOMAIN u = DOMAIN o \ {t}
<1>1. PICK v : v = Drop(o, t)
    OBVIOUS
<1>2. /\ DOMAIN v = DOMAIN o \ {t} /\ v = [q \in DOMAIN v |-> v[q]]
      /\ \A q \in DOMAIN v : v[q] = o[q]
    BY <1>1 DEF Drop
<1>3. OutTree(v)
    BY <1>2 DEF OutTree
<1>4. DOMAIN u = DOMAIN v /\ Frame(v, u, {})
    BY <1>1, <1>2, <1>3, TouchFrame
<1> QED
    BY <1>2, <1>4 DEF Frame

LEMMA RenameFrame ==
    ASSUME NEW o, OutTree(o), NEW t \in DOMAIN o, NEW p \in Numbers, p # Root, p # t,
           Parent(p) = Parent(t), Parent(p) # p, Parent(p) # t,
           \A q \in DOMAIN o : Parent(q) # t /\ Parent(q) # p,
           NEW u, u = R!Touched(Drop(Put(o, p, o[t]), t), Parent(p))
    PROVE  Frame(o, u, {t, p}) /\ DOMAIN u = (DOMAIN o \cup {p}) \ {t} /\ u[p] = o[t]
<1>1. PICK v : v = Drop(Put(o, p, o[t]), t)
    OBVIOUS
<1>2. /\ DOMAIN v = (DOMAIN o \cup {p}) \ {t} /\ v = [q \in DOMAIN v |-> v[q]]
      /\ v[p] = o[t]
      /\ \A q \in DOMAIN v : q # p => v[q] = o[q]
    BY <1>1 DEF Put, Drop
<1>3. OutTree(v)
    <2> SUFFICES ASSUME NEW q \in DOMAIN v
                 PROVE  /\ q \in Numbers /\ q # Root /\ NodeOK(v[q])
                        /\ \/ Parent(q) = Root
                           \/ Parent(q) \in DOMAIN v /\ v[Parent(q)].kind = "dir"
        BY <1>2 DEF OutTree
    <2>1. CASE q = p
        BY <1>2, <2>1 DEF OutTree
    <2>2. CASE q # p
        BY <1>2, <2>2 DEF OutTree
    <2> QED
        BY <2>1, <2>2
<1>4. Parent(p) \in DOMAIN v => v[Parent(p)].kind = "dir"
    <2>1. Root \notin DOMAIN o
        BY DEF OutTree
    <2> QED
        BY <1>2, <2>1 DEF OutTree
<1>5. DOMAIN u = DOMAIN v /\ Frame(v, u, {})
    BY <1>1, <1>3, <1>4, TouchFrame
<1>6. Frame(o, u, {t, p})
    BY <1>2, <1>5 DEF Frame
<1>7. u[p] = o[t]
    BY RenameTree
<1> QED
    BY <1>2, <1>5, <1>6, <1>7

LEMMA EditFrame ==
    ASSUME NEW o, OutTree(o), NEW t \in DOMAIN o, NEW n, NEW u, u = [o EXCEPT ![t] = n]
    PROVE  Frame(o, u, {t}) /\ DOMAIN u = DOMAIN o /\ u[t] = n
<1>1. /\ DOMAIN u = DOMAIN o /\ u[t] = n
      /\ \A q \in DOMAIN o : q # t => u[q] = o[q]
    BY DEF OutTree
<1> QED
    BY <1>1 DEF Frame

Free(o, t) == \A q \in DOMAIN o : Parent(q) # t

\* A line is read, and its temporary name is out of the way, unless there is a
\* directory of that name with something in it.
StepReads(P, o, u, r, x) ==
    /\ r.pc = "read" /\ r.pos \in DOMAIN P
    /\ Whole(x, "make", r.pos, Parent(P[r.pos]), P[r.pos], r.inodes, r.dirtimes,
             r.errors, r.left)
    /\ \/ u = o /\ Tmpname(P[r.pos]) \in DOMAIN o /\ \E q \in DOMAIN o : Below(Tmpname(P[r.pos]), q)
       \/ /\ Frame(o, u, {Tmpname(P[r.pos])}) /\ DOMAIN u = DOMAIN o \ {Tmpname(P[r.pos])}
          /\ Free(o, Tmpname(P[r.pos]))

StepEnds(P, o, u, r, x) ==
    r.pc = "read" /\ r.pos \notin DOMAIN P /\ u = o /\ Same(r, x, "fix")

\* A run is over, or begins.
StepFresh(o, u, x, pc) ==
    u = o /\ Whole(x, pc, 1, Root, Root, EmptyMap, <<>>, FALSE, {})

\* The temporary file is made.
StepMakes(o, u, r, x, n, pc) ==
    /\ r.pc = "make" /\ Same(r, x, pc)
    /\ Tmpname(r.path) \notin DOMAIN o /\ u[Tmpname(r.path)] = n
    /\ DOMAIN u = DOMAIN o \cup {Tmpname(r.path)} /\ Frame(o, u, {Tmpname(r.path)})
    /\ Parent(r.path) = Root \/ Parent(r.path) \in DOMAIN o

LinkNode(l, o, r, n) ==
    /\ l.inode \in DOMAIN r.inodes /\ r.inodes[l.inode] \in DOMAIN o
    /\ n = o[r.inodes[l.inode]]

FileNode(l, o, r, n) ==
    /\ l.inode \notin DOMAIN r.inodes /\ l.kind = "file" /\ n.kind = "file" /\ n.data = <<>>
    /\ IsFiniteSet(DOMAIN o) => \A q \in DOMAIN o : o[q].id # n.id

OtherNode(l, n) ==
    /\ l.kind \in {"dir", "link", "chr", "socket"} /\ n.kind = l.kind
    /\ n.data = IF l.kind = "link" THEN l.data ELSE <<>>

\* A directory that is there is left alone.
StepLeaves(l, o, u, r, x) ==
    /\ r.pc = "make" /\ u = o /\ l.kind = "dir"
    /\ r.path \in DOMAIN o /\ o[r.path].kind # "link"
    /\ Whole(x, "read", r.pos + 1, r.dir, r.path, r.inodes, r.dirtimes, r.errors,
             r.left \cup {r.path})

StepErrs(l, o, u, r, x) ==
    /\ r.pc = "make" /\ u = o /\ l.kind = "socket"
    /\ Whole(x, "read", r.pos + 1, r.dir, r.path, r.inodes, r.dirtimes, TRUE, r.left)

\* A block is copied.
StepFills(o, u, r, x) ==
    /\ r.pc = "fill" /\ x = r
    /\ Frame(o, u, {Tmpname(r.path)}) /\ DOMAIN u = DOMAIN o
    /\ u[Tmpname(r.path)].kind = o[Tmpname(r.path)].kind
    /\ u[Tmpname(r.path)].id = o[Tmpname(r.path)].id

StepCopied(l, o, u, r, x) ==
    /\ r.pc = "fill" /\ u = o /\ o[Tmpname(r.path)].data = R!Contents(l)
    /\ Whole(x, "times", r.pos, r.dir, r.path,
             IF l.inode = None THEN r.inodes ELSE Put(r.inodes, l.inode, r.path),
             r.dirtimes, r.errors, r.left)

StepPutsOff(l, o, u, r, x) ==
    /\ r.pc = "times" /\ u = o /\ l.kind = "dir"
    /\ Whole(x, "rename", r.pos, r.dir, r.path, r.inodes,
             Append(r.dirtimes, [dir |-> r.path, mtime |-> l.mtime]), r.errors, r.left)

StepTimes(l, o, u, r, x) ==
    /\ r.pc = "times" /\ l.kind # "dir" /\ Same(r, x, "rename")
    /\ Frame(o, u, {Tmpname(r.path)}) /\ DOMAIN u = DOMAIN o
    /\ u[Tmpname(r.path)].kind = o[Tmpname(r.path)].kind
    /\ u[Tmpname(r.path)].data = o[Tmpname(r.path)].data
    /\ u[Tmpname(r.path)].id = o[Tmpname(r.path)].id
    /\ l.kind # "link" => u[Tmpname(r.path)].mtime = l.mtime

StepRenames(o, u, r, x) ==
    /\ r.pc = "rename" /\ Free(o, Tmpname(r.path)) /\ Free(o, r.path)
    /\ Frame(o, u, {Tmpname(r.path), r.path})
    /\ DOMAIN u = (DOMAIN o \cup {r.path}) \ {Tmpname(r.path)}
    /\ u[r.path] = o[Tmpname(r.path)]
    /\ Whole(x, "read", r.pos + 1, r.dir, r.path, r.inodes, r.dirtimes, r.errors, r.left)

StepFixes(o, u, r, x) ==
    /\ r.pc = "fix" /\ r.dirtimes # <<>> /\ DOMAIN u = DOMAIN o
    /\ \A q \in DOMAIN o :
          /\ u[q].kind = o[q].kind /\ u[q].data = o[q].data /\ u[q].id = o[q].id
          /\ u[q].mtime = IF q = r.dirtimes[1].dir THEN r.dirtimes[1].mtime ELSE o[q].mtime
    /\ Whole(x, "fix", r.pos, r.dir, r.path, r.inodes, Tail(r.dirtimes), r.errors, r.left)

StepDone(o, u, r, x) ==
    r.pc = "fix" /\ r.dirtimes = <<>> /\ u = o /\ Same(r, x, "done")

RunSteps(ls, P, o, u, r, x) ==
    \/ StepReads(P, o, u, r, x) \/ StepEnds(P, o, u, r, x)
    \/ StepFresh(o, u, x, "idle") \/ (r.pc = "idle" /\ StepFresh(o, u, x, "read"))
    \/ \E n : StepMakes(o, u, r, x, n, "rename") /\ LinkNode(ls[r.pos], o, r, n)
    \/ \E n : StepMakes(o, u, r, x, n, "fill") /\ FileNode(ls[r.pos], o, r, n)
    \/ \E n : StepMakes(o, u, r, x, n, "times") /\ OtherNode(ls[r.pos], n)
    \/ StepLeaves(ls[r.pos], o, u, r, x) \/ StepErrs(ls[r.pos], o, u, r, x)
    \/ StepFills(o, u, r, x) \/ StepCopied(ls[r.pos], o, u, r, x)
    \/ StepPutsOff(ls[r.pos], o, u, r, x) \/ StepTimes(ls[r.pos], o, u, r, x)
    \/ StepRenames(o, u, r, x) \/ StepFixes(o, u, r, x) \/ StepDone(o, u, r, x)

LEMMA FailStep ==
    ASSUME R!Fail
    PROVE  StepFresh(out, out, rs', "idle")
<1>1. PICK x : x = rs'
    OBVIOUS
<1>2. x = [pc |-> "idle", pos |-> 1, dir |-> Root, path |-> Root, inodes |-> EmptyMap,
           dirtimes |-> <<>>, errors |-> FALSE, left |-> {}]
    BY <1>1, SameOperators DEF R!Fail, R!RestoreIdle
<1>3. Whole(x, "idle", 1, Root, Root, EmptyMap, <<>>, FALSE, {})
    BY <1>2 DEF Whole, Fields, IsRs
<1> QED
    BY <1>1, <1>3 DEF StepFresh

LEMMA StartStep ==
    ASSUME R!StartRestore
    PROVE  rs.pc = "idle" /\ StepFresh(out, out', rs', "read")
<1>1. PICK r, x : r = R!RestoreIdle /\ x = rs'
    OBVIOUS
<1>2. r = [pc |-> "idle", pos |-> 1, dir |-> Root, path |-> Root, inodes |-> EmptyMap,
           dirtimes |-> <<>>, errors |-> FALSE, left |-> {}]
    BY <1>1, SameOperators DEF R!RestoreIdle
<1>3. Whole(r, "idle", 1, Root, Root, EmptyMap, <<>>, FALSE, {})
    BY <1>2 DEF Whole, Fields, IsRs
<1>4. x = [r EXCEPT !.pc = "read"] /\ out' = out /\ rs.pc = "idle"
    BY <1>1 DEF R!StartRestore
<1>5. Whole(x, "read", 1, Root, Root, EmptyMap, <<>>, FALSE, {})
    BY <1>3, <1>4, ChangedWhole
<1> QED
    BY <1>1, <1>4, <1>5 DEF StepFresh

\* The path and the directory that a restore takes from a line are those the
\* line is of.
LEMMA ReadPath ==
    ASSUME NEW P, RestOK(P), rs.pc = "read", rs.pos \in DOMAIN lines,
           NEW p, p = R!Resolve(lines[rs.pos].name),
           NEW dir, dir = IF lines[rs.pos].name.rel THEN rs.dir ELSE Parent(p)
    PROVE  /\ rs.pos \in DOMAIN P /\ p = P[rs.pos] /\ dir = Parent(p)
           /\ p \in Numbers /\ p # Root
<1>1. rs.pos \in DOMAIN P
    <2>1. Len(P) = Len(lines) /\ DOMAIN P = 1 .. Len(P) /\ DOMAIN lines = 1 .. Len(lines)
        BY SeqLength DEF RestOK, Describes, IsSeq
    <2> QED
        BY <2>1
<1>2. PICK ls, i, dd : ls = lines /\ i = rs.pos /\ dd = rs.dir
    OBVIOUS
<1>3. Describes(ls, P) /\ i \in DOMAIN P /\ DirBefore(P, i, dd)
    BY <1>1, <1>2 DEF RestOK, RestInv, Place, DirBefore
<1>4. /\ P[i] \in Numbers /\ P[i] # Root
      /\ ls[i].name.rel => dd \o ls[i].name.path = P[i] /\ dd = Parent(P[i])
      /\ ~ ls[i].name.rel => ls[i].name.path = P[i]
    BY <1>3, ResolveLine
<1>5. p = IF ls[i].name.rel THEN dd \o ls[i].name.path ELSE ls[i].name.path
    BY <1>2 DEF R!Resolve
<1>6. p = P[i]
    BY <1>4, <1>5
<1>7. dir = Parent(p)
    BY <1>2, <1>4, <1>6
<1> QED
    BY <1>1, <1>2, <1>4, <1>6, <1>7

LEMMA ReadStep ==
    ASSUME NEW P, RestOK(P), R!ReadLine(lines)
    PROVE  StepReads(P, out, out', rs, rs')
<1>1. rs.pc = "read" /\ rs.pos \in DOMAIN lines
    BY DEF R!ReadLine
<1>2. PICK p, dir : /\ p = R!Resolve(lines[rs.pos].name)
                    /\ dir = IF lines[rs.pos].name.rel THEN rs.dir ELSE Parent(p)
    OBVIOUS
<1>3. rs.pos \in DOMAIN P /\ p = P[rs.pos] /\ dir = Parent(p) /\ p \in Numbers /\ p # Root
    BY <1>1, <1>2, ReadPath
<1>4. PICK r, x : r = rs /\ x = rs'
    OBVIOUS
<1>5. Whole(x, "make", r.pos, dir, p, r.inodes, r.dirtimes, r.errors, r.left)
    <2>1. Whole(r, r.pc, r.pos, r.dir, r.path, r.inodes, r.dirtimes, r.errors, r.left)
        BY <1>4, WholeRun DEF RestOK, RestInv
    <2>2. PICK s : s = [r EXCEPT !.pc = "make"]
        OBVIOUS
    <2>3. Whole(s, "make", r.pos, r.dir, r.path, r.inodes, r.dirtimes, r.errors, r.left)
        BY <2>1, <2>2, ChangedWhole
    <2>4. PICK v : v = [s EXCEPT !.path = p]
        OBVIOUS
    <2>5. Whole(v, "make", r.pos, r.dir, p, r.inodes, r.dirtimes, r.errors, r.left)
        BY <2>3, <2>4, ChangedWhole
    <2>6. x = [v EXCEPT !.dir = dir]
        <3>1. dir = IF lines[rs.pos].name.rel THEN r.dir ELSE R!Parent(p)
            BY <1>2, <1>4, SameOperators
        <3>2. x = [r EXCEPT !.pc = "make", !.path = p, !.dir = dir]
            BY <1>2, <1>4, <3>1 DEF R!ReadLine
        <3> QED
            BY <2>2, <2>4, <3>2
    <2> QED
        BY <2>5, <2>6, ChangedWhole
<1>6. PICK t, o, u : t = Tmpname(p) /\ o = out /\ u = out'
    OBVIOUS
<1>7. t \in Numbers /\ OutTree(o)
    BY <1>3, <1>6, TmpnameOf DEF RestOK, RestInv
<1>8. u = IF R!CanRemove(t) THEN R!Touched(Drop(o, t), Parent(t)) ELSE o
    BY <1>2, <1>6, SameOperators DEF R!ReadLine, R!Cleared, R!Removed
<1>9. \/ u = o /\ t \in DOMAIN o /\ \E q \in DOMAIN o : Below(t, q)
      \/ Frame(o, u, {t}) /\ DOMAIN u = DOMAIN o \ {t} /\ Free(o, t)
    <2>1. CASE R!NotEmpty(t) /\ t \in DOMAIN o
        <3>1. u = o
            BY <1>8, <2>1 DEF R!CanRemove
        <3>2. \E q \in DOMAIN o : Below(t, q)
            BY <1>6, <2>1, SameOperators DEF R!NotEmpty
        <3> QED
            BY <2>1, <1>6, <3>1, <3>2
    <2>2. CASE t \notin DOMAIN o
        <3>1. u = o
            BY <1>6, <1>8, <2>2 DEF R!CanRemove
        <3>2. Free(o, t)
            <4>1. t # Root
                BY <1>3, <1>6, TmpnameOf
            <4> QED
                BY <1>7, <2>2, <4>1 DEF Free, OutTree
        <3> QED
            BY <2>2, <3>1, <3>2 DEF Frame
    <2>3. CASE t \in DOMAIN o /\ ~ R!NotEmpty(t)
        <3>1. u = R!Touched(Drop(o, t), Parent(t))
            BY <1>6, <1>8, <2>3 DEF R!CanRemove
        <3>2. Free(o, t)
            BY <1>6, <1>7, <2>3, NothingIn DEF Free
        <3>3. Parent(t) \in DOMAIN o => o[Parent(t)].kind = "dir"
            <4>1. Root \notin DOMAIN o
                BY <1>7 DEF OutTree
            <4> QED
                BY <1>7, <2>3, <4>1 DEF OutTree
        <3> QED
            BY <1>7, <3>1, <3>2, <3>3, RemoveFrame DEF Free
    <2> QED
        BY <1>6, <2>1, <2>2, <2>3
<1> QED
    BY <1>1, <1>3, <1>4, <1>5, <1>6, <1>9 DEF StepReads

LEMMA MakeStep ==
    ASSUME NEW P, RestOK(P), rs.pc = "make", R!CanMake(R!Tmp),
           NEW n, NodeOK(n), R!Make(R!Tmp, n), NEW pc, R!Goto(pc)
    PROVE  StepMakes(out, out', rs, rs', n, pc)
<1>1. PICK t : t = R!Tmp
    OBVIOUS
<1>2. /\ t = Tmpname(rs.path) /\ t \in Numbers /\ t # Root /\ Parent(t) # t
      /\ Parent(t) = Parent(rs.path) /\ OutTree(out) /\ IsRs(rs)
    BY <1>1, BusyState DEF Busy
<1>3. /\ t \notin DOMAIN out
      /\ Parent(t) = Root \/ (Parent(t) \in DOMAIN out /\ out[Parent(t)].kind = "dir")
    BY <1>1, SameOperators DEF R!CanMake, R!OutDir
<1>4. PICK u : u = out'
    OBVIOUS
<1>5. u = R!Touched(Put(out, t, n), Parent(t))
    BY <1>1, <1>4, SameOperators DEF R!Make
<1>6. Frame(out, u, {t}) /\ DOMAIN u = DOMAIN out \cup {t} /\ u[t] = n
    <2>1. PICK o : o = out
        OBVIOUS
    <2>2. OutTree(o) /\ Vacant(o, t)
        BY <1>2, <1>3, <2>1 DEF Vacant
    <2>3. u = R!Touched(Put(o, t, n), Parent(t))
        BY <1>5, <2>1
    <2>4. MadeAt(o, u, t, n)
        BY <2>2, <2>3, MakeFrame
    <2> QED
        BY <2>1, <2>4 DEF MadeAt
<1>7. Same(rs, rs', pc)
    BY <1>2, GotoSame
<1> QED
    BY <1>2, <1>3, <1>4, <1>6, <1>7 DEF StepMakes

LEMMA LinkStep ==
    ASSUME NEW P, RestOK(P), R!MakeLink(lines)
    PROVE  \/ StepFresh(out, out', rs', "idle")
           \/ \E n : StepMakes(out, out', rs, rs', n, "rename") /\ LinkNode(lines[rs.pos], out, rs, n)
<1>1. PICK l, old : l = lines[rs.pos] /\ old = rs.inodes[l.inode]
    OBVIOUS
<1>2. /\ rs.pc = "make" /\ l.inode \in DOMAIN rs.inodes
      /\ \/ /\ old \in DOMAIN out /\ R!CanMake(R!Tmp)
            /\ R!Make(R!Tmp, out[old]) /\ R!Goto("rename")
         \/ R!Fail /\ out' = out
    BY <1>1 DEF R!MakeLink, R!Known, R!This
<1>3. CASE R!Fail /\ out' = out
    BY <1>3, FailStep
<1>4. CASE /\ old \in DOMAIN out /\ R!CanMake(R!Tmp)
           /\ R!Make(R!Tmp, out[old]) /\ R!Goto("rename")
    <2>1. PICK n : n = out[old]
        OBVIOUS
    <2>2. NodeOK(n)
        BY <1>4, <2>1 DEF RestOK, RestInv, OutTree
    <2>3. R!Make(R!Tmp, n)
        BY <1>4, <2>1
    <2>4. StepMakes(out, out', rs, rs', n, "rename")
        BY <1>2, <1>4, <2>2, <2>3, MakeStep
    <2>5. LinkNode(l, out, rs, n)
        BY <1>1, <1>2, <1>4, <2>1 DEF LinkNode
    <2> QED
        BY <1>1, <2>4, <2>5
<1> QED
    BY <1>2, <1>3, <1>4

\* There is an id that no file has.
LEMMA FreshIdNew ==
    ASSUME IsFiniteSet(DOMAIN out)
    PROVE  \A q \in DOMAIN out : out[q].id # R!FreshId
<1> DEFINE c == Cardinality(DOMAIN out)
<1>1. c \in Nat
    BY FS_CardinalityType
<1>2. \E i \in 1 .. c + 1 : \A q \in DOMAIN out : out[q].id # i
    <2> SUFFICES ASSUME \A i \in 1 .. c + 1 : \E q \in DOMAIN out : out[q].id = i
                 PROVE  FALSE
        OBVIOUS
    <2> DEFINE S == {q \in DOMAIN out : out[q].id \in 1 .. c + 1}
               f == [q \in S |-> out[q].id]
    <2>1. IsFiniteSet(S) /\ Cardinality(S) <= c
        BY FS_Subset
    <2>2. f \in Surjection(S, 1 .. c + 1)
        BY DEF Surjection
    <2>3. Cardinality(1 .. c + 1) <= Cardinality(S)
        BY <2>1, <2>2, FS_Surjection
    <2>4. Cardinality(1 .. c + 1) = c + 1
        <3>1. c + 1 \in Int /\ 1 \in Int
            BY <1>1
        <3>2. Cardinality(1 .. c + 1) = IF 1 > c + 1 THEN 0 ELSE (c + 1) - 1 + 1
            BY <3>1, FS_Interval
        <3> QED
            BY <1>1, <3>2
    <2>5. Cardinality(S) \in Nat
        BY <2>1, FS_CardinalityType
    <2> HIDE DEF S, c
    <2> QED
        BY <1>1, <2>1, <2>3, <2>4, <2>5
<1>3. PICK i : i = R!FreshId
    OBVIOUS
<1>4. i = CHOOSE j \in 1 .. c + 1 : \A q \in DOMAIN out : out[q].id # j
    <2>1. R!Cardinality(DOMAIN out) = c
        BY DEF R!Cardinality, Cardinality
    <2> HIDE DEF c
    <2> QED
        BY <1>3, <2>1 DEF R!FreshId
<1> HIDE DEF c
<1>5. \A q \in DOMAIN out : out[q].id # i
    BY <1>2, <1>4
<1> QED
    BY <1>3, <1>5

LEMMA NewNodeStep ==
    ASSUME NEW P, RestOK(P), rs.pc = "make", NEW kind, NEW data, NEW pc,
           R!CanMake(R!Tmp), R!Make(R!Tmp, R!NewNode(kind, data)), R!Goto(pc)
    PROVE  \E n : /\ StepMakes(out, out', rs, rs', n, pc) /\ n.kind = kind /\ n.data = data
                  /\ IsFiniteSet(DOMAIN out) => \A q \in DOMAIN out : out[q].id # n.id
<1>1. PICK n, id : n = R!NewNode(kind, data) /\ id = R!FreshId
    OBVIOUS
<1>2. NodeOK(n) /\ n.kind = kind /\ n.data = data
    BY <1>1, NewNodeOK
<1>3. n.id = id
    <2>1. n = [kind |-> kind, data |-> data, mtime |-> Now, id |-> id]
        BY <1>1 DEF R!NewNode
    <2> QED
        BY <2>1
<1>4. IsFiniteSet(DOMAIN out) => \A q \in DOMAIN out : out[q].id # n.id
    BY <1>1, <1>3, FreshIdNew
<1>5. R!Make(R!Tmp, n)
    BY <1>1
<1>6. StepMakes(out, out', rs, rs', n, pc)
    BY <1>2, <1>5, MakeStep
<1> QED
    BY <1>2, <1>4, <1>6

LEMMA FileStep ==
    ASSUME NEW P, RestOK(P), R!MakeFile(lines)
    PROVE  \/ StepFresh(out, out', rs', "idle")
           \/ \E n : StepMakes(out, out', rs, rs', n, "fill") /\ FileNode(lines[rs.pos], out, rs, n)
<1>1. PICK l : l = lines[rs.pos]
    OBVIOUS
<1>2. /\ rs.pc = "make" /\ l.kind = "file" /\ l.inode \notin DOMAIN rs.inodes
      /\ \/ /\ R!CanMake(R!Tmp)
            /\ R!Make(R!Tmp, R!NewNode("file", <<>>)) /\ R!Goto("fill")
         \/ R!Fail /\ out' = out
    BY <1>1 DEF R!MakeFile, R!Makes, R!Known, R!This
<1>3. CASE R!Fail /\ out' = out
    BY <1>3, FailStep
<1>4. CASE /\ R!CanMake(R!Tmp)
           /\ R!Make(R!Tmp, R!NewNode("file", <<>>)) /\ R!Goto("fill")
    <2>1. PICK n : /\ StepMakes(out, out', rs, rs', n, "fill") /\ n.kind = "file" /\ n.data = <<>>
                   /\ IsFiniteSet(DOMAIN out) => \A q \in DOMAIN out : out[q].id # n.id
        BY <1>2, <1>4, NewNodeStep
    <2>2. FileNode(l, out, rs, n)
        BY <1>2, <2>1 DEF FileNode
    <2> QED
        BY <1>1, <2>1, <2>2
<1> QED
    BY <1>2, <1>3, <1>4

\* The line is left as it is.
Skips(errors, left) ==
    \/ rs' = [R!NextLine EXCEPT !.errors = errors] /\ left = rs.left
    \/ rs' = [R!NextLine EXCEPT !.left = left] /\ errors = rs.errors

LEMMA SkipStep ==
    ASSUME IsRs(rs), rs.pc = "make", out' = out, NEW errors, NEW left,
           Skips(errors, left)
    PROVE  Whole(rs', "read", rs.pos + 1, rs.dir, rs.path, rs.inodes, rs.dirtimes, errors, left)
<1>1. PICK r, x, y, p : r = rs /\ x = rs' /\ y = R!NextLine /\ p = r.pos + 1
    OBVIOUS
<1>2. Whole(r, r.pc, r.pos, r.dir, r.path, r.inodes, r.dirtimes, r.errors, r.left)
    BY <1>1, WholeRun
<1>3. PICK v : v = [r EXCEPT !.pc = "read"]
    OBVIOUS
<1>4. Whole(v, "read", r.pos, r.dir, r.path, r.inodes, r.dirtimes, r.errors, r.left)
    BY <1>2, <1>3, ChangedWhole
<1>5. y = [v EXCEPT !.pos = p]
    BY <1>1, <1>3 DEF R!NextLine
<1>6. Whole(y, "read", p, r.dir, r.path, r.inodes, r.dirtimes, r.errors, r.left)
    BY <1>4, <1>5, ChangedWhole
<1>7. CASE x = [y EXCEPT !.errors = errors] /\ left = r.left
    BY <1>1, <1>6, <1>7, ChangedWhole
<1>8. CASE x = [y EXCEPT !.left = left] /\ errors = r.errors
    BY <1>1, <1>6, <1>8, ChangedWhole
<1> QED
    BY <1>1, <1>7, <1>8 DEF Skips

LEMMA OthersStep ==
    ASSUME NEW P, RestOK(P), R!MakeOther(lines) \/ R!MakeSocket(lines) \/ R!LeaveDir(lines)
    PROVE  \/ StepFresh(out, out', rs', "idle")
           \/ \E n : StepMakes(out, out', rs, rs', n, "times") /\ OtherNode(lines[rs.pos], n)
           \/ StepLeaves(lines[rs.pos], out, out', rs, rs')
           \/ StepErrs(lines[rs.pos], out, out', rs, rs')
<1>1. PICK l : l = lines[rs.pos]
    OBVIOUS
<1>2. IsRs(rs)
    BY DEF RestOK, RestInv
<1>3. ASSUME NEW data, rs.pc = "make", R!CanMake(R!Tmp), R!Make(R!Tmp, R!NewNode(l.kind, data)),
             R!Goto("times"), l.kind \in {"dir", "link", "chr", "socket"},
             data = IF l.kind = "link" THEN l.data ELSE <<>>
      PROVE  \E n : StepMakes(out, out', rs, rs', n, "times") /\ OtherNode(l, n)
    <2>1. PICK n : /\ StepMakes(out, out', rs, rs', n, "times") /\ n.kind = l.kind /\ n.data = data
        BY <1>3, NewNodeStep
    <2>2. OtherNode(l, n)
        BY <1>3, <2>1 DEF OtherNode
    <2> QED
        BY <2>1, <2>2
<1>4. CASE R!MakeOther(lines)
    <2>1. PICK data : data = IF l.kind = "link" THEN l.data ELSE <<>>
        OBVIOUS
    <2>2. /\ rs.pc = "make" /\ l.kind \in {"dir", "link", "chr"}
          /\ \/ R!CanMake(R!Tmp) /\ R!Make(R!Tmp, R!NewNode(l.kind, data)) /\ R!Goto("times")
             \/ R!Fail /\ out' = out
        BY <1>1, <1>4, <2>1 DEF R!MakeOther, R!Makes, R!This
    <2>3. CASE R!Fail /\ out' = out
        BY <2>3, FailStep
    <2>4. CASE R!CanMake(R!Tmp) /\ R!Make(R!Tmp, R!NewNode(l.kind, data)) /\ R!Goto("times")
        BY <1>1, <1>3, <2>1, <2>2, <2>4
    <2> QED
        BY <2>2, <2>3, <2>4
<1>5. CASE R!MakeSocket(lines)
    <2>1. /\ rs.pc = "make" /\ l.kind = "socket"
          /\ \/ R!CanMake(R!Tmp) /\ R!Make(R!Tmp, R!NewNode("socket", <<>>)) /\ R!Goto("times")
             \/ rs' = [R!NextLine EXCEPT !.errors = TRUE] /\ out' = out
        BY <1>1, <1>5 DEF R!MakeSocket, R!Makes, R!This
    <2>2. CASE rs' = [R!NextLine EXCEPT !.errors = TRUE] /\ out' = out
        <3>1. Whole(rs', "read", rs.pos + 1, rs.dir, rs.path, rs.inodes, rs.dirtimes, TRUE, rs.left)
            <4>1. PICK e, d : e = TRUE /\ d = rs.left
                OBVIOUS
            <4>2. Skips(e, d)
                BY <2>2, <4>1 DEF Skips
            <4>3. Whole(rs', "read", rs.pos + 1, rs.dir, rs.path, rs.inodes, rs.dirtimes, e, d)
                BY <1>2, <2>1, <2>2, <4>2, SkipStep
            <4> QED
                BY <4>1, <4>3
        <3>2. StepErrs(l, out, out', rs, rs')
            BY <2>1, <2>2, <3>1 DEF StepErrs
        <3> QED
            BY <1>1, <3>2
    <2>3. CASE R!CanMake(R!Tmp) /\ R!Make(R!Tmp, R!NewNode("socket", <<>>)) /\ R!Goto("times")
        BY <1>1, <1>3, <2>1, <2>3
    <2> QED
        BY <2>1, <2>2, <2>3
<1>6. CASE R!LeaveDir(lines)
    <2>1. /\ rs.pc = "make" /\ l.kind = "dir" /\ rs.path \in DOMAIN out
          /\ out[rs.path].kind # "link" /\ out' = out
          /\ rs' = [R!NextLine EXCEPT !.left = @ \cup {rs.path}]
        BY <1>1, <1>6 DEF R!LeaveDir, R!Makes, R!This
    <2>2. PICK left : left = rs.left \cup {rs.path}
        OBVIOUS
    <2>3. rs' = [R!NextLine EXCEPT !.left = left]
        <3>1. R!NextLine.left = rs.left
            <4>1. PICK r, y, p : r = rs /\ y = R!NextLine /\ p = r.pos + 1
                OBVIOUS
            <4>2. Whole(r, r.pc, r.pos, r.dir, r.path, r.inodes, r.dirtimes, r.errors, r.left)
                BY <1>2, <4>1, WholeRun
            <4>3. PICK v : v = [r EXCEPT !.pc = "read"]
                OBVIOUS
            <4>4. Whole(v, "read", r.pos, r.dir, r.path, r.inodes, r.dirtimes, r.errors, r.left)
                BY <4>2, <4>3, ChangedWhole
            <4>5. y = [v EXCEPT !.pos = p]
                BY <4>1, <4>3 DEF R!NextLine
            <4>6. Whole(y, "read", p, r.dir, r.path, r.inodes, r.dirtimes, r.errors, r.left)
                BY <4>4, <4>5, ChangedWhole
            <4> QED
                BY <4>1, <4>6 DEF Whole
        <3> QED
            BY <2>1, <2>2, <3>1
    <2>4. Whole(rs', "read", rs.pos + 1, rs.dir, rs.path, rs.inodes, rs.dirtimes, rs.errors, left)
        <3>1. PICK e : e = rs.errors
            OBVIOUS
        <3>2. Skips(e, left)
            BY <2>3, <3>1 DEF Skips
        <3>3. Whole(rs', "read", rs.pos + 1, rs.dir, rs.path, rs.inodes, rs.dirtimes, e, left)
            BY <1>2, <2>1, <3>2, SkipStep
        <3> QED
            BY <3>1, <3>3
    <2>5. StepLeaves(l, out, out', rs, rs')
        BY <2>1, <2>2, <2>4 DEF StepLeaves
    <2> QED
        BY <1>1, <2>5
<1> QED
    BY <1>4, <1>5, <1>6

LEMMA EndStep ==
    ASSUME NEW P, RestOK(P), R!ReadEnd(lines, end) \/ R!RestoreDone
    PROVE  \/ StepFresh(out, out', rs', "idle")
           \/ end /\ StepEnds(P, out, out', rs, rs')
           \/ StepDone(out, out', rs, rs')
<1>1. IsRs(rs) /\ (rs.pos \in DOMAIN P => rs.pos \in DOMAIN lines)
    <2>1. Len(P) = Len(lines) /\ DOMAIN P = 1 .. Len(P) /\ DOMAIN lines = 1 .. Len(lines)
        BY SeqLength DEF RestOK, Describes, IsSeq
    <2> QED
        BY <2>1 DEF RestOK, RestInv
<1>2. CASE R!ReadEnd(lines, end)
    <2>1. /\ rs.pc = "read" /\ rs.pos \notin DOMAIN lines /\ out' = out
          /\ (end /\ R!Goto("fix")) \/ R!Fail
        BY <1>2 DEF R!ReadEnd, R!Goto
    <2>2. CASE R!Fail
        BY <2>1, <2>2, FailStep
    <2>3. CASE end /\ R!Goto("fix")
        <3>1. Same(rs, rs', "fix")
            BY <1>1, <2>3, GotoSame
        <3> QED
            BY <1>1, <2>1, <2>3, <3>1 DEF StepEnds
    <2> QED
        BY <2>1, <2>2, <2>3
<1>3. CASE R!RestoreDone
    <2>1. rs.pc = "fix" /\ rs.dirtimes = <<>> /\ out' = out /\ R!Goto("done")
        BY <1>3 DEF R!RestoreDone
    <2>2. Same(rs, rs', "done")
        BY <1>1, <2>1, GotoSame
    <2> QED
        BY <2>1, <2>2 DEF StepDone
<1> QED
    BY <1>2, <1>3

LEMMA FillStep ==
    ASSUME NEW P, RestOK(P), R!Fill(lines, objs)
    PROVE  StepFresh(out, out', rs', "idle") \/ StepFills(out, out', rs, rs')
<1>1. PICK t, c : t = R!Tmp /\ c = R!Contents(lines[rs.pos])
    OBVIOUS
<1>2. rs.pc = "fill"
    BY DEF R!Fill
<1>3. t = Tmpname(rs.path) /\ t \in Numbers /\ OutTree(out) /\ IsRs(rs)
    BY <1>1, <1>2, BusyState DEF Busy
<1>4. t \in DOMAIN out
    BY <1>2, <1>3 DEF RestOK, RestInv, Temp
<1>5. \/ R!Fail /\ out' = out
      \/ /\ rs' = rs
         /\ out' = [out EXCEPT ![t].data = Append(out[t].data, c[Len(out[t].data) + 1])]
    BY <1>1, <1>4 DEF R!Fill, R!This
<1>6. CASE R!Fail /\ out' = out
    BY <1>6, FailStep
<1>7. CASE /\ rs' = rs
           /\ out' = [out EXCEPT ![t].data = Append(out[t].data, c[Len(out[t].data) + 1])]
    <2>1. PICK d : d = Append(out[t].data, c[Len(out[t].data) + 1])
        OBVIOUS
    <2>2. PICK m : m = out[t]
        OBVIOUS
    <2>3. PICK n : n = [m EXCEPT !.data = d]
        OBVIOUS
    <2>4. n.kind = m.kind /\ n.id = m.id
        BY <1>3, <1>4, <2>2, <2>3, FillNode, TouchId DEF OutTree
    <2>5. PICK o, u : o = out /\ u = [o EXCEPT ![t] = n]
        OBVIOUS
    <2>6. u = out'
        BY <1>7, <2>1, <2>2, <2>3, <2>5
    <2>7. Frame(o, u, {t}) /\ DOMAIN u = DOMAIN o /\ u[t] = n
        BY <1>3, <1>4, <2>5, EditFrame
    <2>8. /\ Frame(out, out', {t}) /\ DOMAIN out' = DOMAIN out
          /\ out'[t].kind = out[t].kind /\ out'[t].id = out[t].id
        BY <2>2, <2>4, <2>5, <2>6, <2>7
    <2> QED
        BY <1>2, <1>3, <1>7, <2>8 DEF StepFills
<1> QED
    BY <1>5, <1>6, <1>7

LEMMA FilledStep ==
    ASSUME NEW P, RestOK(P), R!Filled(lines, objs)
    PROVE  StepCopied(lines[rs.pos], out, out', rs, rs')
<1>1. PICK t, c, l : t = R!Tmp /\ l = lines[rs.pos] /\ c = R!Contents(l)
    OBVIOUS
<1>2. rs.pc = "fill" /\ Len(out[t].data) >= Len(c) /\ out' = out
    BY <1>1 DEF R!Filled, R!AtEnd, R!This
<1>3. t = Tmpname(rs.path) /\ IsRs(rs)
    BY <1>1, <1>2, BusyState DEF Busy
<1>4. Begins(out[t].data, c)
    BY <1>1, <1>2, <1>3 DEF RestOK, RestInv, Temp
<1>5. out[t].data = c
    BY <1>2, <1>4, AllBlocks
<1>6. PICK r, x, i : /\ r = rs /\ x = rs'
                     /\ i = IF l.inode = None THEN rs.inodes ELSE Put(rs.inodes, l.inode, rs.path)
    OBVIOUS
<1>7. PICK u : u = [r EXCEPT !.pc = "times"]
    OBVIOUS
<1>8. x = [u EXCEPT !.inodes = i]
    BY <1>1, <1>6, <1>7, SameOperators DEF R!Filled, R!This
<1>9. Whole(r, r.pc, r.pos, r.dir, r.path, r.inodes, r.dirtimes, r.errors, r.left)
    BY <1>3, <1>6, WholeRun
<1>10. Whole(u, "times", r.pos, r.dir, r.path, r.inodes, r.dirtimes, r.errors, r.left)
    BY <1>7, <1>9, ChangedWhole
<1>11. Whole(x, "times", r.pos, r.dir, r.path, i, r.dirtimes, r.errors, r.left)
    BY <1>8, <1>10, ChangedWhole
<1> QED
    BY <1>1, <1>2, <1>3, <1>5, <1>6, <1>11 DEF StepCopied

LEMMA TimesStep ==
    ASSUME NEW P, RestOK(P), R!SetTimes(lines)
    PROVE  \/ StepPutsOff(lines[rs.pos], out, out', rs, rs')
           \/ StepTimes(lines[rs.pos], out, out', rs, rs')
<1>1. PICK t, l : t = R!Tmp /\ l = lines[rs.pos]
    OBVIOUS
<1>2. rs.pc = "times"
    BY DEF R!SetTimes
<1>3. t = Tmpname(rs.path) /\ OutTree(out) /\ IsRs(rs)
    BY <1>1, <1>2, BusyState DEF Busy
<1>4. t \in DOMAIN out
    BY <1>2, <1>3 DEF RestOK, RestInv, Temp
<1>5. PICK r, x : r = rs /\ x = rs'
    OBVIOUS
<1>6. Whole(r, r.pc, r.pos, r.dir, r.path, r.inodes, r.dirtimes, r.errors, r.left)
    BY <1>3, <1>5, WholeRun
<1>7. CASE l.kind = "dir"
    <2>1. PICK e : e = [dir |-> rs.path, mtime |-> l.mtime]
        OBVIOUS
    <2>2. PICK u : u = [r EXCEPT !.pc = "rename"]
        OBVIOUS
    <2>3. PICK ds : ds = Append(r.dirtimes, e)
        OBVIOUS
    <2>4. x = [u EXCEPT !.dirtimes = ds] /\ out' = out
        BY <1>1, <1>5, <1>7, <2>1, <2>2, <2>3 DEF R!SetTimes, R!This
    <2>5. Whole(u, "rename", r.pos, r.dir, r.path, r.inodes, r.dirtimes, r.errors, r.left)
        BY <1>6, <2>2, ChangedWhole
    <2>6. Whole(x, "rename", r.pos, r.dir, r.path, r.inodes, ds, r.errors, r.left)
        BY <2>4, <2>5, ChangedWhole
    <2>7. StepPutsOff(l, out, out', rs, rs')
        BY <1>2, <1>5, <1>7, <2>1, <2>3, <2>4, <2>6 DEF StepPutsOff
    <2> QED
        BY <1>1, <2>7
<1>8. CASE l.kind # "dir"
    <2>1. /\ R!Goto("rename")
          /\ out' = IF l.kind = "link" THEN out ELSE [out EXCEPT ![t].mtime = l.mtime]
        BY <1>1, <1>8 DEF R!SetTimes, R!This
    <2>2. Same(rs, rs', "rename")
        BY <1>3, <2>1, GotoSame
    <2>3. PICK u : u = out'
        OBVIOUS
    <2>4. /\ Frame(out, u, {t}) /\ DOMAIN u = DOMAIN out /\ u[t].kind = out[t].kind
          /\ u[t].data = out[t].data /\ u[t].id = out[t].id
          /\ l.kind # "link" => u[t].mtime = l.mtime
        <3>1. CASE l.kind = "link"
            <4>1. u = out
                BY <2>1, <2>3, <3>1
            <4> QED
                BY <3>1, <4>1 DEF Frame
        <3>2. CASE l.kind # "link"
            <4>1. PICK o, m : o = out /\ m = out[t]
                OBVIOUS
            <4>2. PICK n : n = [m EXCEPT !.mtime = l.mtime]
                OBVIOUS
            <4>3. n.kind = m.kind /\ n.data = m.data /\ n.id = m.id /\ n.mtime = l.mtime
                BY <1>3, <1>4, <4>1, <4>2, TouchNode, TouchId DEF OutTree
            <4>4. u = [o EXCEPT ![t] = n]
                BY <2>1, <2>3, <3>2, <4>1, <4>2
            <4>5. Frame(o, u, {t}) /\ DOMAIN u = DOMAIN o /\ u[t] = n
                BY <1>3, <1>4, <4>1, <4>4, EditFrame
            <4> QED
                BY <4>1, <4>3, <4>5
        <3> QED
            BY <3>1, <3>2
    <2>5. StepTimes(l, out, out', rs, rs')
        BY <1>2, <1>3, <1>8, <2>2, <2>3, <2>4 DEF StepTimes
    <2> QED
        BY <1>1, <2>5
<1> QED
    BY <1>7, <1>8

\* The next line is read.
LEMMA NextWhole ==
    ASSUME IsRs(rs)
    PROVE  Whole(R!NextLine, "read", rs.pos + 1, rs.dir, rs.path, rs.inodes, rs.dirtimes,
                 rs.errors, rs.left)
<1>1. PICK r, y, p : r = rs /\ y = R!NextLine /\ p = r.pos + 1
    OBVIOUS
<1>2. Whole(r, r.pc, r.pos, r.dir, r.path, r.inodes, r.dirtimes, r.errors, r.left)
    BY <1>1, WholeRun
<1>3. PICK v : v = [r EXCEPT !.pc = "read"]
    OBVIOUS
<1>4. Whole(v, "read", r.pos, r.dir, r.path, r.inodes, r.dirtimes, r.errors, r.left)
    BY <1>2, <1>3, ChangedWhole
<1>5. y = [v EXCEPT !.pos = p]
    BY <1>1, <1>3 DEF R!NextLine
<1>6. Whole(y, "read", p, r.dir, r.path, r.inodes, r.dirtimes, r.errors, r.left)
    BY <1>4, <1>5, ChangedWhole
<1> QED
    BY <1>1, <1>6

LEMMA RenameStep ==
    ASSUME NEW P, RestOK(P), R!RenameInto
    PROVE  StepFresh(out, out', rs', "idle") \/ StepRenames(out, out', rs, rs')
<1>1. PICK t, p : t = R!Tmp /\ p = rs.path
    OBVIOUS
<1>2. rs.pc = "rename"
    BY DEF R!RenameInto
<1>3. /\ t = Tmpname(rs.path) /\ t \in Numbers /\ p \in Numbers /\ p # Root /\ p # t
      /\ Parent(p) = Parent(t) /\ Parent(p) # p /\ Parent(p) # t
      /\ OutTree(out) /\ IsRs(rs)
    BY <1>1, <1>2, BusyState DEF Busy
<1>4. t \in DOMAIN out /\ Free(out, t)
    BY <1>2, <1>3 DEF RestOK, RestInv, Temp, Free
<1>5. \/ R!Fail /\ out' = out
      \/ /\ R!CanRename(t, p) /\ rs' = R!NextLine
         /\ out' = R!Touched(Drop(Put(out, p, out[t]), t), Parent(p))
    BY <1>1, SameOperators DEF R!RenameInto, R!RenamedIntoPlace
<1>6. CASE R!Fail /\ out' = out
    BY <1>6, FailStep
<1>7. CASE /\ R!CanRename(t, p) /\ rs' = R!NextLine
           /\ out' = R!Touched(Drop(Put(out, p, out[t]), t), Parent(p))
    <2>1. Free(out, p)
        <3>1. CASE p \in DOMAIN out
            <4>1. ~ R!NotEmpty(p)
                BY <1>7, <3>1 DEF R!CanRename
            <4> QED
                BY <1>3, <4>1, NothingIn DEF Free
        <3>2. CASE p \notin DOMAIN out
            BY <1>3, <3>2 DEF OutTree, Free
        <3> QED
            BY <3>1, <3>2
    <2>2. PICK o, u : o = out /\ u = out'
        OBVIOUS
    <2>3. u = R!Touched(Drop(Put(o, p, o[t]), t), Parent(p))
        BY <1>7, <2>2
    <2>4. /\ Frame(o, u, {t, p})
          /\ DOMAIN u = (DOMAIN o \cup {p}) \ {t} /\ u[p] = o[t]
        BY <1>3, <1>4, <2>1, <2>2, <2>3, RenameFrame DEF Free
    <2>5. Whole(rs', "read", rs.pos + 1, rs.dir, rs.path, rs.inodes, rs.dirtimes,
                rs.errors, rs.left)
        BY <1>3, <1>7, NextWhole
    <2> QED
        BY <1>1, <1>2, <1>3, <1>4, <2>1, <2>2, <2>4, <2>5 DEF StepRenames
<1> QED
    BY <1>5, <1>6, <1>7

LEMMA FixStep ==
    ASSUME NEW P, RestOK(P), R!FixTimes
    PROVE  StepFixes(out, out', rs, rs')
<1>1. PICK o, u, r, x : o = out /\ u = out' /\ r = rs /\ x = rs'
    OBVIOUS
<1>2. PICK ds, mtime, d : /\ ds = Tail(r.dirtimes) /\ mtime = Head(r.dirtimes).mtime
                          /\ d = Head(r.dirtimes).dir
    OBVIOUS
<1>3. /\ r.pc = "fix" /\ r.dirtimes # <<>> /\ x = [r EXCEPT !.dirtimes = ds]
      /\ u = [o EXCEPT ![d].mtime = mtime]
    BY <1>1, <1>2 DEF R!FixTimes
<1>4. RestInv(lines, P, o, out0, r) /\ OutTree(o) /\ IsRs(r)
    BY <1>1 DEF RestOK, RestInv
<1>5. Whole(x, "fix", r.pos, r.dir, r.path, r.inodes, ds, r.errors, r.left)
    <2>1. Whole(r, "fix", r.pos, r.dir, r.path, r.inodes, r.dirtimes, r.errors, r.left)
        BY <1>3, <1>4, WholeRun
    <2> QED
        BY <1>3, <2>1, ChangedWhole
<1>6. PICK S : r.dirtimes \in Seq(S)
    BY <1>4 DEF RestInv, IsSeq
<1>7. Head(r.dirtimes) = r.dirtimes[1]
    BY <1>3, <1>6, TailSeq
<1>8. d = r.dirtimes[1].dir /\ mtime = r.dirtimes[1].mtime
    BY <1>2, <1>7
<1>9. PICK n : n = [o[d] EXCEPT !.mtime = mtime]
    OBVIOUS
<1>10. u = [o EXCEPT ![d] = n]
    BY <1>3, <1>9
<1>11. /\ DOMAIN u = DOMAIN o
       /\ \A q \in DOMAIN o :
             /\ u[q].kind = o[q].kind /\ u[q].data = o[q].data /\ u[q].id = o[q].id
             /\ u[q].mtime = IF q = d THEN mtime ELSE o[q].mtime
    <2>1. CASE d \notin DOMAIN o
        <3>1. DOMAIN u = DOMAIN o /\ \A q \in DOMAIN o : u[q] = o[q]
            BY <1>4, <1>10, <2>1 DEF OutTree
        <3> QED
            BY <2>1, <3>1
    <2>2. CASE d \in DOMAIN o
        <3>1. /\ n.kind = o[d].kind /\ n.data = o[d].data /\ n.id = o[d].id
              /\ n.mtime = mtime
            BY <1>4, <1>9, <2>2, TouchNode, TouchId DEF OutTree
        <3>2. DOMAIN u = DOMAIN o /\ u[d] = n /\ \A q \in DOMAIN o : q # d => u[q] = o[q]
            BY <1>4, <1>10, <2>2 DEF OutTree
        <3> QED
            BY <3>1, <3>2
    <2> QED
        BY <2>1, <2>2
<1> QED
    BY <1>1, <1>2, <1>3, <1>5, <1>8, <1>11 DEF StepFixes

\* Every step of a restore is one of these.
LEMMA RestoreSteps ==
    ASSUME NEW P, RestOK(P), R!RestoreStep(lines, end, objs)
    PROVE  /\ RunSteps(lines, P, out, out', rs, rs')
           /\ StepEnds(P, out, out', rs, rs') => end
<1>1. PICK ls, o, u, r, x : ls = lines /\ o = out /\ u = out' /\ r = rs /\ x = rs'
    OBVIOUS
<1>2. RunSteps(ls, P, o, u, r, x)
    BY <1>1, ReadStep, EndStep, LinkStep, FileStep, OthersStep, FillStep, FilledStep, TimesStep,
       RenameStep, FixStep DEF R!RestoreStep, RunSteps
<1>3. StepEnds(P, o, u, r, x) => end
    <2> SUFFICES ASSUME StepEnds(P, o, u, r, x) PROVE end
        OBVIOUS
    <2>1. r.pc = "read" /\ x.pc = "fix"
        BY DEF StepEnds, Same, Whole, Fields
    <2>2. R!ReadLine(lines) \/ R!ReadEnd(lines, end)
        BY <1>1, <2>1 DEF R!RestoreStep, R!MakeLink, R!MakeFile, R!LeaveDir, R!MakeOther,
           R!MakeSocket, R!Makes, R!Fill, R!Filled, R!SetTimes, R!RenameInto, R!FixTimes,
           R!RestoreDone
    <2>3. R!ReadEnd(lines, end)
        <3>1. ASSUME R!ReadLine(lines) PROVE FALSE
            <4>1. StepReads(P, o, u, r, x)
                BY <1>1, <3>1, ReadStep
            <4>2. x.pc = "make"
                BY <4>1 DEF StepReads, Whole, Fields
            <4> QED
                BY <2>1, <4>2
        <3> QED
            BY <2>2, <3>1
    <2>4. CASE ~ end
        <3>1. R!Fail
            BY <2>3, <2>4 DEF R!ReadEnd
        <3>2. x.pc = "idle"
            BY <1>1, <3>1, FailStep DEF StepFresh, Whole, Fields
        <3> QED
            BY <2>1, <3>2
    <2> QED
        BY <2>4
<1> QED
    BY <1>1, <1>2, <1>3

----------------------------------------------------------------------------
(***************************************************************************)
(* The directory of a file has its line before that of the file, and only  *)
(* regular files have inode numbers.                                       *)
(***************************************************************************)
DirListed(ls, P, p) == p = Root \/ \E j \in DOMAIN P : P[j] = p /\ ls[j].kind = "dir"

ParentsListed(ls, P) ==
    \A i \in DOMAIN P :
       /\ \/ Parent(P[i]) = Root
          \/ \E j \in DOMAIN P : j < i /\ P[j] = Parent(P[i]) /\ ls[j].kind = "dir"
       /\ ls[i].inode # None => ls[i].kind = "file"

QueueListed(ls, P, w) ==
    /\ \A k \in DOMAIN w.dirs : DirListed(ls, P, w.dirs[k])
    /\ \A k \in DOMAIN w.subdirs : DirListed(ls, P, w.subdirs[k])

ParentsInv ==
    \E P : /\ Describes(lines, P) /\ ParentsListed(lines, P)
           /\ Active(walk) => QueueListed(lines, P, walk)

LEMMA ParentsParts ==
    ASSUME WalkInv, ParentsInv, Active(walk)
    PROVE  \E P : /\ Describes(lines, P) /\ Together(P) /\ Ahead(P, walk)
                  /\ ParentsListed(lines, P) /\ QueueListed(lines, P, walk)
<1>1. PICK P : Describes(lines, P) /\ Together(P) /\ Ahead(P, walk)
    BY DEF WalkInv
<1>2. PICK Q : Describes(lines, Q) /\ ParentsListed(lines, Q) /\ QueueListed(lines, Q, walk)
    BY DEF ParentsInv
<1>3. P = Q
    BY <1>1, <1>2, SamePaths
<1> QED
    BY <1>1, <1>2, <1>3

LEMMA ListParents ==
    ASSUME WalkInv, ParentsInv, Contents \/ (\E n \in Name : Lstat(n)) \/ Sort
    PROVE  ParentsInv'
<1>1. walk.pc \in {"list", "lstat"} /\ lines' = lines
    BY DEF Contents, Lstat, Sort
<1>2. PICK P : Ahead(P, walk) /\ Describes(lines, P) /\ ParentsListed(lines, P)
               /\ QueueListed(lines, P, walk)
    BY <1>1, ParentsParts DEF Active
<1>3. PICK w, x : w = walk /\ x = walk'
    OBVIOUS
<1>4. IsRun(w)
    BY <1>2, <1>3 DEF Ahead, RunShape
<1>5. x.dirs = w.dirs /\ x.subdirs = w.subdirs
    <2>1. CASE Contents
        <3>1. PICK names : x = [w EXCEPT !.pc = "lstat", !.names = names]
            BY <1>3, <2>1 DEF Contents
        <3>2. x = [pc |-> "lstat", dirs |-> w.dirs, names |-> names, s |-> w.s, ci |-> w.ci,
                   first |-> w.first, subdirs |-> w.subdirs]
            BY <1>4, <3>1, ListedRun
        <3> QED
            BY <3>2
    <2>2. ASSUME NEW n \in Name, Lstat(n) PROVE x.dirs = w.dirs /\ x.subdirs = w.subdirs
        <3>1. PICK names, s : x = [w EXCEPT !.names = names, !.s = s]
            BY <1>3, <2>2 DEF Lstat
        <3>2. x = [pc |-> w.pc, dirs |-> w.dirs, names |-> names, s |-> s, ci |-> w.ci,
                   first |-> w.first, subdirs |-> w.subdirs]
            BY <1>4, <3>1, StattedRun
        <3> QED
            BY <3>2
    <2>3. CASE Sort
        <3>1. PICK ci : x = [w EXCEPT !.pc = "line", !.ci = ci]
            BY <1>3, <2>3 DEF Sort
        <3>2. x = [pc |-> "line", dirs |-> w.dirs, names |-> w.names, s |-> w.s, ci |-> ci,
                   first |-> w.first, subdirs |-> w.subdirs]
            BY <1>4, <3>1, SortedRun
        <3> QED
            BY <3>2
    <2> QED
        BY <2>1, <2>2, <2>3
<1>6. QueueListed(lines, P, x)
    BY <1>2, <1>3, <1>5 DEF QueueListed
<1> QED
    BY <1>1, <1>2, <1>3, <1>6 DEF ParentsInv

LEMMA DieParents ==
    ASSUME WalkInv, ParentsInv, Walking, Die
    PROVE  ParentsInv'
<1>1. PICK P : /\ Describes(lines, P) /\ Together(P) /\ Ahead(P, walk)
               /\ ParentsListed(lines, P)
    BY ParentsParts DEF Walking, Active
<1>2. PICK k \in 0 .. Len(lines) : lines' = SubSeq(lines, 1, k)
    BY DEF Die
<1>3. PICK Q : Q = SubSeq(P, 1, k) /\ Describes(lines', Q)
    BY <1>1, <1>2, CutLines
<1>4. IsSeq(lines) /\ IsSeq(P) /\ Len(P) = Len(lines) /\ k \in Nat
    BY <1>1, SeqLength DEF Describes, IsSeq
<1>5. /\ DOMAIN Q = 1 .. k
      /\ \A i \in 1 .. k : i \in DOMAIN P /\ Q[i] = P[i]
      /\ \A i \in 1 .. k : lines'[i] = lines[i]
    BY <1>2, <1>3, <1>4, PrefixSeq
<1>6. ParentsListed(lines', Q)
    <2> SUFFICES ASSUME NEW i \in 1 .. k
                 PROVE  /\ \/ Parent(Q[i]) = Root
                           \/ \E j \in 1 .. k : j < i /\ Q[j] = Parent(Q[i]) /\ lines'[j].kind = "dir"
                        /\ lines'[i].inode # None => lines'[i].kind = "file"
        BY <1>5 DEF ParentsListed
    <2>1. i \in DOMAIN P /\ Q[i] = P[i] /\ lines'[i] = lines[i]
        BY <1>5
    <2>2. CASE Parent(P[i]) = Root
        BY <1>1, <2>1, <2>2 DEF ParentsListed
    <2>3. ASSUME NEW j \in DOMAIN P, j < i, P[j] = Parent(P[i]), lines[j].kind = "dir"
          PROVE  \E m \in 1 .. k : m < i /\ Q[m] = Parent(Q[i]) /\ lines'[m].kind = "dir"
        <3>1. j \in 1 .. k
            <4>1. DOMAIN P = 1 .. Len(P) /\ Len(P) \in Nat
                BY <1>4, SeqLength
            <4> QED
                BY <1>4, <2>3, <4>1
        <3>2. Q[j] = P[j] /\ lines'[j] = lines[j]
            BY <1>5, <3>1
        <3> QED
            BY <2>1, <2>3, <3>1, <3>2
    <2> QED
        BY <1>1, <2>1, <2>2, <2>3 DEF ParentsListed
<1>7. ~ Active(walk')
    <2>1. IsRun(walk)
        BY <1>1 DEF Ahead, RunShape
    <2>2. PICK p, dirs, n, t, c, f, b :
             walk = [pc |-> p, dirs |-> dirs, names |-> n, s |-> t, ci |-> c,
                     first |-> f, subdirs |-> b]
        BY <2>1 DEF IsRun
    <2>3. walk' = [walk EXCEPT !.pc = "dead"]
        BY DEF Die
    <2>4. walk'.pc = "dead"
        BY <2>2, <2>3
    <2> QED
        BY <2>4 DEF Active
<1> QED
    BY <1>3, <1>6, <1>7 DEF ParentsInv

\* A line is written, in a directory that has one.
LEMMA WriteParents ==
    ASSUME WalkInv, ParentsInv, Writing, NEW data, NEW sha1, NEW subdirs \in {<<>>, <<This>>},
           Write(data, sha1, subdirs), subdirs # <<>> => Sb.kind = "dir"
    PROVE  ParentsInv'
<1>1. walk.pc = "line" /\ walk.ci # <<>> /\ Active(walk)
    BY DEF Writing, Active
<1>2. PICK P : /\ Describes(lines, P) /\ Together(P) /\ Ahead(P, walk)
               /\ ParentsListed(lines, P) /\ QueueListed(lines, P, walk)
    BY <1>1, ParentsParts
<1>3. Dir = walk.dirs[1] /\ Head(walk.ci) = walk.ci[1] /\ walk.ci[1] \in Nat
      /\ walk.dirs[1] \in Numbers /\ 1 \in DOMAIN walk.dirs
    <2>1. /\ walk.dirs \in Seq(Numbers) /\ walk.dirs # <<>> /\ walk.ci \in Seq(Nat)
        BY <1>2 DEF Ahead, RunShape
    <2> QED
        BY <1>1, <2>1, TailSeq DEF Dir
<1>4. PICK w, v, c, l : w = walk /\ v = walk' /\ c = This /\ l = NewLine(data, sha1)
    OBVIOUS
<1>5. c = Append(w.dirs[1], w.ci[1]) /\ Parent(c) = w.dirs[1]
    BY <1>3, <1>4, ChildOf DEF This, Full
<1>6. l.name = IF w.first \/ w.dirs[1] = Root
               THEN [rel |-> FALSE, path |-> Append(w.dirs[1], w.ci[1])]
               ELSE [rel |-> TRUE, path |-> <<Base(Append(w.dirs[1], w.ci[1]))>>]
    BY <1>3, <1>4, <1>5 DEF NewLine, Relname
<1>7. /\ lines' = Append(lines, l)
      /\ v = [w EXCEPT !.ci = Tail(@), !.first = FALSE, !.subdirs = @ \o subdirs]
    BY <1>4 DEF Write
<1>8. subdirs \in {<<>>, <<c>>}
    BY <1>4
<1>9. Ahead(P, w) /\ w.pc = "line" /\ w.ci # <<>>
    BY <1>1, <1>2, <1>4
<1>10. PICK Q : Q = Append(P, c) /\ Describes(Append(lines, l), Q)
    BY <1>2, <1>5, <1>6, <1>8, <1>9, AppendLine
<1>11. v.dirs = w.dirs /\ v.subdirs = w.subdirs \o subdirs
    <2>1. PICK T, D : T = Tail(w.ci) /\ D = w.subdirs \o subdirs
        OBVIOUS
    <2>2. IsRun(w) /\ v = [w EXCEPT !.ci = T, !.first = FALSE, !.subdirs = D]
        BY <1>7, <1>9, <2>1 DEF Ahead, RunShape
    <2>3. v = [pc |-> w.pc, dirs |-> w.dirs, names |-> w.names, s |-> w.s, ci |-> T,
               first |-> FALSE, subdirs |-> D]
        BY <2>2, NextRun
    <2> QED
        BY <2>1, <2>3
<1>12. l.kind = "file" \/ l.inode = None
    <2>1. l = [name |-> Relname, kind |-> Sb.kind, data |-> data, sha1 |-> sha1,
               inode |-> Inode, mtime |-> Sb.mtime]
        BY <1>4 DEF NewLine
    <2>2. l.kind = Sb.kind /\ l.inode = Inode
        BY <2>1
    <2> QED
        BY <2>2 DEF Inode
<1>13. subdirs # <<>> => l.kind = "dir"
    <2>1. l = [name |-> Relname, kind |-> Sb.kind, data |-> data, sha1 |-> sha1,
               inode |-> Inode, mtime |-> Sb.mtime]
        BY <1>4 DEF NewLine
    <2> QED
        BY <2>1
<1>14. /\ IsSeq(P) /\ IsSeq(lines) /\ Len(P) = Len(lines) /\ Len(P) \in Nat
       /\ DOMAIN P = 1 .. Len(P) /\ DOMAIN lines = 1 .. Len(P)
    BY <1>2, SeqLength DEF Describes, IsSeq
<1>15. PICK N \in Nat : N = Len(P) /\ N = Len(lines) /\ DOMAIN P = 1 .. N /\ DOMAIN lines = 1 .. N
    BY <1>14
<1>16. /\ DOMAIN Q = 1 .. N + 1 /\ Q[N + 1] = c
       /\ \A i \in DOMAIN P : Q[i] = P[i]
    BY <1>10, <1>14, <1>15, AppendSeq
<1>17. PICK ls : ls = lines'
    OBVIOUS
<1>18. /\ ls[N + 1] = l
       /\ \A i \in DOMAIN P : ls[i] = lines[i]
    BY <1>7, <1>14, <1>15, <1>17, AppendSeq
<1>19. /\ \A p : DirListed(lines, P, p) => DirListed(ls, Q, p)
       /\ subdirs = <<c>> => DirListed(ls, Q, c)
    <2>1. \A j \in DOMAIN P : j \in DOMAIN Q /\ Q[j] = P[j] /\ ls[j] = lines[j]
        BY <1>15, <1>16, <1>18
    <2>2. \A p : DirListed(lines, P, p) => DirListed(ls, Q, p)
        BY <2>1 DEF DirListed
    <2>3. N + 1 \in DOMAIN Q
        BY <1>15, <1>16
    <2>4. ASSUME subdirs = <<c>> PROVE ls[N + 1].kind = "dir"
        <3>1. subdirs # <<>>
            BY <2>4
        <3> QED
            BY <1>13, <1>18, <3>1
    <2>5. subdirs = <<c>> => DirListed(ls, Q, c)
        BY <1>16, <2>3, <2>4 DEF DirListed
    <2> QED
        BY <2>2, <2>5
<1>20. ParentsListed(ls, Q)
    <2> SUFFICES ASSUME NEW i \in DOMAIN Q
                 PROVE  /\ \/ Parent(Q[i]) = Root
                           \/ \E j \in DOMAIN Q : j < i /\ Q[j] = Parent(Q[i]) /\ ls[j].kind = "dir"
                        /\ ls[i].inode # None => ls[i].kind = "file"
        BY DEF ParentsListed
    <2>1. CASE i \in DOMAIN P
        <3>1. \A j \in DOMAIN P : j \in DOMAIN Q /\ Q[j] = P[j] /\ ls[j] = lines[j]
            BY <1>15, <1>16, <1>18
        <3> QED
            BY <1>2, <2>1, <3>1 DEF ParentsListed
    <2>2. CASE i = N + 1
        <3>1. DirListed(lines, P, Parent(c))
            BY <1>2, <1>3, <1>4, <1>5 DEF QueueListed
        <3>2. \A j \in DOMAIN P : j \in DOMAIN Q /\ Q[j] = P[j] /\ ls[j] = lines[j] /\ j < i
            BY <1>15, <1>16, <1>18, <2>2
        <3> QED
            BY <1>12, <1>16, <1>18, <2>2, <3>1, <3>2 DEF DirListed
    <2> QED
        BY <1>15, <1>16, <2>1, <2>2
<1>21. QueueListed(ls, Q, v)
    <2>1. w.subdirs \in Seq(Numbers) /\ subdirs \in Seq(Numbers)
        <3>1. c \in Numbers
            BY <1>3, <1>4, <1>5, ChildOf
        <3>2. <<>> \in Seq(Numbers) /\ <<c>> \in Seq(Numbers)
            BY <3>1, EmptySeq
        <3> QED
            BY <1>8, <1>9, <3>2 DEF Ahead, RunShape
    <2>2. ASSUME NEW k \in DOMAIN v.subdirs PROVE DirListed(ls, Q, v.subdirs[k])
        <3>1. PICK D : D = v.subdirs
            OBVIOUS
        <3>2. \/ k \in DOMAIN w.subdirs /\ D[k] = w.subdirs[k]
              \/ k \in Nat /\ k - Len(w.subdirs) \in DOMAIN subdirs
                 /\ D[k] = subdirs[k - Len(w.subdirs)]
            BY <1>11, <2>1, <2>2, <3>1, ConcatSeq
        <3>3. \A m \in DOMAIN subdirs : subdirs = <<c>> /\ subdirs[m] = c
            BY <1>8
        <3> QED
            BY <1>2, <1>4, <1>19, <3>1, <3>2, <3>3 DEF QueueListed
    <2> QED
        BY <1>2, <1>4, <1>11, <1>19, <2>2 DEF QueueListed
<1> QED
    BY <1>4, <1>7, <1>10, <1>17, <1>20, <1>21 DEF ParentsInv

LEMMA DirDoneParents ==
    ASSUME WalkInv, ParentsInv, DirDone
    PROVE  ParentsInv'
<1>1. walk.pc = "line" /\ walk.ci = <<>> /\ Active(walk)
    BY DEF DirDone, Active
<1>2. PICK P : /\ Describes(lines, P) /\ Ahead(P, walk)
               /\ ParentsListed(lines, P) /\ QueueListed(lines, P, walk)
    BY <1>1, ParentsParts
<1>3. PICK w, v, T, W : /\ w = walk /\ v = walk' /\ T = Tail(walk.dirs) /\ W = walk.subdirs \o T
    OBVIOUS
<1>4. /\ w.dirs \in Seq(Numbers) /\ w.dirs # <<>> /\ w.subdirs \in Seq(Numbers)
    BY <1>2, <1>3 DEF Ahead, RunShape
<1>5. /\ T \in Seq(Numbers)
      /\ \A i \in DOMAIN T : i + 1 \in DOMAIN w.dirs /\ T[i] = w.dirs[i + 1]
    BY <1>3, <1>4, TailSeq
<1>6. \A k \in DOMAIN W : DirListed(lines, P, W[k])
    <2> SUFFICES ASSUME NEW k \in DOMAIN W PROVE DirListed(lines, P, W[k])
        OBVIOUS
    <2>1. \/ k \in DOMAIN w.subdirs /\ W[k] = w.subdirs[k]
          \/ k \in Nat /\ k - Len(w.subdirs) \in DOMAIN T
             /\ W[k] = T[k - Len(w.subdirs)]
        <3>1. W = w.subdirs \o T /\ w.subdirs \in Seq(Numbers) /\ T \in Seq(Numbers)
            BY <1>3, <1>4, <1>5
        <3>2. PICK a, m : a = w.subdirs /\ m = Len(w.subdirs)
            OBVIOUS
        <3>3. \/ k \in DOMAIN a /\ W[k] = a[k]
              \/ k \in Nat /\ k - m \in DOMAIN T /\ W[k] = T[k - m]
            BY <3>1, <3>2, ConcatSeq
        <3> QED
            BY <3>2, <3>3
    <2> QED
        BY <1>2, <1>3, <1>5, <2>1 DEF QueueListed
<1>7. v = Entered(W) /\ lines' = lines
    BY <1>3 DEF DirDone, Waiting
<1>8. v.dirs = W /\ v.subdirs = <<>>
    BY <1>7 DEF Entered
<1>9. QueueListed(lines, P, v)
    BY <1>6, <1>8 DEF QueueListed
<1> QED
    BY <1>2, <1>3, <1>7, <1>9 DEF ParentsInv

LEMMA ParentsStep ==
    ASSUME WalkInv, ParentsInv, [Next]_vars
    PROVE  ParentsInv'
<1>1. ASSUME UNCHANGED <<walk, lines>> PROVE ParentsInv'
    BY <1>1 DEF ParentsInv
<1>2. CASE WalkStep
    <2>1. CASE Contents \/ (\E n \in Name : Lstat(n)) \/ Sort
        BY <2>1, ListParents
    <2>2. CASE ContentsFails \/ LstatFails \/ WriteFails
        BY <2>2, DieParents DEF ContentsFails, LstatFails, WriteFails, Walking, Writing
    <2>3. CASE WriteFile
        BY <2>3, WriteParents DEF WriteFile
    <2>4. CASE WriteDir
        BY <2>4, WriteParents DEF WriteDir
    <2>5. CASE WriteLink \/ WriteSpecial
        BY <2>5, WriteParents DEF WriteLink, WriteSpecial
    <2>6. CASE DirDone
        BY <2>6, DirDoneParents
    <2> QED
        BY <1>2, <2>1, <2>2, <2>3, <2>4, <2>5, <2>6 DEF WalkStep
<1>3. CASE WalkDies
    BY <1>3, DieParents DEF WalkDies
<1>4. CASE Change
    BY <1>1, <1>4, ZenonT(60) DEF Change, Create, Edit, Unlink, AddLink, Rename, Becomes
<1>5. CASE RestoreStarts \/ RestoreRuns \/ RestoreDies \/ LoseObject \/ UNCHANGED vars
    BY <1>1, <1>5 DEF RestoreStarts, RestoreRuns, RestoreDies, LoseObject, vars, wvars
<1> QED
    BY <1>2, <1>3, <1>4, <1>5 DEF Next, Backup, BackupDies, Users

LEMMA ParentsInit ==
    ASSUME Init
    PROVE  ParentsInv
<1>1. lines = <<>> /\ walk = Entered(<<Root>>)
    BY DEF Init, WalkInit
<1>2. PICK v : v = walk
    OBVIOUS
<1>3. v.dirs = <<Root>> /\ v.subdirs = <<>>
    BY <1>1, <1>2 DEF Entered
<1>4. QueueListed(<<>>, <<>>, v)
    BY <1>3 DEF QueueListed, DirListed
<1>5. Describes(<<>>, <<>>) /\ ParentsListed(<<>>, <<>>)
    <2>1. <<>> \in Seq(Numbers) /\ IsSeq(<<>>) /\ DOMAIN <<>> = {}
        BY EmptySeq DEF IsSeq
    <2> QED
        BY <2>1 DEF Describes, ParentsListed
<1> QED
    BY <1>1, <1>2, <1>4, <1>5 DEF ParentsInv

----------------------------------------------------------------------------
(***************************************************************************)
(* What a restore makes is under the name of a line, or under the          *)
(* temporary name of one that it has not come past.                        *)
(***************************************************************************)
\* The restore r has got the temporary file of line m out of the way, and has
\* not made it since, or has renamed it.
Cleaned(r, m) == m < r.pos \/ (m = r.pos /\ r.pc = "make")

KnownName(ls, P, o, r, p) ==
    \/ \E m \in DOMAIN P : ~ Cleaned(r, m) /\ p = Tmpname(P[m])
    \/ \E i \in DOMAIN P : p = P[i] /\ o[p].kind = ls[i].kind

NamesKnown(ls, P, o, o0, r) == \A p \in DOMAIN o \ DOMAIN o0 : KnownName(ls, P, o, r, p)

NamesInv(ls, P, o, o0, r) ==
    /\ NamesKnown(ls, P, o, o0, r)
    /\ r.pc \in {"fill", "times", "rename"} => o[Tmpname(r.path)].kind = ls[r.pos].kind
    /\ r.pc \in {"fix", "done"} => r.pos \notin DOMAIN P

\* What is known whenever a step of a restore is made.
Scene(ls, P, o, o0, r) ==
    /\ Describes(ls, P) /\ Together(P) /\ RestInv(ls, P, o, o0, r) /\ ParentsListed(ls, P)
    /\ OutTree(o0)

LEMMA SceneFacts ==
    ASSUME NEW ls, NEW P, NEW o, NEW o0, NEW r, Scene(ls, P, o, o0, r)
    PROVE  /\ Len(P) \in Nat /\ DOMAIN P = 1 .. Len(P) /\ DOMAIN ls = 1 .. Len(P)
           /\ DOMAIN P \subseteq Nat /\ DOMAIN ls = DOMAIN P
           /\ OutTree(o) /\ OutTree(o0) /\ IsRs(r) /\ r.pos \in Nat /\ r.pos # 0
           /\ \A i \in DOMAIN P : P[i] \in Numbers /\ P[i] # Root
           /\ \A i, m \in DOMAIN P : m < i => P[m] # P[i] /\ P[m] # Tmpname(P[i])
           /\ r.pc \in Busy => r.pos \in DOMAIN P /\ r.path = P[r.pos]
<1>1. /\ P \in Seq(Numbers) /\ DOMAIN P = 1 .. Len(P) /\ DOMAIN ls = 1 .. Len(P) /\ Len(P) \in Nat
    BY SeqLength DEF Scene, Describes, IsSeq
<1>2. \A i \in DOMAIN P : P[i] # Root /\ P[i] \in Numbers
    BY <1>1, ElementOfSeq DEF Scene, Describes
<1>3. \A i, m \in DOMAIN P : m < i => P[m] # P[i] /\ P[m] # Tmpname(P[i])
    BY <1>1, <1>2, EarlierLines DEF Scene
<1>4. OutTree(o) /\ OutTree(o0) /\ IsRs(r) /\ Place(P, r)
    BY DEF Scene, RestInv
<1>5. /\ r.pos \in Nat /\ r.pos # 0
      /\ r.pc \in Busy => r.pos \in DOMAIN P /\ r.path = P[r.pos]
    BY <1>4 DEF Place
<1>6. DOMAIN P \subseteq Nat /\ DOMAIN ls = DOMAIN P
    BY <1>1
<1> QED
    BY <1>1, <1>2, <1>3, <1>4, <1>5, <1>6

\* Names come and go in X only, and files keep their kinds.
KindsKept(o, u, X) ==
    \A q : q \notin X =>
       /\ q \in DOMAIN o <=> q \in DOMAIN u
       /\ q \in DOMAIN o => u[q].kind = o[q].kind

LEMMA FrameKinds ==
    ASSUME NEW o, NEW u, NEW X, Frame(o, u, X)
    PROVE  KindsKept(o, u, X)
BY DEF Frame, KindsKept

LEMMA NamesKept ==
    ASSUME NEW ls, NEW P, NEW o, NEW u, NEW o0, NEW r, NEW x, NEW X,
           NamesKnown(ls, P, o, o0, r), KindsKept(o, u, X),
           \A p \in X : p \in DOMAIN u /\ p \notin DOMAIN o0 => KnownName(ls, P, u, x, p),
           \A m \in DOMAIN P :
              Cleaned(x, m) => \/ Cleaned(r, m)
                               \/ Tmpname(P[m]) \notin DOMAIN u
                               \/ Tmpname(P[m]) \in DOMAIN o0
                               \/ KnownName(ls, P, u, x, Tmpname(P[m]))
    PROVE  NamesKnown(ls, P, u, o0, x)
<1> SUFFICES ASSUME NEW p \in DOMAIN u, p \notin DOMAIN o0
             PROVE  KnownName(ls, P, u, x, p)
    BY DEF NamesKnown
<1>1. CASE p \in X
    BY <1>1
<1>2. CASE p \notin X
    <2>1. p \in DOMAIN o /\ u[p].kind = o[p].kind
        BY <1>2 DEF KindsKept
    <2>2. KnownName(ls, P, o, r, p)
        BY <2>1 DEF NamesKnown
    <2>3. CASE \E i \in DOMAIN P : p = P[i] /\ o[p].kind = ls[i].kind
        BY <2>1, <2>3 DEF KnownName
    <2>4. ASSUME NEW m \in DOMAIN P, ~ Cleaned(r, m), p = Tmpname(P[m])
          PROVE  KnownName(ls, P, u, x, p)
        <3>1. CASE Cleaned(x, m)
            BY <2>4, <3>1
        <3>2. CASE ~ Cleaned(x, m)
            BY <2>4, <3>2 DEF KnownName
        <3> QED
            BY <3>1, <3>2
    <2> QED
        BY <2>2, <2>3, <2>4 DEF KnownName
<1> QED
    BY <1>1, <1>2

\* A set of numbers that is not empty has a least one.
LEMMA LeastNat ==
    ASSUME NEW T, T \subseteq Nat, T # {}
    PROVE  \E x \in T : \A y \in T : x <= y
<1>1. IsWellFoundedOn(OpToRel(<, Nat), Nat)
    BY NatLessThanWellFounded
<1>2. PICK x \in T : \A y \in T : ~ (<<y, x>> \in OpToRel(<, Nat))
    BY <1>1, WFMin
<1>3. \A y \in T : ~ (y < x)
    BY <1>2 DEF OpToRel
<1>4. \A y \in T : x \in Nat /\ y \in Nat
    OBVIOUS
<1> QED
    BY <1>3, <1>4

\* What has a file below it in a tree has one in it.
LEMMA ChildInside ==
    ASSUME NEW o, OutTree(o), NEW t \in Numbers, t # Root, NEW q \in DOMAIN o, Below(t, q)
    PROVE  \E c \in DOMAIN o : Parent(c) = t
<1>1. PICK S : S = {c \in DOMAIN o : Below(t, c)}
    OBVIOUS
<1>2. \A c \in DOMAIN o : c \in Numbers /\ c # Root /\ Len(c) \in Nat
    BY LenProperties DEF OutTree, Numbers
<1>3. PICK T : T = {Len(c) : c \in S}
    OBVIOUS
<1>4. T \subseteq Nat /\ T # {}
    BY <1>1, <1>2, <1>3
<1>5. PICK x \in T : \A y \in T : x <= y
    BY <1>4, LeastNat
<1>6. PICK c \in DOMAIN o : Below(t, c) /\ Len(c) = x
    BY <1>1, <1>3, <1>5
<1>7. \A b \in DOMAIN o : Below(t, b) => Len(c) <= Len(b)
    BY <1>1, <1>3, <1>5, <1>6
<1>8. PICK d \in Numbers, n \in Nat : d = Parent(c) /\ c = Append(d, n)
    BY <1>2, ParentOf
<1>9. SUFFICES ASSUME d # t PROVE FALSE
    BY <1>8
<1>10. Under(c, t) /\ c # t
    BY <1>2, <1>6, BelowIsUnder
<1>11. Under(d, t)
    <2>1. Under(Append(d, n), t)
        BY <1>8, <1>10
    <2>2. t = Append(d, n) \/ Under(d, t)
        BY <1>8, <2>1, UnderChild
    <2> QED
        BY <1>8, <1>10, <2>2
<1>12. Below(t, d)
    BY <1>9, <1>11, BelowIsUnder
<1>13. d # Root
    <2>1. Len(t) \in Nat /\ Len(d) \in Nat /\ Len(t) < Len(d)
        BY <1>9, <1>11, UnderShorter
    <2> QED
        BY <2>1 DEF Root
<1>14. d \in DOMAIN o
    BY <1>6, <1>8, <1>13 DEF OutTree
<1>15. Len(c) <= Len(d)
    BY <1>7, <1>12, <1>14
<1>16. Len(d) \in Nat /\ Len(c) = Len(d) + 1
    BY <1>8, ChildOf
<1> QED
    BY <1>15, <1>16


\* The run is where it was, or before a line of which nothing has been made.
LEMMA CleanedSame ==
    ASSUME NEW r, NEW x, NEW m, x.pos = r.pos, x.pc # "make"
    PROVE  Cleaned(x, m) => Cleaned(r, m)
BY DEF Cleaned

LEMMA CleanedNext ==
    ASSUME NEW r, NEW x, NEW m, r.pos \in Nat, m \in Nat, x.pos = r.pos + 1, x.pc # "make"
    PROVE  Cleaned(x, m) => Cleaned(r, m) \/ m = r.pos
BY DEF Cleaned

LEMMA ReadsNames ==
    ASSUME NEW ls, NEW P, NEW o, NEW u, NEW o0, NEW r, NEW x,
           Scene(ls, P, o, o0, r), NamesInv(ls, P, o, o0, r), StepReads(P, o, u, r, x)
    PROVE  NamesInv(ls, P, u, o0, x)
<1>1. /\ r.pos \in DOMAIN P /\ DOMAIN P \subseteq Nat /\ OutTree(o) /\ OutTree(o0)
      /\ \A i \in DOMAIN P : P[i] \in Numbers /\ P[i] # Root
    BY SceneFacts DEF StepReads
<1>2. x.pc = "make" /\ x.pos = r.pos
    BY DEF StepReads, Whole, Fields
<1>3. PICK t : t = Tmpname(P[r.pos])
    OBVIOUS
<1>4. t \in Numbers /\ t # Root
    BY <1>1, <1>3, TmpnameOf
<1>5. \A m \in DOMAIN P : Cleaned(x, m) => Cleaned(r, m) \/ Tmpname(P[m]) = t
    BY <1>2, <1>3 DEF Cleaned
<1>6. NamesKnown(ls, P, o, o0, r)
    BY DEF NamesInv
<1>7. NamesKnown(ls, P, u, o0, x)
    <2>1. CASE Frame(o, u, {t}) /\ DOMAIN u = DOMAIN o \ {t}
        <3>1. KindsKept(o, u, {t}) /\ t \notin DOMAIN u
            BY <2>1, FrameKinds
        <3> QED
            BY <1>5, <1>6, <3>1, NamesKept
    <2>2. CASE u = o /\ t \in DOMAIN o /\ \E q \in DOMAIN o : Below(t, q)
        <3>1. PICK c \in DOMAIN o : Parent(c) = t
            BY <1>1, <1>4, <2>2, ChildInside
        <3>2. o[t].kind = "dir"
            BY <1>1, <1>4, <3>1 DEF OutTree
        <3>3. t \in DOMAIN o0 \/ KnownName(ls, P, u, x, t)
            <4>1. CASE c \in DOMAIN o0
                BY <1>1, <1>4, <3>1, <4>1 DEF OutTree
            <4>2. CASE c \notin DOMAIN o0
                <5>1. KnownName(ls, P, o, r, c)
                    BY <1>6, <4>2 DEF NamesKnown
                <5>2. PICK m \in DOMAIN P : c = P[m] \/ c = Tmpname(P[m])
                    BY <5>1 DEF KnownName
                <5>3. Parent(P[m]) = t
                    BY <1>1, <3>1, <5>2, TmpnameOf
                <5>4. PICK j \in DOMAIN P : P[j] = t /\ ls[j].kind = "dir"
                    BY <1>4, <5>3 DEF Scene, ParentsListed
                <5> QED
                    BY <2>2, <3>2, <5>4 DEF KnownName
            <4> QED
                BY <4>1, <4>2
        <3>4. KindsKept(o, u, {})
            BY <2>2 DEF KindsKept
        <3> QED
            BY <1>5, <1>6, <3>3, <3>4, NamesKept
    <2> QED
        BY <1>3, <2>1, <2>2 DEF StepReads
<1> QED
    BY <1>2, <1>7 DEF NamesInv

\* Nothing happens to the tree.
LEMMA StillNames ==
    ASSUME NEW ls, NEW P, NEW o, NEW o0, NEW r, NEW x,
           NamesKnown(ls, P, o, o0, r), \A m \in DOMAIN P : Cleaned(x, m) => Cleaned(r, m)
    PROVE  NamesKnown(ls, P, o, o0, x)
<1>1. KindsKept(o, o, {})
    BY DEF KindsKept
<1> QED
    BY <1>1, NamesKept

LEMMA FreshNames ==
    ASSUME NEW ls, NEW P, NEW o, NEW u, NEW o0, NEW r, NEW x, NEW pc, pc \in {"idle", "read"},
           DOMAIN P \subseteq Nat \ {0},
           NamesKnown(ls, P, o, o0, r), StepFresh(o, u, x, pc)
    PROVE  NamesInv(ls, P, u, o0, x)
<1>1. u = o /\ x.pc = pc /\ x.pos = 1
    BY DEF StepFresh, Whole, Fields
<1>2. \A m \in DOMAIN P : ~ Cleaned(x, m)
    BY <1>1 DEF Cleaned
<1>3. NamesKnown(ls, P, o, o0, x)
    BY <1>2, StillNames
<1> QED
    BY <1>1, <1>3 DEF NamesInv

LEMMA MakesNames ==
    ASSUME NEW ls, NEW P, NEW o, NEW u, NEW o0, NEW r, NEW x, NEW n, NEW pc,
           Scene(ls, P, o, o0, r), NamesInv(ls, P, o, o0, r),
           pc \in {"fill", "times", "rename"}, StepMakes(o, u, r, x, n, pc),
           n.kind = ls[r.pos].kind
    PROVE  NamesInv(ls, P, u, o0, x)
<1>1. r.pos \in DOMAIN P /\ r.path = P[r.pos]
    BY SceneFacts DEF StepMakes, Busy
<1>2. x.pc = pc /\ x.pos = r.pos /\ x.path = r.path
    BY DEF StepMakes, Same, Whole, Fields
<1>3. PICK t : t = Tmpname(r.path)
    OBVIOUS
<1>4. KindsKept(o, u, {t}) /\ u[t] = n
    BY <1>3, FrameKinds DEF StepMakes
<1>5. KnownName(ls, P, u, x, t)
    <2>1. ~ Cleaned(x, r.pos)
        <3>1. ~ (r.pos < r.pos)
            BY <1>1, SceneFacts
        <3> QED
            BY <1>2, <3>1 DEF Cleaned
    <2> QED
        BY <1>1, <1>3, <2>1 DEF KnownName
<1>6. \A m \in DOMAIN P : Cleaned(x, m) => Cleaned(r, m)
    BY <1>2 DEF Cleaned
<1>7. NamesKnown(ls, P, u, o0, x)
    BY <1>4, <1>5, <1>6, NamesKept DEF NamesInv
<1>8. u[Tmpname(x.path)].kind = ls[x.pos].kind
    BY <1>2, <1>3, <1>4
<1> QED
    BY <1>2, <1>7, <1>8 DEF NamesInv

\* A file that is linked to is a regular file, and so is that of the line.
LEMMA LinkKind ==
    ASSUME NEW ls, NEW P, NEW o, NEW o0, NEW r, NEW n, Scene(ls, P, o, o0, r),
           r.pc = "make", LinkNode(ls[r.pos], o, r, n)
    PROVE  n.kind = "file" /\ ls[r.pos].kind = "file"
<1>1. r.pos \in DOMAIN P /\ r.pos \in Nat /\ DOMAIN P \subseteq Nat
    BY SceneFacts DEF Busy
<1>2. PICK k \in DOMAIN r.inodes : k = ls[r.pos].inode /\ r.inodes[k] \in DOMAIN o /\ n = o[r.inodes[k]]
    BY DEF LinkNode
<1>3. Linked(ls, P, o, r.inodes, r.pos, OwnFile(o, r)) /\ ~ OwnFile(o, r)
    BY DEF Scene, RestInv, OwnFile
<1>4. PICK m \in DOMAIN P : r.inodes[k] = P[m] /\ (P[m] \in DOMAIN o => o[P[m]].kind = "file")
    BY <1>3 DEF Linked
<1>5. k # None
    BY <1>3 DEF Linked
<1> QED
    BY <1>1, <1>2, <1>4, <1>5 DEF Scene, ParentsListed

\* The temporary file is filled, or gets its times.
LEMMA EditsNames ==
    ASSUME NEW ls, NEW P, NEW o, NEW u, NEW o0, NEW r, NEW x,
           Scene(ls, P, o, o0, r), NamesInv(ls, P, o, o0, r),
           r.pc \in {"fill", "times", "rename"}, x.pc \in {"fill", "times", "rename"},
           x.pos = r.pos, x.path = r.path,
           Frame(o, u, {Tmpname(r.path)}), DOMAIN u = DOMAIN o,
           u[Tmpname(r.path)].kind = o[Tmpname(r.path)].kind
    PROVE  NamesInv(ls, P, u, o0, x)
<1>1. PICK t : t = Tmpname(r.path)
    OBVIOUS
<1>2. KindsKept(o, u, {t})
    BY <1>1, FrameKinds
<1>3. KindsKept(o, u, {})
    BY <1>1, <1>2 DEF KindsKept
<1>4. \A m \in DOMAIN P : Cleaned(x, m) => Cleaned(r, m)
    BY DEF Cleaned
<1>5. NamesKnown(ls, P, u, o0, x)
    BY <1>3, <1>4, NamesKept DEF NamesInv
<1> QED
    BY <1>5 DEF NamesInv

LEMMA RenamesNames ==
    ASSUME NEW ls, NEW P, NEW o, NEW u, NEW o0, NEW r, NEW x,
           Scene(ls, P, o, o0, r), NamesInv(ls, P, o, o0, r), StepRenames(o, u, r, x)
    PROVE  NamesInv(ls, P, u, o0, x)
<1>1. /\ r.pos \in DOMAIN P /\ r.pos \in Nat /\ DOMAIN P \subseteq Nat /\ r.path = P[r.pos]
      /\ r.path \in Numbers /\ r.path # Root
    BY SceneFacts DEF StepRenames, Busy
<1>2. x.pc = "read" /\ x.pos = r.pos + 1
    BY DEF StepRenames, Whole, Fields
<1>3. PICK p, t : p = r.path /\ t = Tmpname(r.path)
    OBVIOUS
<1>4. KindsKept(o, u, {t, p})
    BY <1>3, FrameKinds DEF StepRenames
<1>5. t \notin DOMAIN u
    BY <1>3 DEF StepRenames
<1>6. KnownName(ls, P, u, x, p)
    <2>1. u[p].kind = ls[r.pos].kind
        BY <1>3 DEF StepRenames, NamesInv
    <2> QED
        BY <1>1, <1>3, <2>1 DEF KnownName
<1>7. \A m \in DOMAIN P : Cleaned(x, m) => Cleaned(r, m) \/ Tmpname(P[m]) \notin DOMAIN u
    <2> SUFFICES ASSUME NEW m \in DOMAIN P, Cleaned(x, m), ~ Cleaned(r, m)
                 PROVE  Tmpname(P[m]) \notin DOMAIN u
        OBVIOUS
    <2>1. m = r.pos
        BY <1>1, <1>2 DEF Cleaned
    <2> QED
        BY <1>1, <1>3, <1>5, <2>1
<1>8. NamesKnown(ls, P, u, o0, x)
    BY <1>4, <1>5, <1>6, <1>7, NamesKept DEF NamesInv
<1> QED
    BY <1>2, <1>8 DEF NamesInv


LEMMA SkipsNames ==
    ASSUME NEW ls, NEW P, NEW o, NEW o0, NEW r, NEW x,
           Scene(ls, P, o, o0, r), NamesInv(ls, P, o, o0, r),
           r.pc = "make", x.pc = "read", x.pos = r.pos + 1
    PROVE  NamesInv(ls, P, o, o0, x)
<1>1. r.pos \in Nat /\ DOMAIN P \subseteq Nat
    BY SceneFacts
<1>2. \A m \in DOMAIN P : Cleaned(x, m) => Cleaned(r, m)
    BY <1>1 DEF Cleaned
<1>3. NamesKnown(ls, P, o, o0, x)
    BY <1>2, StillNames DEF NamesInv
<1> QED
    BY <1>3 DEF NamesInv

\* The end of the index, and the times of the directories.
LEMMA EndNames ==
    ASSUME NEW ls, NEW P, NEW o, NEW u, NEW o0, NEW r, NEW x,
           NamesInv(ls, P, o, o0, r), KindsKept(o, u, {}),
           (r.pc = "read" /\ r.pos \notin DOMAIN P) \/ r.pc \in {"fix", "done"},
           x.pc \in {"fix", "done"}, x.pos = r.pos
    PROVE  NamesInv(ls, P, u, o0, x)
<1>1. \A m \in DOMAIN P : Cleaned(x, m) => Cleaned(r, m)
    BY DEF Cleaned
<1>2. NamesKnown(ls, P, u, o0, x)
    BY <1>1, NamesKept DEF NamesInv
<1>3. x.pos \notin DOMAIN P
    BY DEF NamesInv
<1> QED
    BY <1>2, <1>3 DEF NamesInv

\* Every step keeps to the names that are known.
LEMMA StepNames ==
    ASSUME NEW ls, NEW P, NEW o, NEW u, NEW o0, NEW r, NEW x,
           Scene(ls, P, o, o0, r), NamesInv(ls, P, o, o0, r), RunSteps(ls, P, o, u, r, x)
    PROVE  NamesInv(ls, P, u, o0, x)
<1>0. DOMAIN P \subseteq Nat \ {0}
    BY SceneFacts
<1>1. CASE StepReads(P, o, u, r, x)
    BY <1>1, ReadsNames
<1>2. CASE StepEnds(P, o, u, r, x) \/ StepDone(o, u, r, x) \/ StepFixes(o, u, r, x)
    <2>1. KindsKept(o, u, {})
        BY <1>2 DEF StepEnds, StepDone, StepFixes, KindsKept
    <2>2. /\ (r.pc = "read" /\ r.pos \notin DOMAIN P) \/ r.pc \in {"fix", "done"}
          /\ x.pc \in {"fix", "done"} /\ x.pos = r.pos
        BY <1>2 DEF StepEnds, StepDone, StepFixes, Same, Whole, Fields
    <2> QED
        BY <2>1, <2>2, EndNames
<1>3. CASE StepFresh(o, u, x, "idle") \/ StepFresh(o, u, x, "read")
    BY <1>0, <1>3, FreshNames DEF NamesInv
<1>4. ASSUME NEW n, StepMakes(o, u, r, x, n, "rename"), LinkNode(ls[r.pos], o, r, n)
      PROVE  NamesInv(ls, P, u, o0, x)
    <2>1. n.kind = ls[r.pos].kind
        BY <1>4, LinkKind DEF StepMakes
    <2> QED
        BY <1>4, <2>1, MakesNames
<1>5. ASSUME NEW n, StepMakes(o, u, r, x, n, "fill"), FileNode(ls[r.pos], o, r, n)
      PROVE  NamesInv(ls, P, u, o0, x)
    BY <1>5, MakesNames DEF FileNode
<1>6. ASSUME NEW n, StepMakes(o, u, r, x, n, "times"), OtherNode(ls[r.pos], n)
      PROVE  NamesInv(ls, P, u, o0, x)
    BY <1>6, MakesNames DEF OtherNode
<1>7. CASE StepLeaves(ls[r.pos], o, u, r, x) \/ StepErrs(ls[r.pos], o, u, r, x)
    <2>1. u = o /\ r.pc = "make" /\ x.pc = "read" /\ x.pos = r.pos + 1
        BY <1>7 DEF StepLeaves, StepErrs, Whole, Fields
    <2> QED
        BY <2>1, SkipsNames
<1>8. CASE \/ StepFills(o, u, r, x) \/ StepCopied(ls[r.pos], o, u, r, x)
           \/ StepPutsOff(ls[r.pos], o, u, r, x) \/ StepTimes(ls[r.pos], o, u, r, x)
    <2>1. /\ r.pc \in {"fill", "times", "rename"} /\ x.pc \in {"fill", "times", "rename"}
          /\ x.pos = r.pos /\ x.path = r.path
        BY <1>8 DEF StepFills, StepCopied, StepPutsOff, StepTimes, Same, Whole, Fields
    <2>2. /\ Frame(o, u, {Tmpname(r.path)}) /\ DOMAIN u = DOMAIN o
          /\ u[Tmpname(r.path)].kind = o[Tmpname(r.path)].kind
        BY <1>8 DEF StepFills, StepCopied, StepPutsOff, StepTimes, Frame
    <2> QED
        BY <2>1, <2>2, EditsNames
<1>9. CASE StepRenames(o, u, r, x)
    BY <1>9, RenamesNames
<1> QED
    BY <1>1, <1>2, <1>3, <1>4, <1>5, <1>6, <1>7, <1>8, <1>9 DEF RunSteps

\* When all lines are done, there are their names only.
LEMMA NamesAtEnd ==
    ASSUME NEW ls, NEW P, NEW o, NEW o0, NEW r, Scene(ls, P, o, o0, r),
           NamesInv(ls, P, o, o0, r), r.pc = "done"
    PROVE  \A p \in DOMAIN o : p \in DOMAIN o0 \/ \E i \in DOMAIN P : p = P[i]
<1>1. \A m \in DOMAIN P : Cleaned(r, m)
    <2>1. r.pos \in Nat /\ r.pos # 0 /\ Len(P) \in Nat /\ DOMAIN P = 1 .. Len(P)
        BY SceneFacts
    <2>2. r.pos \notin 1 .. Len(P)
        BY <2>1 DEF NamesInv
    <2>3. \A m \in 1 .. Len(P) : m < r.pos
        BY <2>1, <2>2
    <2> QED
        BY <2>1, <2>3 DEF Cleaned
<1> QED
    BY <1>1 DEF NamesInv, NamesKnown, KnownName

----------------------------------------------------------------------------
(***************************************************************************)
(* What has been made of the lines that a restore has come past, and of    *)
(* the one it is at.                                                       *)
(***************************************************************************)
\* s is the first line of the inode of line i.
FirstLine(ls, s, i) ==
    IF ls[i].inode = None THEN s = i
    ELSE /\ s \in DOMAIN ls /\ ls[s].inode = ls[i].inode
         /\ \A k \in DOMAIN ls : ls[k].inode = ls[i].inode => s <= k

IsMade(l, n) == n.kind = l.kind /\ n.data = DataOf(l)
TimeRight(l, n) == l.kind \notin {"link", "dir"} => n.mtime = l.mtime

MadeFrom(ls, n, i) ==
    \E s \in DOMAIN ls : FirstLine(ls, s, i) /\ IsMade(ls[s], n) /\ TimeRight(ls[s], n)

MadeLine(ls, P, o, o0, left, m) ==
    /\ P[m] \in DOMAIN o
    /\ IF P[m] \in left
       THEN P[m] \in DOMAIN o0 \/ (o[P[m]].kind = "dir" /\ o[P[m]].data = <<>>)
       ELSE MadeFrom(ls, o[P[m]], m)

SameFile(ls, m, n) == m = n \/ (ls[m].inode = ls[n].inode /\ ls[m].inode # None)

\* id is that of the files of the inode of line i, and of no others.
IdRight(ls, P, o, id, i, pos) ==
    \A m \in DOMAIN P :
       m < pos /\ ls[m].kind = "file" => (SameFile(ls, m, i) <=> o[P[m]].id = id)

AllMade(ls, P, o, o0, r) ==
    ~ r.errors => \A m \in DOMAIN P : m < r.pos =>
       /\ MadeLine(ls, P, o, o0, r.left, m)
       /\ ls[m].kind = "file" => IdRight(ls, P, o, o[P[m]].id, m, r.pos)

\* The run has come past line m, or has come to one of pcs there.
After(r, m, pcs) == m < r.pos \/ (m = r.pos /\ r.pc \in pcs)

\* An inode number is known from its first line on.
InodesKnown(ls, P, r) ==
    /\ \A k \in DOMAIN r.inodes : \E m \in DOMAIN P :
          /\ r.inodes[k] = P[m] /\ ls[m].inode = k /\ After(r, m, {"times", "rename"})
          /\ \A i \in DOMAIN P : ls[i].inode = k => m <= i
    /\ \A m \in DOMAIN P :
          ls[m].inode # None /\ After(r, m, {"times", "rename"}) => ls[m].inode \in DOMAIN r.inodes
    /\ r.pc = "fill" => ls[r.pos].inode \notin DOMAIN r.inodes

OfDirs(ls, P, times) ==
    \A x \in DOMAIN times : \E m \in DOMAIN P :
       ls[m].kind = "dir" /\ times[x] = [dir |-> P[m], mtime |-> ls[m].mtime]

Due(ls, P, times, m) ==
    \E x \in DOMAIN times : times[x] = [dir |-> P[m], mtime |-> ls[m].mtime]

\* The directories have their times, or will have.
TimesDue(ls, P, o, r) ==
    /\ OfDirs(ls, P, r.dirtimes)
    /\ ~ r.errors => \A m \in DOMAIN P :
          ls[m].kind = "dir" /\ P[m] \notin r.left /\ After(r, m, {"rename"}) =>
             \/ Due(ls, P, r.dirtimes, m)
             \/ r.pc \in {"fix", "done"} /\ o[P[m]].mtime = ls[m].mtime
    /\ r.pc = "done" => r.dirtimes = <<>>

LeftDirs(ls, P, r) ==
    \A p \in r.left : \E m \in DOMAIN P : m < r.pos /\ p = P[m] /\ ls[m].kind = "dir"

Making == {"fill", "times", "rename"}

TempMade(ls, P, o, r) ==
    LET t == Tmpname(r.path) IN
    /\ r.pc \in Making /\ o[t].kind = "dir" => o[t].data = <<>>
    /\ r.pc = "times" => FirstLine(ls, r.pos, r.pos) /\ IsMade(ls[r.pos], o[t])
    /\ ~ r.errors =>
          /\ r.pc = "rename" => MadeFrom(ls, o[t], r.pos)
          /\ r.pc \in Making /\ ls[r.pos].kind = "file" =>
                IdRight(ls, P, o, o[t].id, r.pos, r.pos)

NewDirs(o, o0) == \A p \in DOMAIN o \ DOMAIN o0 : o[p].kind = "dir" => o[p].data = <<>>

MadeInv(ls, P, o, o0, r) ==
    /\ NamesInv(ls, P, o, o0, r) /\ IsFiniteSet(DOMAIN o) /\ NewDirs(o, o0)
    /\ AllMade(ls, P, o, o0, r) /\ InodesKnown(ls, P, r) /\ TimesDue(ls, P, o, r)
    /\ LeftDirs(ls, P, r) /\ TempMade(ls, P, o, r)

\* The file of line m is as it was, but for its time if it is a directory.
KeptAt(ls, P, o, u, m) ==
    P[m] \in DOMAIN o =>
       /\ P[m] \in DOMAIN u /\ u[P[m]].kind = o[P[m]].kind
       /\ u[P[m]].data = o[P[m]].data /\ u[P[m]].id = o[P[m]].id
       /\ ls[m].kind # "dir" /\ o[P[m]].kind # "dir" => u[P[m]].mtime = o[P[m]].mtime

LEMMA FrameKept ==
    ASSUME NEW ls, NEW P, NEW o, NEW u, NEW X, NEW m, Frame(o, u, X), P[m] \notin X
    PROVE  KeptAt(ls, P, o, u, m)
BY DEF Frame, KeptAt

LEMMA FixKeeps ==
    ASSUME NEW ls, NEW P, NEW o, NEW u, NEW o0, NEW r, NEW x,
           Scene(ls, P, o, o0, r), OfDirs(ls, P, r.dirtimes), StepFixes(o, u, r, x),
           NEW m \in DOMAIN P
    PROVE  KeptAt(ls, P, o, u, m)
<1> SUFFICES ASSUME P[m] \in DOMAIN o, ls[m].kind # "dir"
             PROVE  u[P[m]].mtime = o[P[m]].mtime
    BY DEF StepFixes, KeptAt
<1>1. PICK d : d = r.dirtimes[1]
    OBVIOUS
<1>2. 1 \in DOMAIN r.dirtimes
    <2>1. IsSeq(r.dirtimes) /\ r.dirtimes # <<>>
        BY DEF Scene, RestInv, StepFixes
    <2> QED
        BY <2>1, TailSeq DEF IsSeq
<1>3. PICK i \in DOMAIN P : ls[i].kind = "dir" /\ d = [dir |-> P[i], mtime |-> ls[i].mtime]
    BY <1>1, <1>2 DEF OfDirs
<1>4. d.dir = P[i]
    BY <1>3
<1>5. P[m] # d.dir
    <2>1. i # m
        BY <1>3
    <2>2. P[i] # P[m]
        <3>1. i \in Nat /\ m \in Nat
            BY SceneFacts
        <3>2. i < m \/ m < i
            BY <2>1, <3>1
        <3> QED
            BY <3>2, SceneFacts
    <2> QED
        BY <1>4, <2>2
<1> QED
    BY <1>1, <1>5 DEF StepFixes

\* No step changes what has been made of the lines before.
LEMMA StepKeeps ==
    ASSUME NEW ls, NEW P, NEW o, NEW u, NEW o0, NEW r, NEW x,
           Scene(ls, P, o, o0, r), OfDirs(ls, P, r.dirtimes), RunSteps(ls, P, o, u, r, x),
           NEW m \in DOMAIN P, m < r.pos
    PROVE  KeptAt(ls, P, o, u, m)
<1>1. CASE u = o
    BY <1>1 DEF KeptAt
<1>2. CASE r.pos \in DOMAIN P /\ \E X \in SUBSET {P[r.pos], Tmpname(P[r.pos])} : Frame(o, u, X)
    <2>1. P[m] # P[r.pos] /\ P[m] # Tmpname(P[r.pos])
        BY <1>2, SceneFacts
    <2> QED
        BY <1>2, <2>1, FrameKept
<1>3. ASSUME r.pc \in Busy, Frame(o, u, {Tmpname(r.path)})
      PROVE  KeptAt(ls, P, o, u, m)
    BY <1>2, <1>3, SceneFacts
<1>4. CASE StepReads(P, o, u, r, x)
    BY <1>1, <1>2, <1>4 DEF StepReads
<1>5. ASSUME NEW n, NEW pc, StepMakes(o, u, r, x, n, pc) PROVE KeptAt(ls, P, o, u, m)
    BY <1>3, <1>5 DEF StepMakes, Busy
<1>6. CASE StepFills(o, u, r, x) \/ StepTimes(ls[r.pos], o, u, r, x)
    BY <1>3, <1>6 DEF StepFills, StepTimes, Busy
<1>7. CASE StepRenames(o, u, r, x)
    <2>1. r.pos \in DOMAIN P /\ r.path = P[r.pos]
        BY <1>7, SceneFacts DEF StepRenames, Busy
    <2>2. Frame(o, u, {Tmpname(P[r.pos]), P[r.pos]})
        BY <1>7, <2>1 DEF StepRenames
    <2> QED
        BY <1>2, <2>1, <2>2
<1>8. CASE StepFixes(o, u, r, x)
    BY <1>8, FixKeeps
<1>9. CASE \/ StepEnds(P, o, u, r, x) \/ StepFresh(o, u, x, "idle") \/ StepFresh(o, u, x, "read")
           \/ StepLeaves(ls[r.pos], o, u, r, x) \/ StepErrs(ls[r.pos], o, u, r, x)
           \/ StepCopied(ls[r.pos], o, u, r, x) \/ StepPutsOff(ls[r.pos], o, u, r, x)
           \/ StepDone(o, u, r, x)
    BY <1>1, <1>9 DEF StepEnds, StepFresh, StepLeaves, StepErrs, StepCopied, StepPutsOff, StepDone
<1> QED
    BY <1>4, <1>5, <1>6, <1>7, <1>8, <1>9 DEF RunSteps


\* Only regular files have inode numbers.
LEMMA FirstOfNone ==
    ASSUME NEW ls, NEW P, NEW o, NEW o0, NEW r, Scene(ls, P, o, o0, r),
           NEW i \in DOMAIN P, NEW s \in DOMAIN P, FirstLine(ls, s, i)
    PROVE  /\ ls[i].kind # "file" => s = i
           /\ ls[s].kind # "file" => s = i
           /\ ls[i].inode # None => ls[i].kind = "file" /\ ls[s].kind = "file"
<1>1. \A m \in DOMAIN P : ls[m].inode # None => ls[m].kind = "file"
    BY DEF Scene, ParentsListed
<1>2. ls[i].inode # None => ls[s].inode = ls[i].inode
    BY DEF FirstLine
<1> QED
    BY <1>1, <1>2 DEF FirstLine

LEMMA KeptMade ==
    ASSUME NEW ls, NEW P, NEW o, NEW u, NEW o0, NEW r, Scene(ls, P, o, o0, r),
           NEW m \in DOMAIN P, KeptAt(ls, P, o, u, m), NEW left, NEW more,
           P[m] \in more <=> P[m] \in left, MadeLine(ls, P, o, o0, left, m)
    PROVE  MadeLine(ls, P, u, o0, more, m)
<1>1. /\ P[m] \in DOMAIN o /\ P[m] \in DOMAIN u
      /\ u[P[m]].kind = o[P[m]].kind /\ u[P[m]].data = o[P[m]].data
      /\ ls[m].kind # "dir" /\ o[P[m]].kind # "dir" => u[P[m]].mtime = o[P[m]].mtime
    BY DEF MadeLine, KeptAt
<1>2. CASE P[m] \in left
    BY <1>1, <1>2 DEF MadeLine
<1>3. CASE P[m] \notin left
    <2>1. PICK s \in DOMAIN ls : FirstLine(ls, s, m) /\ IsMade(ls[s], o[P[m]]) /\ TimeRight(ls[s], o[P[m]])
        BY <1>3 DEF MadeLine, MadeFrom
    <2>2. IsMade(ls[s], u[P[m]])
        BY <1>1, <2>1 DEF IsMade
    <2>3. TimeRight(ls[s], u[P[m]])
        <3> SUFFICES ASSUME ls[s].kind \notin {"link", "dir"}
                     PROVE  u[P[m]].mtime = ls[s].mtime
            BY DEF TimeRight
        <3>1. o[P[m]].kind # "dir"
            BY <2>1 DEF IsMade
        <3>2. ls[m].kind # "dir"
            <4>1. s \in DOMAIN P
                BY <2>1, SceneFacts
            <4> QED
                BY <2>1, <4>1, FirstOfNone
        <3> QED
            BY <1>1, <2>1, <3>1, <3>2 DEF TimeRight
    <2>4. MadeFrom(ls, u[P[m]], m)
        BY <2>1, <2>2, <2>3 DEF MadeFrom
    <2> QED
        BY <1>1, <1>3, <2>4 DEF MadeLine
<1> QED
    BY <1>2, <1>3

LEMMA KeptIds ==
    ASSUME NEW ls, NEW P, NEW o, NEW u, NEW id, NEW i, NEW pos,
           \A m \in DOMAIN P : m < pos => KeptAt(ls, P, o, u, m) /\ P[m] \in DOMAIN o,
           IdRight(ls, P, o, id, i, pos)
    PROVE  IdRight(ls, P, u, id, i, pos)
BY DEF IdRight, KeptAt

LEMMA MadeThere ==
    ASSUME NEW ls, NEW P, NEW o, NEW o0, NEW r, AllMade(ls, P, o, o0, r), ~ r.errors,
           NEW m \in DOMAIN P, m < r.pos
    PROVE  P[m] \in DOMAIN o
BY DEF AllMade, MadeLine

\* The lines before stay as they are: those that are made, and with the ids they have.
LEMMA BeforeMade ==
    ASSUME NEW ls, NEW P, NEW o, NEW u, NEW o0, NEW r, Scene(ls, P, o, o0, r),
           \A m \in DOMAIN P : m < r.pos => KeptAt(ls, P, o, u, m),
           AllMade(ls, P, o, o0, r), ~ r.errors, NEW left,
           \A m \in DOMAIN P : m < r.pos => (P[m] \in left <=> P[m] \in r.left),
           NEW m \in DOMAIN P, m < r.pos
    PROVE  /\ MadeLine(ls, P, u, o0, left, m)
           /\ ls[m].kind = "file" => IdRight(ls, P, u, u[P[m]].id, m, r.pos)
<1>1. MadeLine(ls, P, o, o0, r.left, m) /\ KeptAt(ls, P, o, u, m)
    BY DEF AllMade
<1>2. MadeLine(ls, P, u, o0, left, m)
    BY <1>1, KeptMade
<1>3. ASSUME ls[m].kind = "file" PROVE IdRight(ls, P, u, u[P[m]].id, m, r.pos)
    <2>1. IdRight(ls, P, o, o[P[m]].id, m, r.pos)
        BY <1>3 DEF AllMade
    <2>2. u[P[m]].id = o[P[m]].id
        BY <1>1, MadeThere DEF KeptAt
    <2>3. \A k \in DOMAIN P : k < r.pos => KeptAt(ls, P, o, u, k) /\ P[k] \in DOMAIN o
        BY MadeThere
    <2> QED
        BY <2>1, <2>2, <2>3, KeptIds
<1> QED
    BY <1>2, <1>3

\* The run is where it was.
LEMMA SameMade ==
    ASSUME NEW ls, NEW P, NEW o, NEW u, NEW o0, NEW r, NEW x, Scene(ls, P, o, o0, r),
           \A m \in DOMAIN P : m < r.pos => KeptAt(ls, P, o, u, m),
           AllMade(ls, P, o, o0, r), x.pos = r.pos, x.left = r.left, x.errors = r.errors
    PROVE  AllMade(ls, P, u, o0, x)
BY BeforeMade DEF AllMade

\* One more line is made.
LEMMA NextMade ==
    ASSUME NEW ls, NEW P, NEW o, NEW u, NEW o0, NEW r, NEW x, Scene(ls, P, o, o0, r),
           \A m \in DOMAIN P : m < r.pos => KeptAt(ls, P, o, u, m),
           AllMade(ls, P, o, o0, r), x.pos = r.pos + 1, x.errors = r.errors,
           \A m \in DOMAIN P : m < r.pos => (P[m] \in x.left <=> P[m] \in r.left),
           r.pos \in DOMAIN P,
           ~ r.errors => MadeLine(ls, P, u, o0, x.left, r.pos),
           ~ r.errors /\ ls[r.pos].kind = "file" =>
              IdRight(ls, P, u, u[P[r.pos]].id, r.pos, r.pos)
    PROVE  AllMade(ls, P, u, o0, x)
<1> SUFFICES ASSUME ~ r.errors, NEW m \in DOMAIN P, m < r.pos + 1
             PROVE  /\ MadeLine(ls, P, u, o0, x.left, m)
                    /\ ls[m].kind = "file" => IdRight(ls, P, u, u[P[m]].id, m, r.pos + 1)
    BY DEF AllMade
<1>1. DOMAIN P \subseteq Nat /\ r.pos \in Nat
    BY SceneFacts
<1>2. \A k \in DOMAIN P : k < r.pos + 1 => k < r.pos \/ k = r.pos
    BY <1>1
<1>3. \A k \in DOMAIN P : k < r.pos =>
         /\ MadeLine(ls, P, u, o0, x.left, k)
         /\ ls[k].kind = "file" => IdRight(ls, P, u, u[P[k]].id, k, r.pos)
    BY BeforeMade
<1>4. ASSUME ls[m].kind = "file" PROVE IdRight(ls, P, u, u[P[m]].id, m, r.pos + 1)
    <2> SUFFICES ASSUME NEW k \in DOMAIN P, k < r.pos + 1, ls[k].kind = "file"
                 PROVE  SameFile(ls, k, m) <=> u[P[k]].id = u[P[m]].id
        BY DEF IdRight
    <2>1. CASE m < r.pos /\ k < r.pos
        BY <1>3, <1>4, <2>1 DEF IdRight
    <2>2. CASE m = r.pos /\ k = r.pos
        BY <2>2 DEF SameFile
    <2>3. CASE m = r.pos /\ k < r.pos
        BY <1>4, <2>3 DEF IdRight
    <2>4. CASE m < r.pos /\ k = r.pos
        <3>1. SameFile(ls, m, k) <=> u[P[m]].id = u[P[k]].id
            BY <1>4, <2>4 DEF IdRight
        <3> QED
            BY <3>1 DEF SameFile
    <2> QED
        BY <1>2, <2>1, <2>2, <2>3, <2>4
<1> QED
    BY <1>2, <1>3, <1>4


\* A directory that is there already was there before, or is one that an earlier
\* run has made.
LEMMA LeavesMade ==
    ASSUME NEW ls, NEW P, NEW o, NEW u, NEW o0, NEW r, NEW x, Scene(ls, P, o, o0, r),
           MadeInv(ls, P, o, o0, r), StepLeaves(ls[r.pos], o, u, r, x)
    PROVE  AllMade(ls, P, u, o0, x)
<1>1. /\ r.pos \in DOMAIN P /\ r.path = P[r.pos] /\ r.pos \in Nat /\ DOMAIN P \subseteq Nat
      /\ \A i, m \in DOMAIN P : m < i => P[m] # P[i] /\ P[m] # Tmpname(P[i])
    BY SceneFacts DEF StepLeaves, Busy
<1>2. /\ u = o /\ x.pos = r.pos + 1 /\ x.errors = r.errors /\ x.left = r.left \cup {r.path}
      /\ r.path \in DOMAIN o /\ ls[r.pos].kind = "dir" /\ r.pc = "make"
    BY DEF StepLeaves, Whole, Fields
<1>3. \A m \in DOMAIN P : m < r.pos => KeptAt(ls, P, o, u, m)
    BY <1>2 DEF KeptAt
<1>4. \A m \in DOMAIN P : m < r.pos => (P[m] \in x.left <=> P[m] \in r.left)
    BY <1>1, <1>2
<1>5. MadeLine(ls, P, u, o0, x.left, r.pos)
    <2> SUFFICES ASSUME P[r.pos] \notin DOMAIN o0
                 PROVE  o[P[r.pos]].kind = "dir" /\ o[P[r.pos]].data = <<>>
        BY <1>1, <1>2 DEF MadeLine
    <2>1. KnownName(ls, P, o, r, P[r.pos])
        BY <1>1, <1>2 DEF MadeInv, NamesInv, NamesKnown
    <2>2. ASSUME NEW m \in DOMAIN P, ~ Cleaned(r, m), P[r.pos] = Tmpname(P[m]) PROVE FALSE
        <3>1. r.pos < m
            BY <1>1, <1>2, <2>2 DEF Cleaned
        <3> QED
            BY <1>1, <2>2, <3>1
    <2>3. PICK i \in DOMAIN P : P[r.pos] = P[i] /\ o[P[r.pos]].kind = ls[i].kind
        BY <2>1, <2>2 DEF KnownName
    <2>4. i = r.pos
        <3>1. ~ (i < r.pos) /\ ~ (r.pos < i)
            BY <1>1, <2>3
        <3> QED
            BY <1>1, <3>1
    <2> QED
        BY <1>1, <1>2, <2>3, <2>4 DEF MadeInv, NewDirs
<1> QED
    BY <1>1, <1>2, <1>3, <1>4, <1>5, NextMade DEF MadeInv

LEMMA RenamesMade ==
    ASSUME NEW ls, NEW P, NEW o, NEW u, NEW o0, NEW r, NEW x, Scene(ls, P, o, o0, r),
           MadeInv(ls, P, o, o0, r), StepRenames(o, u, r, x),
           \A m \in DOMAIN P : m < r.pos => KeptAt(ls, P, o, u, m)
    PROVE  AllMade(ls, P, u, o0, x)
<1>1. /\ r.pos \in DOMAIN P /\ r.path = P[r.pos] /\ r.pos \in Nat
      /\ \A i, m \in DOMAIN P : m < i => P[m] # P[i]
    BY SceneFacts DEF StepRenames, Busy
<1>2. PICK t : t = Tmpname(r.path)
    OBVIOUS
<1>3. /\ x.pos = r.pos + 1 /\ x.errors = r.errors /\ x.left = r.left /\ r.pc = "rename"
      /\ DOMAIN u = (DOMAIN o \cup {P[r.pos]}) \ {t} /\ u[P[r.pos]] = o[t]
    BY <1>1, <1>2 DEF StepRenames, Whole, Fields
<1>4. P[r.pos] \in DOMAIN u
    <2>1. P[r.pos] # t
        BY <1>1, <1>2, SceneFacts, TmpnameOf
    <2> QED
        BY <1>3, <2>1
<1>5. P[r.pos] \notin r.left
    BY <1>1 DEF MadeInv, LeftDirs
<1>6. AllMade(ls, P, o, o0, r)
    BY DEF MadeInv
<1>7. ASSUME ~ r.errors PROVE MadeLine(ls, P, u, o0, x.left, r.pos)
    <2>1. MadeFrom(ls, o[t], r.pos)
        BY <1>2, <1>3, <1>7 DEF MadeInv, TempMade
    <2> QED
        BY <1>3, <1>4, <1>5, <2>1 DEF MadeLine
<1>8. ASSUME ~ r.errors, ls[r.pos].kind = "file"
      PROVE  IdRight(ls, P, u, u[P[r.pos]].id, r.pos, r.pos)
    <2>1. IdRight(ls, P, o, o[t].id, r.pos, r.pos)
        BY <1>2, <1>3, <1>8 DEF MadeInv, TempMade, Making
    <2>2. \A m \in DOMAIN P : m < r.pos => KeptAt(ls, P, o, u, m) /\ P[m] \in DOMAIN o
        BY <1>6, <1>8, MadeThere
    <2> QED
        BY <1>3, <2>1, <2>2, KeptIds
<1> QED
    BY <1>1, <1>3, <1>6, <1>7, <1>8, NextMade

LEMMA StepMade ==
    ASSUME NEW ls, NEW P, NEW o, NEW u, NEW o0, NEW r, NEW x, Scene(ls, P, o, o0, r),
           MadeInv(ls, P, o, o0, r), RunSteps(ls, P, o, u, r, x)
    PROVE  AllMade(ls, P, u, o0, x)
<1>1. \A m \in DOMAIN P : m < r.pos => KeptAt(ls, P, o, u, m)
    BY StepKeeps DEF MadeInv, TimesDue
<1>2. CASE StepFresh(o, u, x, "idle") \/ StepFresh(o, u, x, "read")
    <2>1. x.pos = 1 /\ DOMAIN P = 1 .. Len(P) /\ Len(P) \in Nat
        BY <1>2, SceneFacts DEF StepFresh, Whole, Fields
    <2>2. \A m \in DOMAIN P : ~ (m < x.pos)
        BY <2>1
    <2> QED
        BY <2>2 DEF AllMade
<1>3. CASE StepLeaves(ls[r.pos], o, u, r, x)
    BY <1>3, LeavesMade
<1>4. CASE StepErrs(ls[r.pos], o, u, r, x)
    BY <1>4 DEF StepErrs, Whole, AllMade
<1>5. CASE StepRenames(o, u, r, x)
    BY <1>1, <1>5, RenamesMade
<1>6. CASE ~ (StepFresh(o, u, x, "idle") \/ StepFresh(o, u, x, "read") \/ StepRenames(o, u, r, x)
              \/ StepLeaves(ls[r.pos], o, u, r, x) \/ StepErrs(ls[r.pos], o, u, r, x))
    <2>1. CASE \/ StepReads(P, o, u, r, x) \/ StepEnds(P, o, u, r, x) \/ StepDone(o, u, r, x)
               \/ StepFills(o, u, r, x) \/ StepCopied(ls[r.pos], o, u, r, x)
               \/ StepPutsOff(ls[r.pos], o, u, r, x) \/ StepTimes(ls[r.pos], o, u, r, x)
               \/ StepFixes(o, u, r, x)
        <3>1. x.pos = r.pos /\ x.left = r.left /\ x.errors = r.errors
            BY <2>1 DEF StepReads, StepEnds, StepDone, StepFills, StepCopied, StepPutsOff,
               StepTimes, StepFixes, Same, Whole, Fields
        <3> QED
            BY <1>1, <3>1, SameMade DEF MadeInv
    <2>2. ASSUME NEW n, NEW pc, StepMakes(o, u, r, x, n, pc) PROVE AllMade(ls, P, u, o0, x)
        <3>1. x.pos = r.pos /\ x.left = r.left /\ x.errors = r.errors
            BY <2>2 DEF StepMakes, Same, Whole, Fields
        <3> QED
            BY <1>1, <3>1, SameMade DEF MadeInv
    <2> QED
        BY <1>6, <2>1, <2>2 DEF RunSteps
<1> QED
    BY <1>2, <1>3, <1>4, <1>5, <1>6


\* No line gets an inode number that is not known.
LEMMA SameInodes ==
    ASSUME NEW ls, NEW P, NEW r, NEW x, InodesKnown(ls, P, r), x.inodes = r.inodes,
           \A m \in DOMAIN P : After(r, m, {"times", "rename"}) => After(x, m, {"times", "rename"}),
           \A m \in DOMAIN P : After(x, m, {"times", "rename"}) =>
              \/ After(r, m, {"times", "rename"})
              \/ ls[m].inode = None \/ ls[m].inode \in DOMAIN r.inodes,
           x.pc = "fill" => ls[x.pos].inode \notin DOMAIN x.inodes
    PROVE  InodesKnown(ls, P, x)
BY DEF InodesKnown

LEMMA CopiedInodes ==
    ASSUME NEW ls, NEW P, NEW o, NEW u, NEW o0, NEW r, NEW x, Scene(ls, P, o, o0, r),
           InodesKnown(ls, P, r), StepCopied(ls[r.pos], o, u, r, x)
    PROVE  InodesKnown(ls, P, x)
<1>1. r.pos \in DOMAIN P /\ r.path = P[r.pos] /\ r.pos \in Nat /\ DOMAIN P \subseteq Nat
    BY SceneFacts DEF StepCopied, Busy
<1>2. PICK n : n = ls[r.pos].inode
    OBVIOUS
<1>3. /\ x.pos = r.pos /\ x.pc = "times" /\ r.pc = "fill"
      /\ x.inodes = IF n = None THEN r.inodes ELSE Put(r.inodes, n, r.path)
    BY <1>2 DEF StepCopied, Whole, Fields
<1>4. /\ \A m \in DOMAIN P : After(r, m, {"times", "rename"}) => After(x, m, {"times", "rename"})
      /\ \A m \in DOMAIN P : After(x, m, {"times", "rename"}) =>
            After(r, m, {"times", "rename"}) \/ m = r.pos
    BY <1>3 DEF After
<1>5. CASE n = None
    <2>1. x.inodes = r.inodes
        BY <1>3, <1>5
    <2> QED
        BY <1>2, <1>3, <1>4, <1>5, <2>1, SameInodes
<1>6. CASE n # None
    <2>1. PICK f : f = Put(r.inodes, n, r.path)
        OBVIOUS
    <2>2. x.inodes = f
        BY <1>3, <1>6, <2>1
    <2>3. /\ DOMAIN f = DOMAIN r.inodes \cup {n} /\ f[n] = P[r.pos]
          /\ \A k \in DOMAIN r.inodes : k # n => f[k] = r.inodes[k]
        BY <1>1, <2>1 DEF Put
    <2>4. n \notin DOMAIN r.inodes
        BY <1>2, <1>3 DEF InodesKnown
    <2>5. \A i \in DOMAIN P : ls[i].inode = n => r.pos <= i
        <3> SUFFICES ASSUME NEW i \in DOMAIN P, ls[i].inode = n, i < r.pos PROVE FALSE
            BY <1>1
        <3>1. After(r, i, {"times", "rename"})
            BY DEF After
        <3> QED
            BY <1>6, <2>4, <3>1 DEF InodesKnown
    <2>6. After(x, r.pos, {"times", "rename"})
        BY <1>3 DEF After
    <2>7. ASSUME NEW k \in DOMAIN f
          PROVE  \E m \in DOMAIN P :
                    /\ f[k] = P[m] /\ ls[m].inode = k /\ After(x, m, {"times", "rename"})
                    /\ \A i \in DOMAIN P : ls[i].inode = k => m <= i
        <3>1. CASE k = n
            BY <1>1, <1>2, <2>3, <2>5, <2>6, <3>1
        <3>2. CASE k # n
            <4>1. k \in DOMAIN r.inodes /\ f[k] = r.inodes[k]
                BY <2>3, <3>2
            <4>2. PICK m \in DOMAIN P :
                     /\ r.inodes[k] = P[m] /\ ls[m].inode = k /\ After(r, m, {"times", "rename"})
                     /\ \A i \in DOMAIN P : ls[i].inode = k => m <= i
                BY <4>1 DEF InodesKnown
            <4> QED
                BY <1>4, <4>1, <4>2
        <3> QED
            BY <3>1, <3>2
    <2>8. \A m \in DOMAIN P :
             ls[m].inode # None /\ After(x, m, {"times", "rename"}) => ls[m].inode \in DOMAIN f
        BY <1>2, <1>4, <2>3 DEF InodesKnown
    <2> QED
        BY <1>3, <2>2, <2>7, <2>8 DEF InodesKnown
<1> QED
    BY <1>5, <1>6

LEMMA StepInodes ==
    ASSUME NEW ls, NEW P, NEW o, NEW u, NEW o0, NEW r, NEW x, Scene(ls, P, o, o0, r),
           InodesKnown(ls, P, r), RunSteps(ls, P, o, u, r, x)
    PROVE  InodesKnown(ls, P, x)
<1>1. /\ DOMAIN P \subseteq Nat \ {0} /\ r.pos \in Nat
      /\ \A m \in DOMAIN P : ls[m].inode # None => ls[m].kind = "file"
    <2>1. DOMAIN P = 1 .. Len(P) /\ Len(P) \in Nat /\ r.pos \in Nat
        BY SceneFacts
    <2> QED
        BY <2>1 DEF Scene, ParentsListed
<1>2. \A m \in DOMAIN P : m < r.pos + 1 <=> m < r.pos \/ m = r.pos
    BY <1>1
<1>3. CASE StepFresh(o, u, x, "idle") \/ StepFresh(o, u, x, "read")
    <2>1. x.pos = 1 /\ x.pc \in {"idle", "read"} /\ DOMAIN x.inodes = {}
        BY <1>3 DEF StepFresh, Whole, Fields, EmptyMap
    <2>2. \A m \in DOMAIN P : ~ After(x, m, {"times", "rename"})
        BY <1>1, <2>1 DEF After
    <2> QED
        BY <2>1, <2>2 DEF InodesKnown
<1>4. CASE \/ StepReads(P, o, u, r, x) \/ StepEnds(P, o, u, r, x) \/ StepDone(o, u, r, x)
           \/ StepFixes(o, u, r, x) \/ StepPutsOff(ls[r.pos], o, u, r, x)
           \/ StepTimes(ls[r.pos], o, u, r, x)
    <2>1. /\ x.inodes = r.inodes /\ x.pos = r.pos /\ x.pc # "fill"
          /\ x.pc \in {"times", "rename"} <=> r.pc \in {"times", "rename"}
        BY <1>4 DEF StepReads, StepEnds, StepDone, StepFixes, StepPutsOff, StepTimes, Same,
           Whole, Fields
    <2> QED
        BY <2>1, SameInodes DEF After
<1>5. CASE StepFills(o, u, r, x)
    BY <1>5 DEF StepFills
<1>6. CASE StepCopied(ls[r.pos], o, u, r, x)
    BY <1>6, CopiedInodes
<1>7. CASE StepRenames(o, u, r, x)
    <2>1. /\ x.inodes = r.inodes /\ x.pos = r.pos + 1 /\ x.pc = "read" /\ r.pc = "rename"
        BY <1>7 DEF StepRenames, Whole, Fields
    <2> QED
        BY <1>2, <2>1, SameInodes DEF After
<1>8. CASE StepLeaves(ls[r.pos], o, u, r, x) \/ StepErrs(ls[r.pos], o, u, r, x)
    <2>1. /\ x.inodes = r.inodes /\ x.pos = r.pos + 1 /\ x.pc = "read" /\ r.pc = "make"
          /\ ls[r.pos].kind # "file"
        BY <1>8 DEF StepLeaves, StepErrs, Whole, Fields
    <2>2. \A m \in DOMAIN P : m = r.pos => ls[m].inode = None
        BY <1>1, <2>1
    <2> QED
        BY <1>2, <2>1, <2>2, SameInodes DEF After
<1>9. ASSUME NEW n, NEW pc \in {"fill", "times", "rename"}, StepMakes(o, u, r, x, n, pc),
             pc = "fill" => ls[r.pos].inode \notin DOMAIN r.inodes,
             pc # "fill" => ls[r.pos].inode = None \/ ls[r.pos].inode \in DOMAIN r.inodes
      PROVE  InodesKnown(ls, P, x)
    <2>1. x.inodes = r.inodes /\ x.pos = r.pos /\ x.pc = pc /\ r.pc = "make"
        BY <1>9 DEF StepMakes, Same, Whole, Fields
    <2> QED
        BY <1>9, <2>1, SameInodes DEF After
<1>10. ASSUME NEW n, StepMakes(o, u, r, x, n, "times"), OtherNode(ls[r.pos], n)
       PROVE  ls[r.pos].inode = None
    <2>1. r.pos \in DOMAIN P
        BY <1>10, SceneFacts DEF StepMakes, Busy
    <2> QED
        BY <1>1, <1>10, <2>1 DEF OtherNode
<1> QED
    BY <1>3, <1>4, <1>5, <1>6, <1>7, <1>8, <1>9, <1>10 DEF RunSteps, LinkNode, FileNode


LEMMA StepLeft ==
    ASSUME NEW ls, NEW P, NEW o, NEW u, NEW o0, NEW r, NEW x, Scene(ls, P, o, o0, r),
           LeftDirs(ls, P, r), RunSteps(ls, P, o, u, r, x)
    PROVE  LeftDirs(ls, P, x)
<1>1. DOMAIN P \subseteq Nat /\ r.pos \in Nat
    BY SceneFacts
<1>2. ASSUME x.left = r.left, x.pos = r.pos \/ x.pos = r.pos + 1 PROVE LeftDirs(ls, P, x)
    <2>1. \A m \in DOMAIN P : m < r.pos => m < x.pos
        BY <1>1, <1>2
    <2> QED
        BY <1>2, <2>1 DEF LeftDirs
<1>3. CASE StepFresh(o, u, x, "idle") \/ StepFresh(o, u, x, "read")
    BY <1>3 DEF StepFresh, Whole, LeftDirs
<1>4. CASE StepLeaves(ls[r.pos], o, u, r, x)
    <2>1. /\ x.left = r.left \cup {r.path} /\ x.pos = r.pos + 1 /\ ls[r.pos].kind = "dir"
          /\ r.pos \in DOMAIN P /\ r.path = P[r.pos]
        BY <1>4, SceneFacts DEF StepLeaves, Whole, Fields, Busy
    <2>2. r.pos < x.pos /\ \A m \in DOMAIN P : m < r.pos => m < x.pos
        BY <1>1, <2>1
    <2> QED
        BY <2>1, <2>2 DEF LeftDirs
<1>5. CASE \/ StepReads(P, o, u, r, x) \/ StepEnds(P, o, u, r, x) \/ StepDone(o, u, r, x)
           \/ StepFills(o, u, r, x) \/ StepCopied(ls[r.pos], o, u, r, x)
           \/ StepPutsOff(ls[r.pos], o, u, r, x) \/ StepTimes(ls[r.pos], o, u, r, x)
           \/ StepFixes(o, u, r, x)
    BY <1>2, <1>5 DEF StepReads, StepEnds, StepDone, StepFills, StepCopied, StepPutsOff,
       StepTimes, StepFixes, Same, Whole, Fields
<1>6. CASE StepErrs(ls[r.pos], o, u, r, x) \/ StepRenames(o, u, r, x)
    BY <1>2, <1>6 DEF StepErrs, StepRenames, Whole, Fields
<1>7. ASSUME NEW n, NEW pc, StepMakes(o, u, r, x, n, pc) PROVE LeftDirs(ls, P, x)
    BY <1>2, <1>7 DEF StepMakes, Same, Whole, Fields
<1> QED
    BY <1>3, <1>4, <1>5, <1>6, <1>7 DEF RunSteps

\* Nothing happens to the directories and to what is noted of them.
LEMMA SameDue ==
    ASSUME NEW ls, NEW P, NEW o, NEW u, NEW r, NEW x, TimesDue(ls, P, o, r),
           x.dirtimes = r.dirtimes, r.left \subseteq x.left, ~ x.errors => ~ r.errors,
           r.pc \notin {"fix", "done"} \/ (u = o /\ x.pc \in {"fix", "done"}),
           x.pc = "done" => x.dirtimes = <<>>,
           \A m \in DOMAIN P : ls[m].kind = "dir" /\ After(x, m, {"rename"}) =>
              After(r, m, {"rename"}) \/ P[m] \in x.left
    PROVE  TimesDue(ls, P, u, x)
<1>1. OfDirs(ls, P, x.dirtimes)
    BY DEF TimesDue
<1> SUFFICES ASSUME ~ x.errors, NEW m \in DOMAIN P, ls[m].kind = "dir", P[m] \notin x.left,
                    After(x, m, {"rename"})
             PROVE  \/ Due(ls, P, x.dirtimes, m)
                    \/ x.pc \in {"fix", "done"} /\ u[P[m]].mtime = ls[m].mtime
    BY <1>1 DEF TimesDue
<1>2. ~ r.errors /\ P[m] \notin r.left /\ After(r, m, {"rename"})
    OBVIOUS
<1>3. \/ Due(ls, P, r.dirtimes, m)
      \/ r.pc \in {"fix", "done"} /\ o[P[m]].mtime = ls[m].mtime
    BY <1>2 DEF TimesDue
<1> QED
    BY <1>3


LEMMA PutsOffDue ==
    ASSUME NEW ls, NEW P, NEW o, NEW u, NEW o0, NEW r, NEW x, Scene(ls, P, o, o0, r),
           TimesDue(ls, P, o, r), StepPutsOff(ls[r.pos], o, u, r, x)
    PROVE  TimesDue(ls, P, u, x)
<1>1. r.pos \in DOMAIN P /\ r.path = P[r.pos] /\ IsSeq(r.dirtimes)
    BY SceneFacts DEF StepPutsOff, Busy, Scene, RestInv
<1>2. PICK e, times : /\ e = [dir |-> P[r.pos], mtime |-> ls[r.pos].mtime]
                      /\ times = Append(r.dirtimes, e)
    OBVIOUS
<1>3. /\ x.dirtimes = times /\ x.pos = r.pos /\ x.left = r.left /\ x.errors = r.errors
      /\ x.pc = "rename" /\ r.pc = "times" /\ ls[r.pos].kind = "dir"
    BY <1>1, <1>2 DEF StepPutsOff, Whole, Fields
<1>4. PICK n : n = Len(r.dirtimes) + 1
    OBVIOUS
<1>5. /\ DOMAIN times = 1 .. n /\ n \in DOMAIN times /\ times[n] = e
      /\ \A i \in DOMAIN r.dirtimes : i \in DOMAIN times /\ times[i] = r.dirtimes[i]
      /\ \A i \in DOMAIN times : i = n \/ i \in DOMAIN r.dirtimes
    <2>1. /\ Len(r.dirtimes) \in Nat /\ DOMAIN r.dirtimes = 1 .. Len(r.dirtimes)
        BY <1>1, SeqLength DEF IsSeq
    <2>2. /\ DOMAIN times = 1 .. n /\ times[n] = e
          /\ \A i \in DOMAIN r.dirtimes : times[i] = r.dirtimes[i]
        BY <1>1, <1>2, <1>4, AppendSeq
    <2> QED
        BY <1>4, <2>1, <2>2
<1>6. OfDirs(ls, P, times)
    <2>1. OfDirs(ls, P, r.dirtimes)
        BY DEF TimesDue
    <2> QED
        BY <1>1, <1>2, <1>3, <1>5, <2>1 DEF OfDirs
<1>7. ASSUME NEW m \in DOMAIN P, Due(ls, P, r.dirtimes, m) \/ m = r.pos
      PROVE  Due(ls, P, times, m)
    BY <1>2, <1>5, <1>7 DEF Due
<1>8. ASSUME ~ x.errors, NEW m \in DOMAIN P, ls[m].kind = "dir", P[m] \notin x.left,
             After(x, m, {"rename"})
      PROVE  Due(ls, P, times, m)
    <2>1. CASE m = r.pos
        BY <1>7, <2>1
    <2>2. CASE m < r.pos
        <3>1. After(r, m, {"rename"})
            BY <2>2 DEF After
        <3>2. Due(ls, P, r.dirtimes, m)
            BY <1>3, <1>8, <3>1 DEF TimesDue
        <3> QED
            BY <1>7, <3>2
    <2> QED
        BY <1>3, <1>8, <2>1, <2>2 DEF After
<1> QED
    BY <1>3, <1>6, <1>8 DEF TimesDue

LEMMA FixesDue ==
    ASSUME NEW ls, NEW P, NEW o, NEW u, NEW o0, NEW r, NEW x, Scene(ls, P, o, o0, r),
           TimesDue(ls, P, o, r), AllMade(ls, P, o, o0, r), StepFixes(o, u, r, x)
    PROVE  TimesDue(ls, P, u, x)
<1>1. PICK d, S : r.dirtimes \in Seq(S) /\ d = r.dirtimes[1] /\ r.dirtimes # <<>>
    BY DEF Scene, RestInv, IsSeq, StepFixes
<1>2. PICK times : times = Tail(r.dirtimes)
    OBVIOUS
<1>3. /\ x.dirtimes = times /\ x.pos = r.pos /\ x.left = r.left /\ x.errors = r.errors
      /\ x.pc = "fix" /\ r.pc = "fix"
    BY <1>2 DEF StepFixes, Whole, Fields
<1>4. /\ 1 \in DOMAIN r.dirtimes /\ Len(times) = Len(r.dirtimes) - 1
      /\ \A i \in DOMAIN times : i \in Nat \ {0} /\ i + 1 \in DOMAIN r.dirtimes /\ times[i] = r.dirtimes[i + 1]
    BY <1>1, <1>2, TailSeq
<1>5. \A i \in DOMAIN r.dirtimes : i = 1 \/ (i - 1 \in DOMAIN times /\ times[i - 1] = r.dirtimes[i])
    <2>1. /\ Len(r.dirtimes) \in Nat /\ DOMAIN r.dirtimes = 1 .. Len(r.dirtimes)
          /\ times \in Seq(S)
        BY <1>1, <1>2, SeqLength, TailSeq
    <2>2. DOMAIN times = 1 .. Len(times)
        BY <2>1, SeqLength
    <2>3. \A i \in DOMAIN r.dirtimes : i = 1 \/ i - 1 \in DOMAIN times
        BY <1>4, <2>1, <2>2
    <2>4. \A i \in DOMAIN r.dirtimes : (i - 1) + 1 = i
        BY <2>1
    <2> QED
        BY <1>4, <2>3, <2>4
<1>6. PICK k \in DOMAIN P : ls[k].kind = "dir" /\ d = [dir |-> P[k], mtime |-> ls[k].mtime]
    BY <1>1, <1>4 DEF TimesDue, OfDirs
<1>7. OfDirs(ls, P, times)
    <2>1. \A i \in DOMAIN times : \E j \in DOMAIN r.dirtimes : times[i] = r.dirtimes[j]
        BY <1>4
    <2>2. OfDirs(ls, P, r.dirtimes)
        BY DEF TimesDue
    <2>3. PICK f : f = r.dirtimes
        OBVIOUS
    <2>4. ASSUME NEW i \in DOMAIN times
          PROVE  \E m \in DOMAIN P :
                    ls[m].kind = "dir" /\ times[i] = [dir |-> P[m], mtime |-> ls[m].mtime]
        <3>1. PICK j \in DOMAIN f : times[i] = f[j]
            BY <2>1, <2>3
        <3>2. PICK m \in DOMAIN P : ls[m].kind = "dir" /\ f[j] = [dir |-> P[m], mtime |-> ls[m].mtime]
            BY <2>2, <2>3 DEF OfDirs
        <3> QED
            BY <3>1, <3>2
    <2> QED
        BY <2>4 DEF OfDirs
<1>8. ASSUME ~ x.errors, NEW m \in DOMAIN P, ls[m].kind = "dir", P[m] \notin x.left,
             After(x, m, {"rename"})
      PROVE  Due(ls, P, times, m) \/ u[P[m]].mtime = ls[m].mtime
    <2>1. After(r, m, {"rename"}) /\ m < r.pos
        BY <1>3, <1>8 DEF After
    <2>2. P[m] \in DOMAIN o
        BY <1>3, <1>8, <2>1, MadeThere
    <2>3. d.dir = P[k] /\ d.mtime = ls[k].mtime
        BY <1>6
    <2>4. u[P[m]].mtime = IF P[m] = P[k] THEN ls[k].mtime ELSE o[P[m]].mtime
        BY <1>1, <2>2, <2>3 DEF StepFixes
    <2>5. P[m] = P[k] => m = k
        <3>1. m \in Nat /\ k \in Nat
            BY SceneFacts
        <3>2. m < k => P[m] # P[k]
            BY SceneFacts
        <3>3. k < m => P[m] # P[k]
            BY SceneFacts
        <3> QED
            BY <3>1, <3>2, <3>3
    <2>6. CASE P[m] = P[k]
        BY <2>4, <2>5, <2>6
    <2>7. CASE P[m] # P[k]
        <3>1. Due(ls, P, r.dirtimes, m) \/ o[P[m]].mtime = ls[m].mtime
            BY <1>3, <1>8, <2>1 DEF TimesDue
        <3>2. ASSUME NEW i \in DOMAIN r.dirtimes,
                     r.dirtimes[i] = [dir |-> P[m], mtime |-> ls[m].mtime]
              PROVE  Due(ls, P, times, m)
            <4>1. r.dirtimes[i].dir = P[m]
                BY <3>2
            <4>2. i # 1
                BY <1>1, <2>3, <2>7, <4>1
            <4> QED
                BY <1>5, <3>2, <4>2 DEF Due
        <3> QED
            BY <2>4, <2>7, <3>1, <3>2 DEF Due
    <2> QED
        BY <2>6, <2>7
<1> QED
    BY <1>3, <1>7, <1>8 DEF TimesDue

LEMMA StepDue ==
    ASSUME NEW ls, NEW P, NEW o, NEW u, NEW o0, NEW r, NEW x, Scene(ls, P, o, o0, r),
           MadeInv(ls, P, o, o0, r), RunSteps(ls, P, o, u, r, x)
    PROVE  TimesDue(ls, P, u, x)
<1>0. TimesDue(ls, P, o, r) /\ AllMade(ls, P, o, o0, r)
    BY DEF MadeInv
<1>1. DOMAIN P \subseteq Nat \ {0} /\ r.pos \in Nat
    <2>1. DOMAIN P = 1 .. Len(P) /\ Len(P) \in Nat /\ r.pos \in Nat
        BY SceneFacts
    <2> QED
        BY <2>1
<1>2. \A m \in DOMAIN P : m < r.pos + 1 <=> m < r.pos \/ m = r.pos
    BY <1>1
<1>3. CASE StepFresh(o, u, x, "idle") \/ StepFresh(o, u, x, "read")
    <2>1. x.pos = 1 /\ x.pc \in {"idle", "read"} /\ x.dirtimes = <<>>
        BY <1>3 DEF StepFresh, Whole, Fields
    <2>2. \A m \in DOMAIN P : ~ After(x, m, {"rename"})
        BY <1>1, <2>1 DEF After
    <2>3. OfDirs(ls, P, x.dirtimes)
        BY <2>1 DEF OfDirs
    <2> QED
        BY <2>1, <2>2, <2>3 DEF TimesDue
<1>4. CASE StepPutsOff(ls[r.pos], o, u, r, x)
    BY <1>0, <1>4, PutsOffDue
<1>5. CASE StepFixes(o, u, r, x)
    BY <1>0, <1>5, FixesDue
<1>6. CASE \/ StepReads(P, o, u, r, x) \/ StepEnds(P, o, u, r, x)
           \/ StepFills(o, u, r, x) \/ StepCopied(ls[r.pos], o, u, r, x)
    <2>1. /\ x.dirtimes = r.dirtimes /\ x.pos = r.pos /\ x.left = r.left /\ x.errors = r.errors
          /\ r.pc \notin {"fix", "done"} /\ x.pc \notin {"rename", "done"}
        BY <1>6 DEF StepReads, StepEnds, StepFills, StepCopied, Same, Whole, Fields
    <2> QED
        BY <1>0, <2>1, SameDue DEF After
<1>7. CASE StepDone(o, u, r, x)
    <2>1. /\ x.dirtimes = r.dirtimes /\ x.pos = r.pos /\ x.left = r.left /\ x.errors = r.errors
          /\ u = o /\ x.pc = "done" /\ r.dirtimes = <<>>
        BY <1>7 DEF StepDone, Same, Whole, Fields
    <2> QED
        BY <1>0, <2>1, SameDue DEF After
<1>8. CASE StepTimes(ls[r.pos], o, u, r, x)
    <2>1. /\ x.dirtimes = r.dirtimes /\ x.pos = r.pos /\ x.left = r.left /\ x.errors = r.errors
          /\ r.pc = "times" /\ x.pc = "rename" /\ ls[r.pos].kind # "dir"
        BY <1>8 DEF StepTimes, Same, Whole, Fields
    <2> QED
        BY <1>0, <2>1, SameDue DEF After
<1>9. CASE StepRenames(o, u, r, x)
    <2>1. /\ x.dirtimes = r.dirtimes /\ x.pos = r.pos + 1 /\ x.left = r.left /\ x.errors = r.errors
          /\ r.pc = "rename" /\ x.pc = "read"
        BY <1>9 DEF StepRenames, Whole, Fields
    <2> QED
        BY <1>0, <1>2, <2>1, SameDue DEF After
<1>10. CASE StepLeaves(ls[r.pos], o, u, r, x)
    <2>1. /\ x.dirtimes = r.dirtimes /\ x.pos = r.pos + 1 /\ x.left = r.left \cup {r.path}
          /\ x.errors = r.errors /\ r.pc = "make" /\ x.pc = "read"
        BY <1>10 DEF StepLeaves, Whole, Fields
    <2>2. r.path = P[r.pos]
        BY <2>1, SceneFacts DEF Busy
    <2> QED
        BY <1>0, <1>2, <2>1, <2>2, SameDue DEF After
<1>11. CASE StepErrs(ls[r.pos], o, u, r, x)
    <2>1. /\ x.dirtimes = r.dirtimes /\ x.errors /\ r.pc = "make" /\ x.pc = "read"
        BY <1>11 DEF StepErrs, Whole, Fields
    <2> QED
        BY <1>0, <2>1 DEF TimesDue
<1>12. ASSUME NEW n, NEW pc \in {"fill", "times", "rename"}, StepMakes(o, u, r, x, n, pc),
              pc = "rename" => ls[r.pos].kind # "dir"
       PROVE  TimesDue(ls, P, u, x)
    <2>1. /\ x.dirtimes = r.dirtimes /\ x.pos = r.pos /\ x.left = r.left /\ x.errors = r.errors
          /\ r.pc = "make" /\ x.pc = pc
        BY <1>12 DEF StepMakes, Same, Whole, Fields
    <2> QED
        BY <1>0, <1>12, <2>1, SameDue DEF After
<1>13. ASSUME NEW n, StepMakes(o, u, r, x, n, "rename"), LinkNode(ls[r.pos], o, r, n)
       PROVE  ls[r.pos].kind # "dir"
    BY <1>13, LinkKind DEF StepMakes
<1> QED
    BY <1>3, <1>4, <1>5, <1>6, <1>7, <1>8, <1>9, <1>10, <1>11, <1>12, <1>13 DEF RunSteps


LEMMA StepFinite ==
    ASSUME NEW ls, NEW P, NEW o, NEW u, NEW o0, NEW r, NEW x, Scene(ls, P, o, o0, r),
           IsFiniteSet(DOMAIN o), RunSteps(ls, P, o, u, r, x)
    PROVE  IsFiniteSet(DOMAIN u)
<1>1. \E p : DOMAIN u \subseteq DOMAIN o \cup {p}
    BY DEF RunSteps, StepReads, StepEnds, StepFresh, StepMakes, StepLeaves, StepErrs, StepFills,
       StepCopied, StepPutsOff, StepTimes, StepRenames, StepFixes, StepDone
<1>2. PICK p : DOMAIN u \subseteq DOMAIN o \cup {p}
    BY <1>1
<1>3. IsFiniteSet(DOMAIN o \cup {p})
    BY FS_AddElement
<1> QED
    BY <1>2, <1>3, FS_Subset

\* What is new in X is no directory with contents.
LEMMA FrameDirs ==
    ASSUME NEW o, NEW u, NEW o0, NEW X, NewDirs(o, o0), Frame(o, u, X),
           \A q \in X : q \in DOMAIN u /\ u[q].kind = "dir" => u[q].data = <<>>
    PROVE  NewDirs(u, o0)
<1>1. \A q \in DOMAIN u : q \notin X =>
         q \in DOMAIN o /\ u[q].kind = o[q].kind /\ u[q].data = o[q].data
    BY DEF Frame
<1> QED
    BY <1>1 DEF NewDirs

LEMMA StepDirs ==
    ASSUME NEW ls, NEW P, NEW o, NEW u, NEW o0, NEW r, NEW x, Scene(ls, P, o, o0, r),
           MadeInv(ls, P, o, o0, r), RunSteps(ls, P, o, u, r, x)
    PROVE  NewDirs(u, o0)
<1>0. NewDirs(o, o0)
    BY DEF MadeInv
<1>1. PICK t : t = Tmpname(r.path)
    OBVIOUS
<1>2. r.pc \in Making /\ o[t].kind = "dir" => o[t].data = <<>>
    BY <1>1 DEF MadeInv, TempMade
<1>3. CASE u = o
    BY <1>0, <1>3
<1>4. CASE StepReads(P, o, u, r, x)
    <2>1. CASE u = o
        BY <1>3, <2>1
    <2>2. PICK q : q = Tmpname(P[r.pos])
        OBVIOUS
    <2>3. CASE Frame(o, u, {q}) /\ DOMAIN u = DOMAIN o \ {q}
        BY <1>0, <2>3, FrameDirs
    <2> QED
        BY <1>4, <2>1, <2>2, <2>3 DEF StepReads
<1>5. ASSUME NEW n, NEW pc, StepMakes(o, u, r, x, n, pc), n.kind = "dir" => n.data = <<>>
      PROVE  NewDirs(u, o0)
    <2>1. Frame(o, u, {t}) /\ u[t] = n
        BY <1>1, <1>5 DEF StepMakes
    <2> QED
        BY <1>0, <1>5, <2>1, FrameDirs
<1>6. ASSUME NEW n, StepMakes(o, u, r, x, n, "rename"), LinkNode(ls[r.pos], o, r, n)
      PROVE  NewDirs(u, o0)
    <2>1. n.kind = "file"
        BY <1>6, LinkKind DEF StepMakes
    <2> QED
        BY <1>5, <1>6, <2>1
<1>7. CASE StepFills(o, u, r, x)
    <2>1. Frame(o, u, {t}) /\ u[t].kind = o[t].kind
        BY <1>1, <1>7 DEF StepFills
    <2>2. o[t].kind = "file"
        BY <1>1, <1>7 DEF StepFills, Scene, RestInv, Temp
    <2> QED
        BY <1>0, <2>1, <2>2, FrameDirs
<1>8. CASE StepTimes(ls[r.pos], o, u, r, x)
    <2>1. Frame(o, u, {t}) /\ u[t].kind = o[t].kind /\ u[t].data = o[t].data /\ r.pc \in Making
        BY <1>1, <1>8 DEF StepTimes, Making
    <2> QED
        BY <1>0, <1>2, <2>1, FrameDirs
<1>9. CASE StepRenames(o, u, r, x)
    <2>1. PICK p : p = r.path
        OBVIOUS
    <2>2. /\ Frame(o, u, {t, p}) /\ u[p] = o[t] /\ t \notin DOMAIN u /\ r.pc \in Making
        BY <1>1, <1>9, <2>1 DEF StepRenames, Making
    <2> QED
        BY <1>0, <1>2, <2>2, FrameDirs
<1>10. CASE StepFixes(o, u, r, x)
    <2>1. \A q \in DOMAIN u : q \in DOMAIN o /\ u[q].kind = o[q].kind /\ u[q].data = o[q].data
        BY <1>10 DEF StepFixes
    <2> QED
        BY <1>0, <2>1 DEF NewDirs
<1>11. CASE \/ StepEnds(P, o, u, r, x) \/ StepFresh(o, u, x, "idle") \/ StepFresh(o, u, x, "read")
            \/ StepLeaves(ls[r.pos], o, u, r, x) \/ StepErrs(ls[r.pos], o, u, r, x)
            \/ StepCopied(ls[r.pos], o, u, r, x) \/ StepPutsOff(ls[r.pos], o, u, r, x)
            \/ StepDone(o, u, r, x)
    BY <1>3, <1>11 DEF StepEnds, StepFresh, StepLeaves, StepErrs, StepCopied, StepPutsOff, StepDone
<1> QED
    BY <1>4, <1>5, <1>6, <1>7, <1>8, <1>9, <1>10, <1>11 DEF RunSteps, FileNode, OtherNode

\* A link is made of what the first line of the inode was made into.
LEMMA LinkMade ==
    ASSUME NEW ls, NEW P, NEW o, NEW u, NEW o0, NEW r, NEW n, Scene(ls, P, o, o0, r),
           MadeInv(ls, P, o, o0, r), r.pc = "make", LinkNode(ls[r.pos], o, r, n), ~ r.errors
    PROVE  /\ MadeFrom(ls, n, r.pos)
           /\ ls[r.pos].kind = "file" => IdRight(ls, P, o, n.id, r.pos, r.pos)
<1>1. /\ r.pos \in DOMAIN P /\ r.pos \in Nat /\ DOMAIN P \subseteq Nat /\ DOMAIN ls = DOMAIN P
      /\ \A i, m \in DOMAIN P : m < i => P[m] # P[i]
    BY SceneFacts DEF Busy
<1>2. PICK k \in DOMAIN r.inodes : k = ls[r.pos].inode /\ n = o[r.inodes[k]]
    BY DEF LinkNode
<1>3. PICK m \in DOMAIN P : /\ r.inodes[k] = P[m] /\ ls[m].inode = k /\ m < r.pos
    <2>1. \E m \in DOMAIN P : r.inodes[k] = P[m] /\ ls[m].inode = k /\ After(r, m, {"times", "rename"})
        BY DEF MadeInv, InodesKnown
    <2> QED
        BY <2>1 DEF After
<1>4. k # None
    BY DEF Scene, RestInv, Linked
<1>5. ls[m].kind = "file"
    BY <1>3, <1>4 DEF Scene, ParentsListed
<1>6. P[m] \notin r.left
    <2> SUFFICES ASSUME P[m] \in r.left PROVE FALSE
        OBVIOUS
    <2>1. PICK i \in DOMAIN P : P[m] = P[i] /\ ls[i].kind = "dir"
        BY DEF MadeInv, LeftDirs
    <2>2. ~ (i < m) /\ ~ (m < i)
        BY <1>1, <2>1
    <2>3. i = m
        BY <1>1, <2>2
    <2> QED
        BY <1>5, <2>1, <2>3
<1>7. /\ MadeLine(ls, P, o, o0, r.left, m)
      /\ IdRight(ls, P, o, n.id, m, r.pos)
    BY <1>2, <1>3, <1>5 DEF MadeInv, AllMade
<1>8. MadeFrom(ls, n, m)
    BY <1>2, <1>3, <1>6, <1>7 DEF MadeLine
<1>9. MadeFrom(ls, n, r.pos)
    <2>1. \A s \in DOMAIN ls : FirstLine(ls, s, m) => FirstLine(ls, s, r.pos)
        BY <1>2, <1>3, <1>4 DEF FirstLine
    <2> QED
        BY <1>8, <2>1 DEF MadeFrom
<1>10. IdRight(ls, P, o, n.id, r.pos, r.pos)
    <2>1. \A i \in DOMAIN P : i < r.pos => (SameFile(ls, i, r.pos) <=> SameFile(ls, i, m))
        BY <1>1, <1>2, <1>3, <1>4 DEF SameFile
    <2> QED
        BY <1>7, <2>1 DEF IdRight
<1> QED
    BY <1>9, <1>10

\* A file that is made has an id of its own, and none of its inode was made before.
LEMMA FreshMade ==
    ASSUME NEW ls, NEW P, NEW o, NEW o0, NEW r, NEW n, Scene(ls, P, o, o0, r),
           MadeInv(ls, P, o, o0, r), r.pc = "make", FileNode(ls[r.pos], o, r, n), ~ r.errors
    PROVE  IdRight(ls, P, o, n.id, r.pos, r.pos)
<1> SUFFICES ASSUME NEW m \in DOMAIN P, m < r.pos
             PROVE  ~ SameFile(ls, m, r.pos) /\ o[P[m]].id # n.id
    BY DEF IdRight
<1>1. r.pos \in Nat /\ DOMAIN P \subseteq Nat
    BY SceneFacts
<1>2. P[m] \in DOMAIN o
    BY MadeThere DEF MadeInv
<1>3. o[P[m]].id # n.id
    BY <1>2 DEF FileNode, MadeInv
<1>4. ls[m].inode # None => ls[m].inode \in DOMAIN r.inodes
    BY DEF MadeInv, InodesKnown, After
<1>5. m # r.pos
    BY <1>1
<1> QED
    BY <1>3, <1>4, <1>5 DEF SameFile, FileNode


\* The temporary file of the line goes on as it was.
LEMMA MakesTemp ==
    ASSUME NEW ls, NEW P, NEW o, NEW u, NEW o0, NEW r, NEW x, NEW n, NEW pc \in Making,
           Scene(ls, P, o, o0, r), MadeInv(ls, P, o, o0, r), StepMakes(o, u, r, x, n, pc),
           \A m \in DOMAIN P : m < r.pos => KeptAt(ls, P, o, u, m),
           n.kind = "dir" => n.data = <<>>,
           pc = "times" => FirstLine(ls, r.pos, r.pos) /\ IsMade(ls[r.pos], n),
           ~ r.errors /\ pc = "rename" => MadeFrom(ls, n, r.pos),
           ~ r.errors /\ ls[r.pos].kind = "file" => IdRight(ls, P, o, n.id, r.pos, r.pos)
    PROVE  TempMade(ls, P, u, x)
<1>1. x.pc = pc /\ x.pos = r.pos /\ x.path = r.path /\ x.errors = r.errors
    BY DEF StepMakes, Same, Whole, Fields
<1>2. u[Tmpname(x.path)] = n
    BY <1>1 DEF StepMakes
<1>3. ASSUME ~ r.errors, ls[r.pos].kind = "file"
      PROVE  IdRight(ls, P, u, n.id, r.pos, r.pos)
    <2>1. \A m \in DOMAIN P : m < r.pos => KeptAt(ls, P, o, u, m) /\ P[m] \in DOMAIN o
        BY <1>3, MadeThere DEF MadeInv
    <2> QED
        BY <1>3, <2>1, KeptIds
<1> QED
    BY <1>1, <1>2, <1>3 DEF TempMade

LEMMA EditsTemp ==
    ASSUME NEW ls, NEW P, NEW o, NEW u, NEW o0, NEW r, NEW x,
           Scene(ls, P, o, o0, r), MadeInv(ls, P, o, o0, r),
           \A m \in DOMAIN P : m < r.pos => KeptAt(ls, P, o, u, m),
           r.pc \in Making, x.pc \in Making, x.pos = r.pos, x.path = r.path, x.errors = r.errors,
           u[Tmpname(r.path)].id = o[Tmpname(r.path)].id,
           u[Tmpname(r.path)].kind = "dir" => u[Tmpname(r.path)].data = <<>>,
           x.pc = "times" =>
              FirstLine(ls, r.pos, r.pos) /\ IsMade(ls[r.pos], u[Tmpname(r.path)]),
           x.pc = "rename" => MadeFrom(ls, u[Tmpname(r.path)], r.pos)
    PROVE  TempMade(ls, P, u, x)
<1>1. PICK t : t = Tmpname(r.path)
    OBVIOUS
<1>2. ASSUME ~ r.errors, ls[r.pos].kind = "file"
      PROVE  IdRight(ls, P, u, u[t].id, r.pos, r.pos)
    <2>1. IdRight(ls, P, o, o[t].id, r.pos, r.pos)
        BY <1>1, <1>2 DEF MadeInv, TempMade
    <2>2. \A m \in DOMAIN P : m < r.pos => KeptAt(ls, P, o, u, m) /\ P[m] \in DOMAIN o
        BY <1>2, MadeThere DEF MadeInv
    <2>3. u[t].id = o[t].id
        BY <1>1
    <2> QED
        BY <2>1, <2>2, <2>3, KeptIds
<1> QED
    BY <1>1, <1>2 DEF TempMade

\* The line that is being restored is the first of its inode, if none was made before.
LEMMA CopiedFirst ==
    ASSUME NEW ls, NEW P, NEW o, NEW o0, NEW r, Scene(ls, P, o, o0, r),
           InodesKnown(ls, P, r), r.pc = "fill"
    PROVE  FirstLine(ls, r.pos, r.pos)
<1>1. /\ r.pos \in DOMAIN P /\ r.pos \in Nat /\ DOMAIN P \subseteq Nat /\ DOMAIN ls = DOMAIN P
    BY SceneFacts DEF Busy
<1>2. ASSUME NEW i \in DOMAIN P, ls[i].inode = ls[r.pos].inode, ls[i].inode # None
      PROVE  r.pos <= i
    <2> SUFFICES ASSUME i < r.pos PROVE FALSE
        BY <1>1
    <2>1. After(r, i, {"times", "rename"})
        BY DEF After
    <2> QED
        BY <1>2, <2>1 DEF InodesKnown
<1> QED
    BY <1>1, <1>2 DEF FirstLine

LEMMA StepTemp ==
    ASSUME NEW ls, NEW P, NEW o, NEW u, NEW o0, NEW r, NEW x, Scene(ls, P, o, o0, r),
           MadeInv(ls, P, o, o0, r), RunSteps(ls, P, o, u, r, x)
    PROVE  TempMade(ls, P, u, x)
<1>0. \A m \in DOMAIN P : m < r.pos => KeptAt(ls, P, o, u, m)
    BY StepKeeps DEF MadeInv, TimesDue
<1>1. PICK t, l : t = Tmpname(r.path) /\ l = ls[r.pos]
    OBVIOUS
<1>2. CASE x.pc \notin Making
    BY <1>2 DEF TempMade, Making
<1>3. CASE \/ StepReads(P, o, u, r, x) \/ StepEnds(P, o, u, r, x) \/ StepDone(o, u, r, x)
           \/ StepFixes(o, u, r, x) \/ StepFresh(o, u, x, "idle") \/ StepFresh(o, u, x, "read")
           \/ StepLeaves(ls[r.pos], o, u, r, x) \/ StepErrs(ls[r.pos], o, u, r, x)
           \/ StepRenames(o, u, r, x)
    <2>1. x.pc \notin Making
        BY <1>3 DEF StepReads, StepEnds, StepDone, StepFixes, StepFresh, StepLeaves, StepErrs,
           StepRenames, Same, Whole, Fields, Making
    <2> QED
        BY <1>2, <2>1
<1>4. ASSUME NEW n, StepMakes(o, u, r, x, n, "rename"), LinkNode(ls[r.pos], o, r, n)
      PROVE  TempMade(ls, P, u, x)
    <2>1. r.pc = "make"
        BY <1>4 DEF StepMakes
    <2>2. n.kind = "file"
        BY <1>4, <2>1, LinkKind
    <2>3. ~ r.errors =>
             /\ MadeFrom(ls, n, r.pos)
             /\ ls[r.pos].kind = "file" => IdRight(ls, P, o, n.id, r.pos, r.pos)
        BY <1>4, <2>1, LinkMade
    <2> QED
        BY <1>0, <1>4, <2>2, <2>3, MakesTemp DEF Making
<1>5. ASSUME NEW n, StepMakes(o, u, r, x, n, "fill"), FileNode(ls[r.pos], o, r, n)
      PROVE  TempMade(ls, P, u, x)
    <2>1. r.pc = "make" /\ n.kind = "file"
        BY <1>5 DEF StepMakes, FileNode
    <2>2. ~ r.errors => IdRight(ls, P, o, n.id, r.pos, r.pos)
        BY <1>5, <2>1, FreshMade
    <2> QED
        BY <1>0, <1>5, <2>1, <2>2, MakesTemp DEF Making
<1>6. ASSUME NEW n, StepMakes(o, u, r, x, n, "times"), OtherNode(ls[r.pos], n)
      PROVE  TempMade(ls, P, u, x)
    <2>1. r.pos \in DOMAIN P
        BY <1>6, SceneFacts DEF StepMakes, Busy
    <2>2. ls[r.pos].kind # "file" /\ n.kind = ls[r.pos].kind /\ IsMade(ls[r.pos], n)
          /\ (n.kind = "dir" => n.data = <<>>)
        BY <1>6 DEF OtherNode, IsMade, DataOf
    <2>3. FirstLine(ls, r.pos, r.pos)
        BY <2>1, <2>2 DEF FirstLine, Scene, ParentsListed
    <2> QED
        BY <1>0, <1>6, <2>2, <2>3, MakesTemp DEF Making
<1>7. CASE StepFills(o, u, r, x)
    <2>1. r.pc = "fill" /\ x = r /\ u[t].id = o[t].id /\ u[t].kind = o[t].kind
        BY <1>1, <1>7 DEF StepFills
    <2>2. o[t].kind = "file"
        BY <1>1, <2>1 DEF Scene, RestInv, Temp
    <2> QED
        BY <1>0, <1>1, <2>1, <2>2, EditsTemp DEF Making
<1>8. CASE StepCopied(ls[r.pos], o, u, r, x)
    <2>1. /\ r.pc = "fill" /\ x.pc = "times" /\ x.pos = r.pos /\ x.path = r.path
          /\ x.errors = r.errors /\ u = o /\ o[t].data = R!Contents(l)
        BY <1>1, <1>8 DEF StepCopied, Whole, Fields
    <2>2. o[t].kind = "file" /\ l.kind = "file"
        BY <1>1, <2>1 DEF Scene, RestInv, Temp
    <2>3. FirstLine(ls, r.pos, r.pos)
        BY <2>1, CopiedFirst DEF MadeInv
    <2>4. IsMade(l, o[t])
        BY <2>1, <2>2 DEF IsMade, DataOf
    <2> QED
        BY <1>0, <1>1, <2>1, <2>2, <2>3, <2>4, EditsTemp DEF Making
<1>9. CASE StepPutsOff(ls[r.pos], o, u, r, x) \/ StepTimes(ls[r.pos], o, u, r, x)
    <2>1. /\ r.pc = "times" /\ x.pc = "rename" /\ x.pos = r.pos /\ x.path = r.path
          /\ x.errors = r.errors /\ u[t].kind = o[t].kind /\ u[t].data = o[t].data
          /\ u[t].id = o[t].id /\ (l.kind \notin {"link", "dir"} => u[t].mtime = l.mtime)
        BY <1>1, <1>9 DEF StepPutsOff, StepTimes, Same, Whole, Fields
    <2>2. FirstLine(ls, r.pos, r.pos) /\ IsMade(l, o[t]) /\ (o[t].kind = "dir" => o[t].data = <<>>)
        BY <1>1, <2>1 DEF MadeInv, TempMade, Making
    <2>3. IsMade(l, u[t]) /\ TimeRight(l, u[t])
        BY <2>1, <2>2 DEF IsMade, TimeRight
    <2>4. r.pos \in DOMAIN ls
        BY <2>1, SceneFacts DEF Busy
    <2>5. MadeFrom(ls, u[t], r.pos)
        BY <1>1, <2>2, <2>3, <2>4 DEF MadeFrom
    <2>6. u[t].kind = "dir" => u[t].data = <<>>
        BY <2>1, <2>2
    <2> QED
        BY <1>0, <1>1, <2>1, <2>5, <2>6, EditsTemp DEF Making
<1> QED
    BY <1>3, <1>4, <1>5, <1>6, <1>7, <1>8, <1>9 DEF RunSteps

LEMMA StepMadeInv ==
    ASSUME NEW ls, NEW P, NEW o, NEW u, NEW o0, NEW r, NEW x, Scene(ls, P, o, o0, r),
           MadeInv(ls, P, o, o0, r), RunSteps(ls, P, o, u, r, x)
    PROVE  MadeInv(ls, P, u, o0, x)
<1>1. NamesInv(ls, P, u, o0, x)
    BY StepNames DEF MadeInv
<1>2. IsFiniteSet(DOMAIN u) /\ NewDirs(u, o0)
    BY StepFinite, StepDirs DEF MadeInv
<1>3. AllMade(ls, P, u, o0, x) /\ TimesDue(ls, P, u, x) /\ TempMade(ls, P, u, x)
    BY StepMade, StepDue, StepTemp
<1>4. InodesKnown(ls, P, x) /\ LeftDirs(ls, P, x)
    BY StepInodes, StepLeft DEF MadeInv
<1> QED
    BY <1>1, <1>2, <1>3, <1>4 DEF MadeInv

----------------------------------------------------------------------------
(***************************************************************************)
(* What there is after a restore that reports no error: a file of each     *)
(* line, and nothing else that was not there before.                       *)
(***************************************************************************)
\* No restore before the backup is over.
LeftInv ==
    /\ IsFiniteSet(DOMAIN out0)
    /\ ~ Active(walk) =>
          \E P : RestOK(P) /\ ParentsListed(lines, P) /\ MadeInv(lines, P, out, out0, rs)

\* What happens once the backup is over.
LEMMA AfterBackup ==
    ASSUME [Next]_vars, ~ Active(walk)
    PROVE  /\ walk' = walk /\ lines' = lines /\ out0' = out0
           /\ \/ R!StartRestore \/ R!RestoreStep(lines, end, objs)
              \/ R!Fail /\ out' = out
              \/ rs' = rs /\ out' = out
<1>1. ~ Backup /\ ~ BackupDies /\ ~ Users
    BY DEF Backup, BackupDies, Users, WalkStep, Contents, ContentsFails, Lstat, Sort,
       WriteFile, WriteDir, WriteLink, WriteSpecial, LstatFails, WriteFails, Writing, DirDone,
       WalkDies, Walking, Active, Change, Create, Edit, Unlink, AddLink, Rename, Becomes
<1> QED
    BY <1>1, SMTT(60) DEF Next, RestoreStarts, RestoreRuns, RestoreDies, LoseObject, vars, wvars

\* No restore has been started when it comes to its end.
LEMMA NotYetRun ==
    ASSUME TornInv, [Next]_vars, Active(walk)
    PROVE  /\ out = out0 /\ out' = out /\ out0' = out0 /\ rs' = rs
           /\ IsRs(rs) /\ rs.pc = "idle" /\ rs.pos = 1 /\ rs.inodes = EmptyMap
           /\ rs.dirtimes = <<>> /\ rs.errors = FALSE /\ rs.left = {} /\ OutTree(out)
<1>1. rs = R!RestoreIdle /\ out = out0 /\ OutTree(out)
    BY DEF TornInv
<1>2. PICK x : x = rs
    OBVIOUS
<1>3. x = [pc |-> "idle", pos |-> 1, dir |-> Root, path |-> Root, inodes |-> EmptyMap,
           dirtimes |-> <<>>, errors |-> FALSE, left |-> {}]
    BY <1>1, <1>2, SameOperators DEF R!RestoreIdle
<1>4. /\ IsRs(x) /\ x.pc = "idle" /\ x.pos = 1 /\ x.inodes = EmptyMap
      /\ x.dirtimes = <<>> /\ x.errors = FALSE /\ x.left = {}
    BY <1>3 DEF IsRs
<1>5. ~ RestoreStarts /\ ~ LoseObject
    BY DEF RestoreStarts, LoseObject, Walking, Active
<1>6. ~ RestoreRuns /\ ~ RestoreDies
    <2>1. rs.pc = "idle"
        BY <1>2, <1>4
    <2> QED
        BY <2>1, RestoreIsBusy DEF RestoreRuns, RestoreDies
<1>7. rs' = rs /\ out' = out /\ out0' = out0
    BY <1>5, <1>6 DEF Next, Backup, BackupDies, Users, vars
<1> QED
    BY <1>1, <1>2, <1>4, <1>7

Joined == ~ Active(walk) => \E P : RestOK(P) /\ ParentsListed(lines, P)

LEMMA JoinedParts == TornInv /\ ParentsInv => Joined
<1> SUFFICES ASSUME TornInv, ParentsInv, ~ Active(walk)
             PROVE  \E P : RestOK(P) /\ ParentsListed(lines, P)
    BY DEF Joined
<1>1. PICK P : RestOK(P)
    BY DEF TornInv
<1>2. PICK Q : Describes(lines, Q) /\ ParentsListed(lines, Q)
    BY DEF ParentsInv
<1>3. P = Q
    BY <1>1, <1>2, SamePaths DEF RestOK
<1> QED
    BY <1>1, <1>2, <1>3

\* Before the first line.
LEMMA NoneMade ==
    ASSUME NEW ls, NEW P, NEW o, NEW r, DOMAIN P = 1 .. Len(P), Len(P) \in Nat,
           IsFiniteSet(DOMAIN o), r.pc = "idle", r.pos = 1, r.inodes = EmptyMap,
           r.dirtimes = <<>>, r.left = {}
    PROVE  MadeInv(ls, P, o, o, r)
<1>1. \A m \in DOMAIN P : ~ (m < r.pos)
    OBVIOUS
<1>2. NamesInv(ls, P, o, o, r) /\ NewDirs(o, o)
    BY DEF NamesInv, NamesKnown, NewDirs
<1>3. AllMade(ls, P, o, o, r) /\ LeftDirs(ls, P, r) /\ TempMade(ls, P, o, r)
    BY <1>1 DEF AllMade, LeftDirs, TempMade, Making
<1>4. \A m \in DOMAIN P :
         ~ After(r, m, {"times", "rename"}) /\ ~ After(r, m, {"rename"})
    BY <1>1 DEF After
<1>5. InodesKnown(ls, P, r)
    BY <1>4 DEF InodesKnown, EmptyMap
<1>6. TimesDue(ls, P, o, r)
    <2>1. OfDirs(ls, P, r.dirtimes)
        BY DEF OfDirs
    <2> QED
        BY <1>4, <2>1 DEF TimesDue
<1> QED
    BY <1>2, <1>3, <1>5, <1>6 DEF MadeInv

LEMMA LeftStep ==
    ASSUME ParentsInv', TornInv, TornInv', LeftInv, [Next]_vars
    PROVE  LeftInv'
<1>0. IsFiniteSet(DOMAIN out0)'
    BY DEF LeftInv, Next, Backup, BackupDies, Users, RestoreStarts, RestoreRuns, RestoreDies,
       LoseObject, vars
<1> SUFFICES ASSUME ~ Active(walk')
             PROVE  \E P : RestOK(P)' /\ ParentsListed(lines', P)
                           /\ MadeInv(lines', P, out', out0', rs')
    BY <1>0 DEF LeftInv
<1>1. (TornInv /\ ParentsInv => Joined)'
    BY JoinedParts, PTL
<1>2. PICK P : RestOK(P)' /\ ParentsListed(lines', P)
    BY <1>1 DEF Joined
<1>3. CASE Active(walk)
    <2>1. /\ out' = out0' /\ out0' = out0 /\ rs'.pc = "idle" /\ rs'.pos = 1
          /\ rs'.inodes = EmptyMap /\ rs'.dirtimes = <<>> /\ rs'.left = {}
        BY <1>3, NotYetRun
    <2>2. PICK ls, o, o0, r : ls = lines' /\ o = out' /\ o0 = out0' /\ r = rs'
        OBVIOUS
    <2>3. DOMAIN P = 1 .. Len(P) /\ Len(P) \in Nat
        BY <1>2, SeqLength DEF RestOK, Describes
    <2>4. o = o0 /\ IsFiniteSet(DOMAIN o)
        BY <2>1, <2>2 DEF LeftInv
    <2>5. MadeInv(ls, P, o, o0, r)
        BY <2>1, <2>2, <2>3, <2>4, NoneMade
    <2> QED
        BY <1>2, <2>2, <2>5
<1>4. CASE ~ Active(walk)
    <2>1. /\ lines' = lines /\ out0' = out0
          /\ \/ R!StartRestore \/ R!RestoreStep(lines, end, objs)
             \/ R!Fail /\ out' = out
             \/ rs' = rs /\ out' = out
        BY <1>4, AfterBackup
    <2>2. PICK S : RestOK(S) /\ ParentsListed(lines, S) /\ MadeInv(lines, S, out, out0, rs)
        BY <1>4 DEF LeftInv
    <2>3. RunSteps(lines, S, out, out', rs, rs') \/ (rs' = rs /\ out' = out)
        <3>1. CASE R!StartRestore
            BY <3>1, StartStep DEF RunSteps
        <3>2. CASE R!RestoreStep(lines, end, objs)
            BY <2>2, <3>2, RestoreSteps
        <3>3. CASE R!Fail /\ out' = out
            BY <3>3, FailStep DEF RunSteps
        <3> QED
            BY <2>1, <3>1, <3>2, <3>3
    <2>4. Scene(lines, S, out, out0, rs)
        BY <2>2 DEF Scene, RestOK, TornInv
    <2>5. MadeInv(lines, S, out', out0, rs')
        BY <2>2, <2>3, <2>4, StepMadeInv
    <2>6. S = P
        <3>1. Describes(lines, P)
            BY <1>2, <2>1 DEF RestOK
        <3>2. Describes(lines, S)
            BY <2>2 DEF RestOK
        <3> QED
            BY <3>1, <3>2, SamePaths
    <2> QED
        BY <1>2, <2>1, <2>5, <2>6
<1> QED
    BY <1>3, <1>4

LEMMA LeftInit ==
    ASSUME Init
    PROVE  LeftInv
<1>1. PICK v : v = walk
    OBVIOUS
<1>2. v = [pc |-> "list", dirs |-> <<Root>>, names |-> {}, s |-> EmptyMap, ci |-> <<>>,
           first |-> TRUE, subdirs |-> <<>>]
    BY <1>1 DEF Init, WalkInit, Entered
<1>3. Active(walk)
    BY <1>1, <1>2 DEF Active
<1>4. IsFiniteSet(DOMAIN out0)
    BY RootsAssumption DEF Init
<1> QED
    BY <1>3, <1>4 DEF LeftInv

LEMMA NothingOfInv ==
    ASSUME LeftInv, TornInv
    PROVE  NothingLeft
<1> SUFFICES ASSUME Clean, NEW p \in DOMAIN out
             PROVE  p \in DOMAIN out0 \/ \E i \in DOMAIN lines : p = LinePath(i)
    BY DEF NothingLeft
<1>1. CASE Active(walk)
    BY <1>1 DEF TornInv
<1>2. CASE ~ Active(walk)
    <2>1. PICK P : RestOK(P) /\ ParentsListed(lines, P) /\ MadeInv(lines, P, out, out0, rs)
        BY <1>2 DEF LeftInv
    <2>2. Scene(lines, P, out, out0, rs)
        BY <2>1 DEF Scene, RestOK, TornInv
    <2>3. rs.pc = "done"
        BY DEF Clean
    <2>4. p \in DOMAIN out0 \/ \E i \in DOMAIN P : p = P[i]
        BY <2>1, <2>2, <2>3, NamesAtEnd DEF MadeInv
    <2>5. DOMAIN lines = DOMAIN P
        BY <2>2, SceneFacts
    <2>6. \A i \in DOMAIN P : LinePath(i) = P[i]
        BY <2>1, PathOfLine DEF RestOK
    <2> QED
        BY <2>4, <2>5, <2>6
<1> QED
    BY <1>1, <1>2

\* A restore that reports no error leaves nothing of its own behind, also when
\* runs before it have died with a temporary file made or half filled: what is
\* there was there before them or is the file of a line.  do_restore gets
\* NAME~restore~ out of the way before it makes it (restore.cc:74-76); where
\* that fails, a directory of that name with something in it has a line.
THEOREM NothingLeftBehind == Spec => []NothingLeft
<1>1. Init => WalkInv /\ DataInv /\ TornInv /\ ParentsInv /\ LeftInv
    BY WalkInvInit, TornInit, ParentsInit, LeftInit
<1>2. WalkInv /\ [Next]_vars => WalkInv'
    BY WalkInvStep
<1>3. WalkInv /\ DataInv /\ [Next]_vars => DataInv'
    BY DataStep
<1>4. WalkInv /\ WalkInv' /\ DataInv /\ TornInv /\ [Next]_vars => TornInv'
    BY TornStep
<1>5. WalkInv /\ ParentsInv /\ [Next]_vars => ParentsInv'
    BY ParentsStep
<1>6. ParentsInv' /\ TornInv /\ TornInv' /\ LeftInv /\ [Next]_vars => LeftInv'
    BY LeftStep
<1>7. LeftInv /\ TornInv => NothingLeft
    BY NothingOfInv
<1> QED
    BY <1>1, <1>2, <1>3, <1>4, <1>5, <1>6, <1>7, PTL DEF Spec


\* The line that the file of a line is made from.
LEMMA SourceIs ==
    ASSUME NEW P, Scene(lines, P, out, out0, rs), NEW i \in DOMAIN P
    PROVE  /\ Source(i) \in DOMAIN P /\ FirstLine(lines, Source(i), i)
           /\ \A s \in DOMAIN P : FirstLine(lines, s, i) => s = Source(i)
<1>1. DOMAIN P \subseteq Nat /\ DOMAIN lines = DOMAIN P
    BY SceneFacts
<1>2. CASE lines[i].inode = None
    BY <1>2 DEF Source, FirstLine
<1>3. CASE lines[i].inode # None
    <2> DEFINE First(j) == /\ lines[j].inode = lines[i].inode
                           /\ \A k \in DOMAIN lines : lines[k].inode = lines[i].inode => j <= k
    <2>1. PICK T : T = {j \in DOMAIN lines : lines[j].inode = lines[i].inode}
        OBVIOUS
    <2>2. T \subseteq Nat /\ T # {}
        BY <1>1, <2>1
    <2>3. PICK j \in T : \A k \in T : j <= k
        BY <2>2, LeastNat
    <2>4. j \in DOMAIN lines /\ First(j)
        BY <2>1, <2>3
    <2>5. ASSUME NEW s \in DOMAIN lines, First(s) PROVE s = j
        <3>1. s <= j /\ j <= s
            BY <2>4, <2>5
        <3>2. s \in Nat /\ j \in Nat
            BY <1>1, <2>4
        <3> QED
            BY <3>1, <3>2
    <2>6. Source(i) = CHOOSE s \in DOMAIN lines : First(s)
        BY <1>3 DEF Source
    <2>7. Source(i) \in DOMAIN lines /\ First(Source(i))
        <3> HIDE DEF First
        <3> QED
            BY <2>4, <2>6
    <2>8. Source(i) = j
        BY <2>5, <2>7
    <2> QED
        BY <1>1, <1>3, <2>4, <2>5, <2>8 DEF FirstLine
<1> QED
    BY <1>2, <1>3

LEMMA SameSource ==
    ASSUME NEW P, Scene(lines, P, out, out0, rs), NEW i \in DOMAIN P, NEW j \in DOMAIN P
    PROVE  SameFile(lines, i, j) <=> Source(i) = Source(j)
<1>1. PICK s, t : s = Source(i) /\ t = Source(j)
    OBVIOUS
<1>2. /\ s \in DOMAIN P /\ t \in DOMAIN P /\ FirstLine(lines, s, i) /\ FirstLine(lines, t, j)
      /\ \A k \in DOMAIN P : FirstLine(lines, k, j) => k = t
    BY <1>1, SourceIs
<1>3. ASSUME SameFile(lines, i, j) PROVE s = t
    <2>1. CASE i = j
        BY <1>1, <2>1
    <2>2. CASE lines[i].inode = lines[j].inode /\ lines[i].inode # None
        <3>1. FirstLine(lines, s, j)
            BY <1>2, <2>2 DEF FirstLine
        <3> QED
            BY <1>2, <3>1
    <2> QED
        BY <1>3, <2>1, <2>2 DEF SameFile
<1>4. ASSUME s = t PROVE SameFile(lines, i, j)
    BY <1>2, <1>4 DEF FirstLine, SameFile
<1> QED
    BY <1>1, <1>3, <1>4

\* When all lines are done.
LEMMA LinesAtEnd ==
    ASSUME NEW P, Scene(lines, P, out, out0, rs), MadeInv(lines, P, out, out0, rs),
           rs.pc = "done", ~ rs.errors, NEW i \in DOMAIN P,
           NEW l, l = lines[Source(i)]
    PROVE  /\ MadeOf(P[i], l.kind, DataOf(l), l.mtime)
           /\ l.kind = "file" => lines[i].kind = "file"
           /\ lines[i].kind = "file" => \A j \in DOMAIN P : lines[j].kind = "file" =>
                 (SameFile(lines, i, j) <=> out[P[i]].id = out[P[j]].id)
<1>1. \A m \in DOMAIN P : m < rs.pos
    <2>1. rs.pos \in Nat /\ rs.pos # 0 /\ Len(P) \in Nat /\ DOMAIN P = 1 .. Len(P)
        BY SceneFacts
    <2>2. rs.pos \notin 1 .. Len(P)
        BY <2>1 DEF MadeInv, NamesInv
    <2> QED
        BY <2>1, <2>2
<1>2. PICK s : s = Source(i)
    OBVIOUS
<1>3. /\ s \in DOMAIN P /\ FirstLine(lines, s, i) /\ l = lines[s]
      /\ \A k \in DOMAIN P : FirstLine(lines, k, i) => k = s
    BY <1>2, SourceIs
<1>4. /\ lines[i].kind # "file" => s = i
      /\ lines[s].kind # "file" => s = i
      /\ lines[i].inode # None => lines[i].kind = "file"
    BY <1>3, FirstOfNone
<1>5. l.kind = "file" => lines[i].kind = "file"
    BY <1>3, <1>4
<1>6. MadeLine(lines, P, out, out0, rs.left, i)
    BY <1>1 DEF MadeInv, AllMade
<1>7. PICK p, n : p = P[i] /\ n = out[p]
    OBVIOUS
<1>8. MadeOf(p, l.kind, DataOf(l), l.mtime)
    <2>1. p \in DOMAIN out
        BY <1>6, <1>7 DEF MadeLine
    <2>2. CASE p \in rs.left /\ p \notin DOMAIN out0
        <3>1. n.kind = "dir" /\ n.data = <<>>
            BY <1>6, <1>7, <2>2 DEF MadeLine
        <3>2. lines[i].kind = "dir"
            <4>1. PICK m \in DOMAIN P : p = P[m] /\ lines[m].kind = "dir"
                BY <2>2 DEF MadeInv, LeftDirs
            <4>2. m \in Nat /\ i \in Nat /\ (m < i => P[m] # P[i]) /\ (i < m => P[i] # P[m])
                BY SceneFacts
            <4>3. m = i
                BY <1>7, <4>1, <4>2
            <4> QED
                BY <4>1, <4>3
        <3>3. l.kind = "dir" /\ DataOf(l) = <<>>
            BY <1>3, <1>4, <3>2 DEF DataOf
        <3> QED
            BY <1>7, <2>1, <2>2, <3>1, <3>3 DEF MadeOf
    <2>3. CASE p \notin rs.left
        <3>1. MadeFrom(lines, n, i)
            BY <1>6, <1>7, <2>3 DEF MadeLine
        <3>2. IsMade(l, n) /\ TimeRight(l, n)
            <4>1. DOMAIN lines = DOMAIN P
                BY SceneFacts
            <4> QED
                BY <1>3, <3>1, <4>1 DEF MadeFrom
        <3>3. n.kind = l.kind /\ n.data = DataOf(l)
            BY <3>2 DEF IsMade
        <3>4. ASSUME l.kind # "link" PROVE n.mtime = l.mtime
            <4>1. CASE l.kind # "dir"
                BY <3>2, <3>4, <4>1 DEF TimeRight
            <4>2. CASE l.kind = "dir"
                <5>1. s = i /\ lines[i].kind = "dir"
                    BY <1>3, <1>4, <4>2
                <5>2. rs.dirtimes = <<>>
                    BY DEF MadeInv, TimesDue
                <5>3. ~ Due(lines, P, rs.dirtimes, i)
                    BY <5>2 DEF Due
                <5>4. After(rs, i, {"rename"})
                    BY <1>1 DEF After
                <5>5. out[P[i]].mtime = lines[i].mtime
                    BY <1>7, <2>3, <5>1, <5>3, <5>4 DEF MadeInv, TimesDue
                <5> QED
                    BY <1>3, <1>7, <5>1, <5>5
            <4> QED
                BY <4>1, <4>2
        <3> QED
            BY <1>7, <2>1, <3>3, <3>4 DEF MadeOf
    <2> QED
        BY <2>1, <2>2, <2>3 DEF MadeOf
<1>9. ASSUME lines[i].kind = "file", NEW j \in DOMAIN P, lines[j].kind = "file"
      PROVE  SameFile(lines, i, j) <=> out[P[i]].id = out[P[j]].id
    <2>1. IdRight(lines, P, out, out[P[j]].id, j, rs.pos)
        BY <1>1, <1>9 DEF MadeInv, AllMade
    <2> QED
        BY <1>1, <1>9, <2>1 DEF IdRight
<1> QED
    BY <1>5, <1>7, <1>8, <1>9

LEMMA LinesOfInv ==
    ASSUME LeftInv, TornInv
    PROVE  LinesRestored
<1> SUFFICES ASSUME Clean, NEW i \in DOMAIN lines
             PROVE  /\ MadeOf(LinePath(i), lines[Source(i)].kind, DataOf(lines[Source(i)]),
                              lines[Source(i)].mtime)
                    /\ lines[Source(i)].kind = "file" =>
                          \A j \in DOMAIN lines : lines[j].kind = "file" =>
                             (Source(i) = Source(j) <=> out[LinePath(i)].id = out[LinePath(j)].id)
    BY DEF LinesRestored
<1>1. rs.pc = "done" /\ ~ rs.errors
    BY DEF Clean
<1>2. ~ Active(walk)
    <2> SUFFICES ASSUME Active(walk) PROVE FALSE
        OBVIOUS
    <2>1. rs.pc = "idle"
        BY DEF TornInv, R!RestoreIdle
    <2> QED
        BY <1>1, <2>1
<1>3. PICK P : RestOK(P) /\ ParentsListed(lines, P) /\ MadeInv(lines, P, out, out0, rs)
    BY <1>2 DEF LeftInv
<1>4. Scene(lines, P, out, out0, rs)
    BY <1>3 DEF Scene, RestOK, TornInv
<1>5. DOMAIN lines = DOMAIN P /\ \A k \in DOMAIN P : LinePath(k) = P[k]
    BY <1>3, <1>4, SceneFacts, PathOfLine DEF RestOK
<1>6. PICK l : l = lines[Source(i)]
    OBVIOUS
<1>7. /\ MadeOf(P[i], l.kind, DataOf(l), l.mtime)
      /\ l.kind = "file" => lines[i].kind = "file"
      /\ lines[i].kind = "file" => \A j \in DOMAIN P : lines[j].kind = "file" =>
            (SameFile(lines, i, j) <=> out[P[i]].id = out[P[j]].id)
    BY <1>1, <1>3, <1>4, <1>5, <1>6, LinesAtEnd
<1>8. \A j \in DOMAIN P : SameFile(lines, i, j) <=> Source(i) = Source(j)
    BY <1>4, <1>5, SameSource
<1> QED
    BY <1>5, <1>6, <1>7, <1>8


\* A restore that reports no error has made the file of every line, with the
\* contents and times of the first line of its inode, and the lines of an inode
\* are one file and no others are; directories have their times although files
\* were made in them afterwards (do_restore, restore.cc:44-225).  So it is
\* for any root, and wherever runs before it have died.
THEOREM AllLinesRestored == Spec => []LinesRestored
<1>1. Init => WalkInv /\ DataInv /\ TornInv /\ ParentsInv /\ LeftInv
    BY WalkInvInit, TornInit, ParentsInit, LeftInit
<1>2. WalkInv /\ [Next]_vars => WalkInv'
    BY WalkInvStep
<1>3. WalkInv /\ DataInv /\ [Next]_vars => DataInv'
    BY DataStep
<1>4. WalkInv /\ WalkInv' /\ DataInv /\ TornInv /\ [Next]_vars => TornInv'
    BY TornStep
<1>5. WalkInv /\ ParentsInv /\ [Next]_vars => ParentsInv'
    BY ParentsStep
<1>6. ParentsInv' /\ TornInv /\ TornInv' /\ LeftInv /\ [Next]_vars => LeftInv'
    BY LeftStep
<1>7. LeftInv /\ TornInv => LinesRestored
    BY LinesOfInv
<1> QED
    BY <1>1, <1>2, <1>3, <1>4, <1>5, <1>6, <1>7, PTL DEF Spec

----------------------------------------------------------------------------
(***************************************************************************)
(* A file that did not change during the backup is there after it.         *)
(***************************************************************************)
\* Links that have not changed have all in common, and what is neither a regular
\* file nor a link has no contents.
Alike(g, st) ==
    /\ \A p, q \in st : g[p].ino = g[q].ino => g[p] = g[q]
    /\ \A p \in st : g[p].kind \notin {"file", "link"} => g[p].data = <<>>

\* A restore has come to its end with the [end] of the index read.
EndRead == rs.pc \in {"fix", "done"} => end

SameInv == Alike(tree, stable) /\ EndRead

LEMMA SameInit ==
    ASSUME Init
    PROVE  SameInv
<1>1. PICK t : t = tree
    OBVIOUS
<1>2. t \in Trees /\ stable = DOMAIN t
    BY <1>1 DEF Init, WalkInit
<1>3. Alike(t, DOMAIN t)
    BY <1>2, TreesAssumption DEF Alike
<1>4. PICK r : r = rs
    OBVIOUS
<1>5. r = [pc |-> "idle", pos |-> 1, dir |-> Root, path |-> Root, inodes |-> EmptyMap,
           dirtimes |-> <<>>, errors |-> FALSE, left |-> {}]
    BY <1>4, SameOperators DEF Init, R!RestoreIdle
<1>6. r.pc = "idle"
    BY <1>5
<1> QED
    BY <1>1, <1>2, <1>3, <1>4, <1>6 DEF SameInv, EndRead

LEMMA ChangeActive ==
    ASSUME Change
    PROVE  Active(walk)
BY ZenonT(60) DEF Change, Create, Edit, Unlink, AddLink, Rename, Becomes, Active, Walking

LEMMA AlikeStep ==
    ASSUME DataInv, ListedInv, Alike(tree, stable), [Next]_vars
    PROVE  Alike(tree', stable')
<1>1. CASE Change
    <2>1. Finite(tree) /\ Steady(tree, stable) /\ \A q \in DOMAIN tree : SrcOK(tree[q])
        BY <1>1, ChangeActive DEF ListedInv, DataInv, Active
    <2>2. stable' \subseteq stable /\ Remains(tree, tree', stable')
        BY <1>1, <2>1, ChangeRemains
    <2>3. PICK g, h, st, rem : g = tree /\ h = tree' /\ st = stable /\ rem = stable'
        OBVIOUS
    <2>4. rem \subseteq st /\ Alike(g, st) /\ \A p \in rem : h[p] = g[p]
        BY <2>2, <2>3 DEF Remains
    <2>5. Alike(h, rem)
        BY <2>4 DEF Alike
    <2> QED
        BY <2>3, <2>5
<1>2. CASE ~ Change
    <2>1. tree' = tree /\ stable' = stable
        BY <1>2, ZenonT(60) DEF Next, Backup, BackupDies, Users, RestoreStarts, RestoreRuns,
           RestoreDies, LoseObject, WalkStep, WalkDies, Contents, ContentsFails, Lstat, Sort,
           WriteFile, WriteDir, WriteLink, WriteSpecial, LstatFails, WriteFails, DirDone, Write, Die,
           vars, wvars
    <2> QED
        BY <2>1
<1> QED
    BY <1>1, <1>2

LEMMA EndStays ==
    ASSUME [Next]_vars, ~ Active(walk)
    PROVE  end' = end
<1>1. ~ Backup /\ ~ BackupDies /\ ~ Users
    BY DEF Backup, BackupDies, Users, WalkStep, Contents, ContentsFails, Lstat, Sort,
       WriteFile, WriteDir, WriteLink, WriteSpecial, LstatFails, WriteFails, Writing, DirDone,
       WalkDies, Walking, Active, Change, Create, Edit, Unlink, AddLink, Rename, Becomes
<1> QED
    BY <1>1, SMTT(60) DEF Next, RestoreStarts, RestoreRuns, RestoreDies, LoseObject, vars, wvars

LEMMA EndsOrFixes ==
    ASSUME NEW ls, NEW P, NEW o, NEW u, NEW r, NEW x, RunSteps(ls, P, o, u, r, x),
           x.pc \in {"fix", "done"}
    PROVE  r.pc = "fix" \/ StepEnds(P, o, u, r, x)
BY DEF RunSteps, StepReads, StepFresh, StepMakes, StepLeaves, StepErrs, StepFills, StepCopied,
       StepPutsOff, StepTimes, StepRenames, StepFixes, StepDone, Same, Whole, Fields

LEMMA EndReadStep ==
    ASSUME TornInv, EndRead, [Next]_vars
    PROVE  EndRead'
<1>1. CASE Active(walk)
    BY <1>1, NotYetRun DEF EndRead
<1>2. CASE ~ Active(walk)
    <2>1. /\ end' = end
          /\ \/ R!StartRestore \/ R!RestoreStep(lines, end, objs)
             \/ R!Fail /\ out' = out
             \/ rs' = rs
        BY <1>2, AfterBackup, EndStays
    <2>2. PICK r, x : r = rs /\ x = rs'
        OBVIOUS
    <2>3. x.pc \in {"fix", "done"} => end
        <3>1. CASE R!StartRestore
            BY <2>2, <3>1, StartStep DEF StepFresh, Whole, Fields
        <3>2. CASE R!RestoreStep(lines, end, objs)
            <4>1. PICK P : RestOK(P)
                BY <1>2 DEF TornInv
            <4>2. /\ RunSteps(lines, P, out, out', r, x)
                  /\ StepEnds(P, out, out', r, x) => end
                BY <2>2, <3>2, <4>1, RestoreSteps
            <4>3. x.pc \in {"fix", "done"} => r.pc = "fix" \/ StepEnds(P, out, out', r, x)
                BY <4>2, EndsOrFixes
            <4> QED
                BY <2>2, <4>2, <4>3 DEF EndRead
        <3>3. CASE R!Fail
            BY <2>2, <3>3, FailStep DEF StepFresh, Whole, Fields
        <3>4. CASE rs' = rs
            BY <2>2, <3>4 DEF EndRead
        <3> QED
            BY <2>1, <3>1, <3>2, <3>3, <3>4
    <2> QED
        BY <2>1, <2>2, <2>3 DEF EndRead
<1> QED
    BY <1>1, <1>2


\* What the line of such a file says, and the line that the file is made from.
LEMMA SaidOf ==
    ASSUME ListedInv, Alike(tree, stable), NEW P, Scene(lines, P, out, out0, rs),
           \A k \in DOMAIN P : LinePath(k) = P[k],
           NEW i \in DOMAIN P, P[i] \in stable, LinksStable(P[i])
    PROVE  /\ lines[i].kind = tree[P[i]].kind
           /\ lines[i].kind = "file" => lines[i].inode \in {None, tree[P[i]].ino[2]}
           /\ lines[i].kind = "file" /\ (\E q \in stable \ {P[i]} : tree[q].ino = tree[P[i]].ino)
                 => lines[i].inode # None
           /\ lines[Source(i)].kind = tree[P[i]].kind
           /\ DataOf(lines[Source(i)]) = tree[P[i]].data
           /\ lines[Source(i)].mtime = tree[P[i]].mtime
<1>1. DOMAIN lines = DOMAIN P
    BY SceneFacts
<1>2. \A k \in DOMAIN P : P[k] \in stable => LineRight(lines[k], P[k])
    BY <1>1, UnchangedOfInv DEF UnchangedListed
<1>3. PICK s : s = Source(i)
    OBVIOUS
<1>4. s \in DOMAIN P /\ FirstLine(lines, s, i)
    BY <1>3, SourceIs
<1>5. lines[i].kind # "file" => s = i
    BY <1>4, FirstOfNone
<1>6. PICK f : f = tree[P[i]]
    OBVIOUS
<1>7. /\ lines[i].kind = f.kind /\ lines[i].inode \in {None, f.ino[2]}
      /\ f.kind = "file" /\ (\E q \in stable \ {P[i]} : tree[q].ino = f.ino)
            => lines[i].inode # None
    BY <1>2, <1>6 DEF LineRight
<1>8. P[s] \in stable /\ tree[P[s]] = f
    <2>1. CASE s = i
        BY <1>6, <2>1
    <2>2. CASE s # i
        <3>1. f.kind = "file" /\ lines[s].inode = lines[i].inode /\ lines[i].inode # None
            BY <1>4, <1>5, <1>7, <2>2 DEF FirstLine
        <3>2. lines[s].inode = f.ino[2]
            BY <1>7, <3>1
        <3>3. P[s] \in stable /\ tree[P[s]].ino = f.ino
            BY <1>1, <1>4, <1>6, <3>1, <3>2 DEF LinksStable
        <3> QED
            BY <1>6, <3>3 DEF Alike
    <2> QED
        BY <2>1, <2>2
<1>9. LineRight(lines[s], P[s])
    BY <1>2, <1>4, <1>8
<1>10. PICK l : l = lines[s]
    OBVIOUS
<1>11. /\ l.kind = f.kind /\ l.mtime = f.mtime
       /\ f.kind \in {"file", "link"} => DataOf(l) = f.data
    BY <1>8, <1>9, <1>10 DEF LineRight
<1>12. DataOf(l) = f.data
    <2>1. CASE f.kind \in {"file", "link"}
        BY <1>11, <2>1
    <2>2. CASE f.kind \notin {"file", "link"}
        <3>1. f.data = <<>>
            BY <1>6, <2>2 DEF Alike
        <3> QED
            BY <1>11, <2>2, <3>1 DEF DataOf
    <2> QED
        BY <2>1, <2>2
<1> QED
    BY <1>3, <1>6, <1>7, <1>10, <1>11, <1>12

LEMMA RightOfInv ==
    ASSUME LeftInv, TornInv, ListedInv, SameInv
    PROVE  RestoredRight
<1> SUFFICES ASSUME Clean, NEW p \in stable, Covered(p), LinksStable(p)
             PROVE  /\ MadeOf(p, tree[p].kind, tree[p].data, tree[p].mtime)
                    /\ tree[p].kind = "file" => \A q \in stable :
                          Covered(q) /\ tree[q].kind = "file" =>
                             (tree[p].ino = tree[q].ino <=> out[p].id = out[q].id)
    BY DEF RestoredRight
<1>1. rs.pc = "done" /\ ~ rs.errors /\ end /\ Alike(tree, stable)
    BY DEF Clean, SameInv, EndRead
<1>2. ~ Active(walk)
    <2> SUFFICES ASSUME Active(walk) PROVE FALSE
        OBVIOUS
    <2>1. rs.pc = "idle"
        BY DEF TornInv, R!RestoreIdle
    <2> QED
        BY <1>1, <2>1
<1>3. PICK P : RestOK(P) /\ ParentsListed(lines, P) /\ MadeInv(lines, P, out, out0, rs)
    BY <1>2 DEF LeftInv
<1>4. Scene(lines, P, out, out0, rs)
    BY <1>3 DEF Scene, RestOK, TornInv
<1>5. DOMAIN lines = DOMAIN P /\ \A k \in DOMAIN P : LinePath(k) = P[k]
    BY <1>3, <1>4, SceneFacts, PathOfLine DEF RestOK
<1>6. \A q \in stable : Covered(q) => \E k \in DOMAIN P : P[k] = q
    BY <1>1, <1>5, UnchangedOfInv DEF UnchangedListed
<1>7. \A k \in DOMAIN P : P[k] \in stable => LineRight(lines[k], P[k])
    BY <1>5, UnchangedOfInv DEF UnchangedListed
<1>8. PICK i \in DOMAIN P : P[i] = p
    BY <1>6
<1>9. /\ lines[i].kind = tree[p].kind
      /\ lines[i].kind = "file" => lines[i].inode \in {None, tree[p].ino[2]}
      /\ lines[i].kind = "file" /\ (\E q \in stable \ {p} : tree[q].ino = tree[p].ino)
            => lines[i].inode # None
      /\ lines[Source(i)].kind = tree[p].kind
      /\ DataOf(lines[Source(i)]) = tree[p].data
      /\ lines[Source(i)].mtime = tree[p].mtime
    BY <1>1, <1>4, <1>5, <1>8, SaidOf
<1>10. PICK l : l = lines[Source(i)]
    OBVIOUS
<1>11. /\ MadeOf(P[i], l.kind, DataOf(l), l.mtime)
       /\ lines[i].kind = "file" => \A j \in DOMAIN P : lines[j].kind = "file" =>
             (SameFile(lines, i, j) <=> out[P[i]].id = out[P[j]].id)
    BY <1>1, <1>3, <1>4, <1>5, <1>10, LinesAtEnd
<1>12. MadeOf(p, tree[p].kind, tree[p].data, tree[p].mtime)
    BY <1>8, <1>9, <1>10, <1>11
<1>13. ASSUME tree[p].kind = "file", NEW q \in stable, Covered(q), tree[q].kind = "file"
       PROVE  tree[p].ino = tree[q].ino <=> out[p].id = out[q].id
    <2>1. PICK j \in DOMAIN P : P[j] = q
        BY <1>6, <1>13
    <2>2. /\ lines[j].kind = "file" /\ lines[j].inode \in {None, tree[q].ino[2]}
          /\ (\E y \in stable \ {q} : tree[y].ino = tree[q].ino) => lines[j].inode # None
        BY <1>7, <1>13, <2>1 DEF LineRight
    <2>3. SameFile(lines, i, j) <=> out[p].id = out[q].id
        BY <1>8, <1>9, <1>11, <1>13, <2>1, <2>2
    <2>4. ASSUME SameFile(lines, i, j) PROVE tree[p].ino = tree[q].ino
        <3>1. CASE i = j
            BY <1>8, <2>1, <3>1
        <3>2. CASE lines[i].inode = lines[j].inode /\ lines[i].inode # None
            <4>1. lines[j].inode = tree[p].ino[2]
                BY <1>9, <1>13, <3>2
            <4>2. tree[P[j]].ino = tree[p].ino
                BY <1>5, <1>13, <4>1 DEF LinksStable
            <4> QED
                BY <2>1, <4>2
        <3> QED
            BY <2>4, <3>1, <3>2 DEF SameFile
    <2>5. ASSUME tree[p].ino = tree[q].ino PROVE SameFile(lines, i, j)
        <3>1. CASE p = q
            <4>1. i \in Nat /\ j \in Nat /\ (i < j => P[i] # P[j]) /\ (j < i => P[j] # P[i])
                BY <1>4, SceneFacts
            <4>2. i = j
                BY <1>8, <2>1, <3>1, <4>1
            <4> QED
                BY <4>2 DEF SameFile
        <3>2. CASE p # q
            <4>1. lines[i].inode # None /\ lines[j].inode # None
                BY <1>9, <1>13, <2>2, <2>5, <3>2
            <4>2. lines[i].inode = lines[j].inode
                BY <1>9, <1>13, <2>2, <2>5, <4>1
            <4> QED
                BY <4>1, <4>2 DEF SameFile
        <3> QED
            BY <3>1, <3>2
    <2> QED
        BY <2>3, <2>4, <2>5
<1> QED
    BY <1>12, <1>13

\* What backup and restore are for: a file that did not change while it was
\* backed up, nor any of its links, is there again after a restore that reports
\* no error, with its contents and times and as a hard link of the same others
\* (backup_dir, backup.cc:130-356; do_restore, restore.cc:44-225).  So it is
\* whatever else was changed meanwhile, whichever runs died, and whatever the
\* restore found below its root.
THEOREM UnchangedRestored == Spec => []RestoredRight
<1>1. Init => WalkInv /\ DataInv /\ TornInv /\ ParentsInv /\ LeftInv /\ ListedInv /\ SameInv
    BY WalkInvInit, TornInit, ParentsInit, LeftInit, ListedInit, SameInit
<1>2. WalkInv /\ [Next]_vars => WalkInv'
    BY WalkInvStep
<1>3. WalkInv /\ DataInv /\ [Next]_vars => DataInv'
    BY DataStep
<1>4. WalkInv /\ WalkInv' /\ DataInv /\ TornInv /\ [Next]_vars => TornInv'
    BY TornStep
<1>5. WalkInv /\ ParentsInv /\ [Next]_vars => ParentsInv'
    BY ParentsStep
<1>6. ParentsInv' /\ TornInv /\ TornInv' /\ LeftInv /\ [Next]_vars => LeftInv'
    BY LeftStep
<1>7. WalkInv /\ DataInv /\ ListedInv /\ [Next]_vars => ListedInv'
    BY ListedStep
<1>8. DataInv /\ TornInv /\ ListedInv /\ SameInv /\ [Next]_vars => SameInv'
    BY AlikeStep, EndReadStep DEF SameInv
<1>9. LeftInv /\ TornInv /\ ListedInv /\ SameInv => RestoredRight
    BY RightOfInv
<1> QED
    BY <1>1, <1>2, <1>3, <1>4, <1>5, <1>6, <1>7, <1>8, <1>9, PTL DEF Spec
=============================================================================
