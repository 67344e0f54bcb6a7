----------------------------- MODULE IndexLine -----------------------------
(***************************************************************************)
(* What the lines of an index say, and the names in them.  Backup writes   *)
(* them (module Walk) and restore reads them (module Restore).             *)
(*                                                                         *)
(* A name is a number, and the order of the numbers that of std::sort.     *)
(* The name n ~restore~ is the next number: it sorts after n and before    *)
(* every name that is neither n nor begins with n.  A path is a sequence   *)
(* of names, from the root down.                                           *)
(***************************************************************************)
EXTENDS Integers, Sequences

CONSTANTS
    Name,           \* file names
    Byte,           \* a byte stands for a block of a file
    StoreLimit,     \* STORE_LIMIT: files up to this size live in the index
    Now,            \* the time of whatever is changed while the model runs
    None            \* "no such detail"

ASSUME NameAssumption == Name \subseteq Nat
ASSUME NoneAssumption == None \notin Nat

Path == Seq(Name)
Bytes == Seq(Byte)
Root == <<>>

Parent(p) == SubSeq(p, 1, Len(p) - 1)
Base(p) == p[Len(p)]
Below(p, q) == Len(p) < Len(q) /\ SubSeq(q, 1, Len(p)) = p

\* fullname + "~restore~"
Tmpname(p) == Append(Parent(p), Base(p) + 1)

\* What the type detail can say ("file" where there is none) and what backup
\* does not take.
Kind == {"file", "dir", "link", "chr", "socket"}
Unknown == {"fifo"}

\* A name is written in full or, as "./NAME", relative to the line before.
LineName == [rel : BOOLEAN, path : Path]

\* data is the contents of a small file, the target of a link or the rdev of
\* a device; sha1 stands for the hash of the contents of a large file.
Line == [name : LineName, kind : Kind,
         data : {None} \cup Bytes, sha1 : {None} \cup Bytes,
         inode : {None} \cup Nat, mtime : {Now} \cup Nat]

IsMap(m, S, T) == DOMAIN m \subseteq S /\ m \in [DOMAIN m -> T]
Put(m, k, v) == [x \in DOMAIN m \cup {k} |-> IF x = k THEN v ELSE m[x]]
Drop(m, k) == [x \in DOMAIN m \ {k} |-> m[x]]
EmptyMap == [x \in {} |-> None]
============================================================================
