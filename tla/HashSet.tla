------------------------------ MODULE HashSet ------------------------------
(***************************************************************************)
(* The class HashSet: a table of chains of hashes.  A chain is a sequence, *)
(* from the node that the table points to.                                 *)
(***************************************************************************)
EXTENDS Octets

CONSTANT TableSize      \* HASHTABLE_SIZE, 2^22

\* A power of 2 up to 2^24.
ASSUME TableSizeAssumption == TableSize \in Nat \ {0} /\ 16777216 % TableSize = 0

NewHashSet == [n \in 0 .. TableSize - 1 |-> <<>>]

\* hash(): the first octets as a little-endian word.  Those above the third
\* make no difference to a table of this size.
Octet(h, i) == IF i \in DOMAIN h THEN h[i] ELSE 0
Bucket(h) ==
    (Octet(h, 1) + 256 * Octet(h, 2) + 65536 * Octet(h, 3)) % TableSize

Has(t, h) == \E i \in DOMAIN t[Bucket(h)] : t[Bucket(h)][i] = h

\* Mutant: the rest of the chain is lost.
LoneNode(t, h) == <<h>>

NewNode(t, h) == <<h>> \o t[Bucket(h)]

Insert(t, h) ==
    IF Has(t, h) THEN t ELSE [t EXCEPT ![Bucket(h)] = NewNode(t, h)]
============================================================================
