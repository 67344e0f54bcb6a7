---------------------------- MODULE MCIndexFile ----------------------------
(* Instances of IndexFile for TLC. *)
EXTENDS IndexFile

D(key, val) == [key |-> key, val |-> val]

\* Names with what has a meaning in the format, the text of a small file that
\* is two lines, and a hash.
Odd == <<D(NameKey, <<Amp, Space>>), D(DataKey, <<97, NL>>)>>
Odder == <<D(NameKey, <<Equals, 255>>), D(DataKey, <<Percent, Plus>>)>>
Hashed == <<D(NameKey, <<97, 98>>), D(HashKey, <<171>>)>>
\* In the same chain.
Collides == <<D(HashKey, <<173>>)>>
Empty == <<D(NameKey, <<93>>), D(DataKey, <<>>)>>

SomeCases ==
    {[index |-> i, user |-> "lines"] :
        i \in {<<Odd>>, <<Odder>>, <<Hashed, Empty>>, <<Hashed, Collides>>, <<Empty, Odd>>}}
    \cup {[index |-> i, user |-> "hash"] : i \in {<<>>, <<Empty>>}}
============================================================================
