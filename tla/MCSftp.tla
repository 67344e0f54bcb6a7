------------------------------ MODULE MCSftp ------------------------------
(* Instances of Sftp for TLC. *)
EXTENDS Sftp

CONSTANTS top, dir1, name1, name2

\* A directory with two names in it; or a name.
Nested == (dir1 :> top) @@ (name1 :> dir1) @@ (name2 :> dir1)
OneName == name1 :> top

\* Four bytes, so that an answer of two bytes can be left over from a call that
\* wants one, and read-ahead requests end before, at and beyond the end of the
\* file; and nothing.
FourBytes == {<<>>, <<1, 2, 3, 4>>}
Empty == {<<>>}

NameSymmetry == Permutations({name1, name2})
=============================================================================
