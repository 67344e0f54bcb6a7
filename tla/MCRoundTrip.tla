---------------------------- MODULE MCRoundTrip ----------------------------
(* Instances of RoundTrip for TLC. *)
EXTENDS RoundTrip, TLC

\* The names a, a~restore~ and b, and the second's temporary name.
Names == {10, 11, 12, 20, 21, 22}

a == 10
atmp == 11
b == 20

F(kind, data, ino, mtime) ==
    [kind |-> kind, data |-> data, ino |-> ino, mtime |-> mtime]

\* A hard link across directories, and lines with relative names, in a tree two
\* levels deep.
Deep ==
    (<<a>> :> F("dir", <<>>, <<0, 1>>, 1)) @@
    (<<a, a>> :> F("dir", <<>>, <<0, 2>>, 1)) @@
    (<<a, b>> :> F("file", <<1, 2>>, <<0, 3>>, 1)) @@
    (<<a, a, b>> :> F("file", <<1, 2>>, <<0, 3>>, 1))

\* One of each kind.
Kinds ==
    (<<a>> :> F("file", <<1, 2>>, <<0, 1>>, 1)) @@
    (<<b>> :> F("dir", <<>>, <<0, 3>>, 1)) @@
    (<<b + 1>> :> F("fifo", <<>>, <<0, 7>>, 1)) @@
    (<<b, a>> :> F("socket", <<>>, <<0, 6>>, 1)) @@
    (<<b, b>> :> F("link", <<1>>, <<0, 4>>, 1)) @@
    (<<b, b + 1>> :> F("chr", <<>>, <<0, 5>>, 1))

\* A mount point with a file whose inode number is that of one outside, each
\* with a second link; outside, that has the temporary name of the first.
Mount ==
    (<<a>> :> F("file", <<1>>, <<0, 3>>, 1)) @@
    (<<atmp>> :> F("file", <<1>>, <<0, 3>>, 1)) @@
    (<<b>> :> F("dir", <<>>, <<1, 1>>, 1)) @@
    (<<b, a>> :> F("file", <<2>>, <<1, 3>>, 1)) @@
    (<<b, b>> :> F("file", <<2>>, <<1, 3>>, 1))

AllTrees == {Deep, Kinds, Mount}
MountTree == {Mount}

SomePlaces == {<<a>>, <<b>>, <<a, b>>, <<a, b + 1>>}

O(kind, id) == [kind |-> kind, data |-> <<>>, mtime |-> Now, id |-> id]

\* Nothing; a directory where the index has a file, or the other way round.
AllRoots ==
    {EmptyMap,
     (<<a>> :> O("dir", 1)) @@ (<<a, a>> :> O("file", 2)) @@ (<<b>> :> O("file", 3))}
EmptyRoot == {EmptyMap}
============================================================================
