----------------------------- MODULE MCHbackup -----------------------------
(* Instances of Hbackup for TLC. *)
EXTENDS Hbackup

CONSTANTS h1, h2, file1, file2

Both == <<<<file1, file2>>>>
\* Two contents of two blocks.
Large2 == {<<1, 2>>, <<2, 1>>}
=============================================================================
