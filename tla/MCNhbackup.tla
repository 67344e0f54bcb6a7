---------------------------- MODULE MCNhbackup ----------------------------
(* Instances of Nhbackup for TLC. *)
EXTENDS Nhbackup, TLC

CONSTANTS h1, h2, file1, file2

\* Two directories with a file in each, so that objects of the first are
\* stored before the second is scanned; or one with both files.
TwoDirs == <<<<file1>>, <<file2>>>>
OneDir == <<<<file1, file2>>>>
OneFile == <<<<file1>>>>

\* An empty file, stored in the index, and two large ones.
WithEmpty == {<<>>, <<1, 2>>, <<2, 1>>}
\* One large content, of a single block.
OneBlock == {<<1>>}
\* Two large contents.
Large2 == {<<1, 2>>, <<2, 1>>}

\* Which runs may overlap: none, a verification and a backup, all, backups, or
\* backups and a verification.
Alone == {}
VerifyDuringBackup == {{"backup", "verify"}}
Anything == {{a, b} : a \in Operation, b \in Operation}
BackupsOverlap == {{"backup"}}
=============================================================================
