------------------------------ MODULE Cleanup ------------------------------
(***************************************************************************)
(* nhbackup --cleanup INDEX...: do_clean and clean_recurse.  Every index   *)
(* named on the command line is read for the hashes it needs; then every   *)
(* file of the repository that is not named by a needed hash is removed,   *)
(* or listed without --delete.  The command line is that of the manual     *)
(* page: all files below the directory of indexes when the command starts. *)
(*                                                                         *)
(* The repository is a tree of directories by leading digits of the hash.  *)
(* It is listed in one step, as if its objects shared one directory.       *)
(***************************************************************************)
EXTENDS Medium

VARIABLE cl     \* the run of the cleanup

\* A file of the repository: an object or a .tmp, by its hash.
RepoFile == HashName \X {"obj", "tmp"}

ASSUME NoFileAssumption == None \notin RepoFile

(***************************************************************************)
(* pc says what the run does next: read the indexes ("mark"), list the     *)
(* repository ("list"), take the next file of the listing ("sweep"), look  *)
(* at the name and the contents of the one taken ("check"), remove it.     *)
(***************************************************************************)
Sweep == [pc : {"idle", "mark", "list", "sweep", "check", "remove"},
          argv : SUBSET IndexName,      \* indexes still to read
          needed : SUBSET HashName,
          bad : BOOLEAN,                \* badfiles is not empty
          names : SUBSET RepoFile,      \* files listed and not yet taken
          file : {None} \cup RepoFile,  \* the file taken
          failed : SUBSET RepoFile]     \* files reported as not removable

CleanupIdle == [pc |-> "idle", argv |-> {}, needed |-> {}, bad |-> FALSE,
                names |-> {}, file |-> None, failed |-> {}]

CleanupTypeOK ==
    /\ cl \in Sweep
    /\ cl.pc \in {"check", "remove"} => cl.file # None
CleanupInit == cl = CleanupIdle

Cleaning == cl.pc # "idle"

\* fatal, an exception that reaches main, and the end of a good run.
ExitCleanup == cl' = CleanupIdle

----------------------------------------------------------------------------
\* fatal("no index files specified") without any.
StartCleanup ==
    /\ cl.pc = "idle"
    /\ DOMAIN idx # {}
    /\ cl' = [CleanupIdle EXCEPT !.pc = "mark", !.argv = DOMAIN idx]
    /\ UNCHANGED <<files, medium, events>>

\* Mutant: each index starts the set anew.
NeededByLast(n) == HashesOf(idx[n])

NeededWith(n) == cl.needed \cup HashesOf(idx[n])

\* The hashes of an index count even if it turns out bad at its end.
MarkIndex(n) ==
    /\ cl.pc = "mark" /\ n \in cl.argv
    /\ n \in DOMAIN idx
    /\ cl' = [cl EXCEPT !.argv = @ \ {n},
                        !.needed = NeededWith(n),
                        !.bad = @ \/ ~ idx[n].end]
    /\ UNCHANGED <<files, medium, events>>

\* ... ENOENT, if the index is deleted before it is its turn.
MarkFails(n) ==
    /\ cl.pc = "mark" /\ n \in cl.argv
    /\ n \notin DOMAIN idx
    /\ ExitCleanup
    /\ UNCHANGED <<files, medium, events>>

\* Mutant: bad indexes are reported but do not stop the cleanup.
MarkDoneAnyway ==
    /\ cl.pc = "mark" /\ cl.argv = {}
    /\ cl' = [cl EXCEPT !.pc = "list"]
    /\ UNCHANGED <<files, medium, events>>

\* fatal("%d bad input files") if one had no [end]; else on to clean_recurse.
MarkDone ==
    /\ cl.pc = "mark" /\ cl.argv = {}
    /\ IF cl.bad THEN ExitCleanup ELSE cl' = [cl EXCEPT !.pc = "list"]
    /\ UNCHANGED <<files, medium, events>>

ListRepo ==
    /\ cl.pc = "list"
    /\ cl' = [cl EXCEPT !.pc = "sweep",
                        !.names = ((DOMAIN objs) \X {"obj"})
                                     \cup ((DOMAIN tmps) \X {"tmp"})]
    /\ UNCHANGED <<files, medium, events>>

Exists(x) == x[1] \in (IF x[2] = "obj" THEN DOMAIN objs ELSE DOMAIN tmps)

\* The next file, if type() finds it there.
SweepFile(x) ==
    /\ cl.pc = "sweep" /\ x \in cl.names
    /\ Exists(x)
    /\ cl' = [cl EXCEPT !.pc = "check", !.file = x, !.names = @ \ {x}]
    /\ UNCHANGED <<files, medium, events>>

\* ... type() throws, if the file has gone since it was listed.
SweepFails(x) ==
    /\ cl.pc = "sweep" /\ x \in cl.names
    /\ ~ Exists(x)
    /\ ExitCleanup
    /\ UNCHANGED <<files, medium, events>>

\* Mutant: the suffix of a .tmp is not looked at.
KeepAnySuffix(x) ==
    /\ x[1] \in cl.needed
    /\ DetectBogus /\ x[2] = "obj" => x[1] \in DOMAIN objs /\ Intact(x[1])

\* The name of a .tmp is no valid hash, so it is never kept; nor is, with
\* --detect-bogus, an object that has gone before it was hashed.
Keep(x) ==
    /\ x[2] = "obj" /\ x[1] \in cl.needed
    /\ DetectBogus => x[1] \in DOMAIN objs /\ Intact(x[1])

\* The run has dealt with the file.
Passed == [cl EXCEPT !.pc = "sweep", !.file = None]

Verdict(keep) ==
    /\ cl.pc = "check"
    /\ cl' = IF keep \/ ~ DeleteClean THEN Passed ELSE [cl EXCEPT !.pc = "remove"]
    /\ UNCHANGED <<files, medium>>

CheckFile == Verdict(Keep(cl.file)) /\ UNCHANGED events

\* While --detect-bogus hashes the file a read of it fails: the handler that
\* is meant for names that are no hash does not keep the file either.
CheckUnreadable ==
    /\ ReadErrors /\ DetectBogus
    /\ Verdict(FALSE)
    /\ cl.file[2] = "obj" /\ Exists(cl.file)
    /\ Event

RemoveFile ==
    /\ cl.pc = "remove" /\ Exists(cl.file)
    /\ cl' = Passed
    /\ IF cl.file[2] = "obj" THEN RemoveObj(cl.file[1]) /\ UNCHANGED tmps
                             ELSE RemoveTmp(cl.file[1]) /\ UNCHANGED objs
    /\ UNCHANGED <<files, idx, events>>

\* "don't crap out if we run into a file we cannot delete": the error is
\* reported and the sweep goes on.
RemoveFails ==
    /\ cl.pc = "remove" /\ Exists(cl.file)
    /\ cl' = [Passed EXCEPT !.failed = @ \cup {cl.file}]
    /\ Event
    /\ UNCHANGED <<files, medium>>

\* ... as it does after the ENOENT of a file that somebody else took.
RemoveGone ==
    /\ cl.pc = "remove" /\ ~ Exists(cl.file)
    /\ cl' = Passed
    /\ UNCHANGED <<files, medium, events>>

SweepDone ==
    /\ cl.pc = "sweep" /\ cl.names = {}
    /\ ExitCleanup
    /\ UNCHANGED <<files, medium, events>>

CleanupStep ==
    \/ \E n \in cl.argv : MarkIndex(n) \/ MarkFails(n)
    \/ MarkDone \/ ListRepo
    \/ \E x \in cl.names : SweepFile(x) \/ SweepFails(x)
    \/ CheckFile \/ CheckUnreadable \/ RemoveFile \/ RemoveFails \/ RemoveGone
    \/ SweepDone
=============================================================================
