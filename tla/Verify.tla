------------------------------ MODULE Verify ------------------------------
(***************************************************************************)
(* nhbackup --verify: do_verify.  Each object an index names is hashed; a  *)
(* missing or wrong one is reported, and a wrong one removed if told so by *)
(* --detect-bogus.                                                         *)
(***************************************************************************)
EXTENDS Medium

VARIABLE vf     \* the run of the verification

\* The index is read as it was when it was opened: the file is not written
\* again, and deleting it takes only its name away.
Check == [pc : {"idle", "verify", "remove"},
          index : {None} \cup IndexFile,
          left : SUBSET HashName,       \* hashes of lines not yet reached
          ok : BOOLEAN,                 \* no error reported so far
          wrong : {None} \cup HashName] \* the object about to be removed

VerifyIdle == [pc |-> "idle", index |-> None, left |-> {}, ok |-> TRUE,
               wrong |-> None]

VerifyTypeOK ==
    /\ vf \in Check
    /\ vf.pc = "remove" => vf.wrong # None
VerifyInit == vf = VerifyIdle

Verifying == vf.pc # "idle"

----------------------------------------------------------------------------
StartVerify(n) ==
    /\ vf.pc = "idle"
    /\ n \in DOMAIN idx
    /\ vf' = [pc |-> "verify", index |-> idx[n], left |-> HashesOf(idx[n]),
              ok |-> TRUE, wrong |-> None]
    /\ UNCHANGED <<files, medium, events>>

Visited(h, ok) == vf' = [vf EXCEPT !.left = @ \ {h}, !.ok = @ /\ ok]

\* Mutant: only the length is looked at.
SameLength(h) == Len(objs[h]) = Len(h.sha1)

SameHash(h) == Hash(objs[h]) = h

VerifyGood(h) ==
    /\ vf.pc = "verify" /\ h \in vf.left
    /\ h \in DOMAIN objs /\ SameHash(h)
    /\ Visited(h, TRUE)
    /\ UNCHANGED <<files, medium, events>>

\* A mismatch is reported; with --detect-bogus the object is removed next.
VerifyMismatch(h) ==
    /\ vf.pc = "verify" /\ h \in vf.left
    /\ h \in DOMAIN objs /\ ~ SameHash(h)
    /\ vf' = [vf EXCEPT !.left = @ \ {h}, !.ok = FALSE,
                        !.pc = IF DetectBogus THEN "remove" ELSE "verify",
                        !.wrong = IF DetectBogus THEN h ELSE None]
    /\ UNCHANGED <<files, medium, events>>

\* Whatever has that name by now is removed; ENOENT is one more line of error.
RemoveWrong ==
    /\ vf.pc = "remove"
    /\ vf' = [vf EXCEPT !.pc = "verify", !.wrong = None]
    /\ IF vf.wrong \in DOMAIN objs
       THEN RemoveObj(vf.wrong) /\ UNCHANGED <<idx, tmps>>
       ELSE UNCHANGED medium
    /\ UNCHANGED <<files, events>>

VerifyMissing(h) ==
    /\ vf.pc = "verify" /\ h \in vf.left
    /\ h \notin DOMAIN objs
    /\ Visited(h, FALSE)
    /\ UNCHANGED <<files, medium, events>>

\* Down to [end], or to the BadIndexFile of an index that lacks it.
VerifyDone ==
    /\ vf.pc = "verify" /\ vf.left = {}
    /\ vf' = VerifyIdle
    /\ UNCHANGED <<files, medium, events>>

VerifyStep ==
    \/ \E h \in vf.left : VerifyGood(h) \/ VerifyMismatch(h) \/ VerifyMissing(h)
    \/ RemoveWrong \/ VerifyDone
=============================================================================
