--------------------------- MODULE SnapshotStore ---------------------------
(***************************************************************************)
(* What a backup medium promises: a collection of named snapshots.  A      *)
(* snapshot appears whole, never changes, and goes away only whole.        *)
(***************************************************************************)
CONSTANTS Name, File, Data

VARIABLE snap   \* snap[n][f]: what a restore of snapshot n gives for f

Init == snap = [n \in {} |-> [f \in File |-> n]]

Kept == \A m \in DOMAIN snap \cap DOMAIN snap' : snap'[m] = snap[m]

Publish(n) ==
    /\ n \notin DOMAIN snap
    /\ DOMAIN snap' = DOMAIN snap \cup {n}
    /\ snap' \in [DOMAIN snap' -> [File -> Data]]
    /\ Kept

Discard(n) ==
    /\ n \in DOMAIN snap
    /\ DOMAIN snap' = DOMAIN snap \ {n}
    /\ snap' \in [DOMAIN snap' -> [File -> Data]]
    /\ Kept

Next == \E n \in Name : Publish(n) \/ Discard(n)

Spec == Init /\ [][Next]_snap
=============================================================================
