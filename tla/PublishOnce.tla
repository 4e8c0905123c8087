---------------------------- MODULE PublishOnce ----------------------------
(***************************************************************************)
(* What the publication journal promises of the review of a head commit:   *)
(* it is posted at most once, it is recorded as published, and its results *)
(* kept, only when it was posted, and it is given up only when it was not  *)
(* (spec 7.7 as quoted by src/store/finding-lifecycle.ts).                 *)
(***************************************************************************)
EXTENDS Naturals

CONSTANT Commit

VARIABLES
    posted,     \* how often the review of each head reached the pull request
    recorded,   \* heads with a persisted proof of publication
    kept,       \* heads whose results are stored
    dropped     \* heads recorded as never published

vars == <<posted, recorded, kept, dropped>>

Init == posted = [h \in Commit |-> 0] /\ recorded = {} /\ kept = {} /\ dropped = {}

Post(h) ==
    /\ posted[h] = 0 /\ h \notin dropped
    /\ posted' = [posted EXCEPT ![h] = 1]
    /\ UNCHANGED <<recorded, kept, dropped>>

Record(h) ==
    /\ posted[h] = 1 /\ h \notin recorded \cup dropped
    /\ recorded' = recorded \cup {h}
    /\ UNCHANGED <<posted, kept, dropped>>

Keep(h) ==
    /\ h \in recorded \ kept
    /\ kept' = kept \cup {h}
    /\ UNCHANGED <<posted, recorded, dropped>>

Drop(h) ==
    /\ posted[h] = 0 /\ h \notin dropped
    /\ dropped' = dropped \cup {h}
    /\ UNCHANGED <<posted, recorded, kept>>

Next == \E h \in Commit : Post(h) \/ Record(h) \/ Keep(h) \/ Drop(h)

Spec == Init /\ [][Next]_vars
=============================================================================
