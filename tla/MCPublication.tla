--------------------------- MODULE MCPublication ---------------------------
(* Instances of Publication for TLC. *)
EXTENDS Publication, TLC

CONSTANTS h1, h2

\* The heads are interchangeable.
TwoHeads == Permutations(Commit)

\* No row is claimed twice.
OneClaim == \A h \in Commit : row[h].attempts <= 1
=============================================================================
