-------------------------- MODULE MCCommentClaims --------------------------
(* Instances of CommentClaims for TLC. *)
EXTENDS CommentClaims, TLC

CONSTANTS c1, c2, h1, h2, h3, s1, s2, s3

\* The third delivery is for the second comment, when there is one.
MCCommentOf == [w \in Hook |-> IF w = h3 THEN c2 ELSE c1]

\* The slots of the queue are interchangeable.
MCSymmetry == Permutations(Slot)
=============================================================================
