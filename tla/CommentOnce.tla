---------------------------- MODULE CommentOnce ----------------------------
(***************************************************************************)
(* What the durable claim promises of a comment that mentions the bot: it  *)
(* starts at most one review, and once it is settled, by that review or by *)
(* being given up, it stays settled (migrations/0048).                     *)
(***************************************************************************)
EXTENDS Naturals

CONSTANT Comment

VARIABLES
    settled,    \* comments that had their review, or were given up
    runs        \* reviews each comment has started

Init ==
    /\ settled = {}
    /\ runs = [c \in Comment |-> 0]

\* The one review of a comment starts.
Run(c) ==
    /\ c \notin settled
    /\ settled' = settled \cup {c}
    /\ runs' = [runs EXCEPT ![c] = @ + 1]

\* Comments are given up, several at once if the sweep expires them so.
GiveUp(S) ==
    /\ S \cap settled = {}
    /\ settled' = settled \cup S
    /\ UNCHANGED runs

Next ==
    \/ \E c \in Comment : Run(c)
    \/ \E S \in SUBSET Comment : GiveUp(S)

Spec == Init /\ [][Next]_<<settled, runs>>
=============================================================================
