---------------------------- MODULE MCAdmission ----------------------------
(***************************************************************************)
(* Instances of Admission for TLC.  Times are scaled: only their order     *)
(* matters, and it is that of src/pipeline/consumer.ts:                    *)
(*   every delay < ttl <= sum of the delays, wall < ttl;                   *)
(*   quick: the last two delays alone reach the ttl (300 + 2040 >= 2292);  *)
(*   deep:  they do not (480 + 2040 < 2532);                               *)
(*   the delays of quick do not cover the ttl of deep (2400 < 2532).       *)
(***************************************************************************)
EXTENDS Admission

CONSTANTS m1, m2, m3, p1, p2, w1, a, quick, deep

MCTtl == [l \in Level |-> IF l = quick THEN 3 ELSE 5]
MCDelay == [l \in Level |-> IF l = quick THEN <<1, 1, 2>> ELSE <<1, 1, 3>>]

\* Two messages for one pull request and one for another of the same tenant.
SharedPrOf == [m \in Msg |-> IF m = m3 THEN p2 ELSE p1]
OneWorkspace == [p \in PR |-> w1]

\* Two of the messages are sent, and the third counts as ended: the two of one
\* pull request from the start, or those of two pull requests of one tenant
\* for their last delivery, after deliveries that died early.
Sent(two, n) ==
    /\ phase = [m \in Msg |-> IF m \in two THEN "queued" ELSE "skipped"]
    /\ attempts = [m \in Msg |-> IF m \in two THEN n ELSE 0]

TwoSent ==
    /\ Fresh
    /\ Sent({m1, m2}, 0) \/ Sent({m1, m3}, MaxDeliveries - 1)

MCSpec == TwoSent /\ [][Next]_vars /\ Fairness

\* The second message is a comment trigger.
CommentShaOf == [m \in Msg |-> IF m = m2 THEN NoSha ELSE a]

\* All messages name one commit.
SameShaOf == [m \in Msg |-> a]
=============================================================================
