-------------------------- MODULE MCCheckAttempts --------------------------
(* Instances of CheckAttempts for TLC. *)
EXTENDS CheckAttempts

\* One attempt, disturbed in several ways, and two that follow each other.
MCBudgets ==
    {[claims |-> 1, faults |-> 1, retries |-> 1, switches |-> 0],
     [claims |-> 1, faults |-> 2, retries |-> 0, switches |-> 0],
     [claims |-> 1, faults |-> 1, retries |-> 0, switches |-> 2],
     [claims |-> 2, faults |-> 0, retries |-> 0, switches |-> 0]}

\* One attempt, one answer that is lost.
OneLoss == {[claims |-> 1, faults |-> 1, retries |-> 0, switches |-> 0]}
=============================================================================
