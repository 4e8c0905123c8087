------------------------------ MODULE Findings ------------------------------
(***************************************************************************)
(* What published reviews do to the findings of one pull request: the      *)
(* capture and the payload of a round (processMessage, steps 5 to 12) and  *)
(* its apply by the consumer or the cron (applyPublishedLifecycle).        *)
(*                                                                         *)
(* A payload is immutable once staged.  It names the rows of findings it   *)
(* expects to find or to insert; associations refer to these rows by a     *)
(* foreign key.  Publications are numbered in the order of created_ms; how *)
(* they are sent is the business of Publication, here one comment shows    *)
(* the newest of them.                                                     *)
(***************************************************************************)
EXTENDS Naturals

CONSTANTS
    Finding,        \* identities: fingerprints
    MaxPub,         \* publications of the pull request
    MaxAttempts,    \* LIFECYCLE_MAX_ATTEMPTS: 5 in production
    MaxFaults       \* deaths, lost answers and failed statements

VARIABLES
    finding,    \* review_findings and review_finding_rounds
    pub,        \* review_publications
    shown,      \* the publication whose body the comment has
    last,       \* publications begun
    at, on,     \* where each actor stands, and with which publication
    todo,       \* older ones the consumer has still to apply
    told,       \* the round knows that its context is stale
    targets,    \* the open findings it has captured
    before,     \* confirmed and pending when a round began
    step,       \* how far an apply has come
    faults

vars == <<finding, pub, shown, last, at, on, todo, told, targets, before,
          step, faults>>

round == <<todo, told, targets, before>>

Pub   == 1..MaxPub
Actor == {"consumer", "cron"}

\* The statements of an apply come in three groups; a batch of 25 may end
\* between two of them.
Group == 1..3

Sane == /\ MaxPub \in Nat /\ MaxAttempts \in Nat \ {0} /\ MaxFaults \in Nat

Row == [known  : BOOLEAN,
        id     : 0..MaxPub,         \* the publication that chose it; 0: older
        open   : BOOLEAN,
        last   : 0..MaxPub,         \* last_publication_id
        closed : SUBSET Pub]        \* review_finding_rounds, of closures

Journal == [phase    : {"none", "sending", "confirmed", "applied"},
            owner    : Actor \cup {"dead", "none"},
            live     : BOOLEAN,
            attempts : 0..MaxAttempts,
            recovery : {"pending", "local-error"},
            seen     : SUBSET Finding,
            closes   : SUBSET Finding,          \* assessed as addressed
            lines    : SUBSET Finding,          \* line intents
            ids      : [Finding -> 0..MaxPub]]

TypeOK ==
    /\ finding \in [Finding -> Row]
    /\ pub \in [Pub -> Journal]
    /\ shown \in 0..MaxPub /\ last \in 0..MaxPub
    /\ at \in [Actor -> {"idle", "context", "reviewing", "sending", "sent",
                         "found", "applying"}]
    /\ on \in [Actor -> 0..MaxPub]
    /\ todo \subseteq Pub /\ told \in BOOLEAN /\ targets \subseteq Finding
    /\ before \in [Pub -> SUBSET Pub]
    /\ step \in [Actor -> 0..2]
    /\ faults \in 0..MaxFaults
    /\ \A n \in Pub : /\ pub[n].lines \subseteq pub[n].seen
                      /\ pub[n].live => pub[n].owner # "none"

Init ==
    /\ finding \in [Finding -> {[known |-> k, id |-> 0, open |-> o, last |-> 0,
                                 closed |-> {}] : k, o \in BOOLEAN}]
    /\ \A f \in Finding : finding[f].open => finding[f].known
    /\ pub = [n \in Pub |-> [phase |-> "none", owner |-> "none", live |-> FALSE,
                             attempts |-> 0, recovery |-> "pending", seen |-> {},
                             closes |-> {}, lines |-> {},
                             ids |-> [f \in Finding |-> 0]]]
    /\ shown = 0 /\ last = 0
    /\ at = [a \in Actor |-> "idle"] /\ on = [a \in Actor |-> 0]
    /\ todo = {} /\ told = FALSE /\ targets = {}
    /\ before = [n \in Pub |-> {}]
    /\ step = [a \in Actor |-> 0]
    /\ faults = 0

-----------------------------------------------------------------------------

Fault == faults < MaxFaults /\ faults' = faults + 1

Free(p) == [p EXCEPT !.owner = "none", !.live = FALSE]

\* claimPublication.
Claimed(a, p) == [p EXCEPT !.owner = a, !.live = TRUE,
                           !.attempts = IF @ < MaxAttempts THEN @ + 1 ELSE @]

Orphaned(a, p) == IF p.owner = a THEN [p EXCEPT !.owner = "dead"] ELSE p

\* settleFailedPublicationAttempt; the backoff is left out.
Settled(p) == IF p.owner # "cron" THEN p
              ELSE IF p.attempts < MaxAttempts THEN Free(p)
              ELSE [Free(p) EXCEPT !.recovery = "local-error"]

\* The consumer's clock stands still while it applies, the cron's does not.
Fenced(a, p) == p.owner = a /\ (a = "cron" => p.live)

Pending == {n \in Pub : pub[n].phase = "confirmed" /\ pub[n].recovery = "pending"}

Stand(a, where, n) ==
    /\ at' = [at EXCEPT ![a] = where]
    /\ on' = [on EXCEPT ![a] = n]
    /\ step' = [step EXCEPT ![a] = 0]

-----------------------------------------------------------------------------
(* The three groups of statements.                                         *)

\* The upsert: insert, reopen, or nothing when this publication was last.
SeenBy(n, F) ==
    [f \in Finding |->
       IF f \notin pub[n].seen THEN F[f]
       ELSE IF ~F[f].known
            THEN [known |-> TRUE, id |-> pub[n].ids[f], open |-> TRUE,
                  last |-> n, closed |-> {}]
            ELSE IF F[f].last # n THEN [F[f] EXCEPT !.open = TRUE, !.last = n]
            ELSE F[f]]

\* A closure, unless its round is there already.
ClosedBy(n, F) ==
    [f \in Finding |->
       IF f \in pub[n].closes /\ n \notin F[f].closed
       THEN [F[f] EXCEPT !.open = FALSE, !.closed = @ \cup {n}] ELSE F[f]]

\* The association of a line refers to its finding's row.
Dangling(n) ==
    \E f \in pub[n].lines : finding[f].known /\ finding[f].id # pub[n].ids[f]

\* The groups from i to j.
Effect(n, i, j) ==
    LET seen == IF 1 \in i..j THEN SeenBy(n, finding) ELSE finding
    IN  IF 2 \in i..j THEN ClosedBy(n, seen) ELSE seen

\* The row of publication n when the consumer is through with it.
AfterApply(a) ==
    IF a = "consumer" /\ on[a] # last
    THEN Stand(a, "context", last)
    ELSE Stand(a, "idle", 0)

\* One batch.  The last group carries the applied mark.
Batch(a) ==
    LET n == on[a] IN
    /\ at[a] = "applying"
    /\ Fenced(a, pub[n])
    /\ \E j \in step[a]+1..3 :
         /\ finding' = Effect(n, step[a] + 1, j)
         /\ IF j < 3
            THEN step' = [step EXCEPT ![a] = j] /\ UNCHANGED <<pub, at, on, todo>>
            ELSE /\ ~Dangling(n)
                 /\ pub' = [pub EXCEPT ![n] = [Free(@) EXCEPT !.phase = "applied"]]
                 /\ todo' = IF a = "consumer" THEN todo \ {n} ELSE todo
                 /\ AfterApply(a)
    /\ UNCHANGED <<shown, last, told, targets, before, faults>>

\* The fence, a statement or the foreign key refuses it: the batch is rolled
\* back.  The consumer gives up its context, or its round.
ApplyFails(a) ==
    LET n == on[a] IN
    /\ at[a] = "applying"
    /\ IF Fenced(a, pub[n]) /\ ~Dangling(n) THEN Fault ELSE UNCHANGED faults
    /\ pub' = [pub EXCEPT ![n] = IF a = "cron" THEN Settled(@) ELSE Orphaned(a, @)]
    /\ AfterApply(a)
    /\ IF a = "consumer" THEN todo' = {} /\ told' = TRUE
                         ELSE UNCHANGED <<todo, told>>
    /\ UNCHANGED <<finding, shown, last, targets, before>>

-----------------------------------------------------------------------------
(* The consumer's round.                                                   *)

\* The confirmed rows of the pull request are read.
Begin ==
    /\ at["consumer"] = "idle" /\ last < MaxPub
    /\ last' = last + 1
    /\ Stand("consumer", "context", last')
    /\ todo' = Pending
    /\ told' = FALSE
    /\ before' = [before EXCEPT ![last'] = Pending]
    /\ UNCHANGED <<finding, pub, shown, targets, faults>>

Oldest == CHOOSE n \in todo : \A m \in todo : n <= m

ClaimPendingBody(staleToo) ==
    /\ at["consumer"] = "context" /\ todo # {}
    /\ IF pub[Oldest].phase = "confirmed" /\ ~pub[Oldest].live
       THEN /\ pub' = [pub EXCEPT ![Oldest] = Claimed("consumer", @)]
            /\ Stand("consumer", "applying", Oldest)
            /\ UNCHANGED <<todo, told>>
       ELSE /\ todo' = IF staleToo THEN {} ELSE todo \ {Oldest}
            /\ told' = staleToo
            /\ UNCHANGED <<pub, at, on, step>>
    /\ UNCHANGED <<finding, shown, last, targets, before, faults>>

\* A bug: what somebody else holds is taken for applied.
ClaimPendingSkips == ClaimPendingBody(FALSE)

\* applyPendingLifecycleJournals: the oldest first; the first that can not be
\* claimed ends it, and the round is told.
ClaimPending == ClaimPendingBody(TRUE)

\* selectAssessmentTargets; it may fail.
Capture ==
    /\ at["consumer"] = "context" /\ todo = {}
    /\ Stand("consumer", "reviewing", last)
    /\ targets' = {f \in Finding : finding[f].open}
    /\ \/ UNCHANGED <<told, faults>>
       \/ Fault /\ told' = TRUE
    /\ UNCHANGED <<finding, pub, shown, last, todo, before>>

\* What the round reports, what it closes and where it has lines.  A target
\* that is reported again is not closed, and a round that was told closes
\* nothing.  Rows that are not known get an id of this publication.  The
\* staged row is claimed by the next statement.
Stage ==
    /\ at["consumer"] = "reviewing"
    /\ \E seen \in SUBSET Finding :
         \E lines \in SUBSET seen :
           \E closes \in SUBSET (IF told THEN {} ELSE targets \ seen) :
             pub' = [pub EXCEPT ![last] =
                       [phase |-> "sending", owner |-> "consumer", live |-> TRUE,
                        attempts |-> 1, recovery |-> "pending", seen |-> seen,
                        closes |-> closes, lines |-> lines,
                        ids |-> [f \in Finding |-> IF finding[f].known
                                                   THEN finding[f].id ELSE last]]]
    /\ targets' = {}
    /\ Stand("consumer", "sending", last)
    /\ UNCHANGED <<finding, shown, last, todo, told, before, faults>>

\* The comment shows it.
Send ==
    /\ at["consumer"] = "sending"
    /\ shown' = last
    /\ Stand("consumer", "sent", last)
    /\ UNCHANGED <<finding, pub, last, round, faults>>

\* No answer: the body is there or not.  The lease is left to expire.
SendFails ==
    /\ at["consumer"] = "sending" /\ Fault
    /\ shown' \in {shown, last}
    /\ pub' = [pub EXCEPT ![last] = Orphaned("consumer", @)]
    /\ Stand("consumer", "idle", 0)
    /\ UNCHANGED <<finding, last, round>>

\* recordPublicationProof, by whoever sent or found the body.
Prove(a) ==
    LET n == on[a] IN
    /\ at[a] \in {"sent", "found"}
    /\ IF pub[n].owner = a
       THEN pub' = [pub EXCEPT ![n].phase = "confirmed"] /\ Stand(a, "applying", n)
       ELSE UNCHANGED pub /\ Stand(a, "idle", 0)
    /\ UNCHANGED <<finding, shown, last, round, faults>>

-----------------------------------------------------------------------------
(* The cron.                                                               *)

Selectable(n) == /\ pub[n].phase \in {"sending", "confirmed"} /\ ~pub[n].live
                 /\ pub[n].recovery = "pending" /\ pub[n].attempts < MaxAttempts

\* reconcilePublications: by age, but a row that failed falls due later.
CronClaim(n) ==
    /\ at["cron"] = "idle" /\ Selectable(n)
    /\ \A m \in Pub : m < n /\ Selectable(m) => pub[m].attempts > 0
    /\ pub' = [pub EXCEPT ![n] = Claimed("cron", @)]
    /\ Stand("cron", IF pub[n].phase = "confirmed" THEN "applying" ELSE "sending", n)
    /\ UNCHANGED <<finding, shown, last, round, faults>>

\* discoverUncertainPublication: its exact body is there, or not.
Discover ==
    LET n == on["cron"] IN
    /\ at["cron"] = "sending"
    /\ IF shown = n THEN Stand("cron", "found", n) /\ UNCHANGED pub
       ELSE /\ pub' = [pub EXCEPT ![n] = Settled(@)]
            /\ Stand("cron", "idle", 0)
    /\ UNCHANGED <<finding, shown, last, round, faults>>

\* An isolate dies.
Die(a) ==
    /\ at[a] # "idle" /\ Fault
    /\ pub' = [n \in Pub |-> Orphaned(a, pub[n])]
    /\ Stand(a, "idle", 0)
    /\ IF a = "consumer" THEN todo' = {} ELSE UNCHANGED todo
    /\ UNCHANGED <<finding, shown, last, told, targets, before>>

\* 120 s, which is longer than a pass.  A consumer that is so slow is a fault.
Expire(n) ==
    /\ pub[n].live /\ pub[n].owner # "cron"
    /\ IF pub[n].owner = "dead" THEN UNCHANGED faults ELSE Fault
    /\ pub' = [pub EXCEPT ![n].live = FALSE]
    /\ UNCHANGED <<finding, shown, last, at, on, round, step>>

-----------------------------------------------------------------------------

Next ==
    \/ Begin \/ ClaimPending \/ Capture \/ Stage \/ Send \/ SendFails \/ Discover
    \/ \E a \in Actor : Batch(a) \/ ApplyFails(a) \/ Prove(a) \/ Die(a)
    \/ \E n \in Pub : CronClaim(n) \/ Expire(n)

Spec == Init /\ [][Next]_vars

-----------------------------------------------------------------------------
(* Properties.                                                             *)

\* "An older assessment must never lose to a newer unapplied recurrence": a
\* round closes a finding only if everything that was confirmed when it began
\* has been applied before, whoever held it and whatever failed.
ClosesInContext ==
    \A f \in Finding : \A n \in finding'[f].closed \ finding[f].closed :
      \A m \in before[n] : pub[m].phase = "applied"

ClosesWithContext == [][ClosesInContext]_vars

\* "A response/proof loss retains the staged payload" and recovery applies it: a
\* published review is given up for what fails around it, never because its own
\* payload can not be applied.
PublishedIsApplied ==
    \A n \in Pub :
        pub[n].phase = "confirmed" /\ pub[n].recovery = "local-error" => ~Dangling(n)
=============================================================================
