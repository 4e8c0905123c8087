---------------------------- MODULE Resolutions ----------------------------
(***************************************************************************)
(* The resolution of one review thread: the association's row in the queue *)
(* (review_threads), the consumer that enqueues a verdict and tries it at  *)
(* once (processMessage, step 16), the cron lane that goes on with it      *)
(* (reconcileResolutions in src/worker/lifecycle-reconcile.ts) and the     *)
(* fences both pass (resolveFindingThreadWithDeps in                       *)
(* src/pipeline/review-threads.ts).                                        *)
(*                                                                         *)
(* GitHub has no conditional resolve.  What people do is counted: `talk`   *)
(* are the pushes and the replies in the thread, `issue` the comments on   *)
(* the pull request; a digest is the count it was taken at, so a digest    *)
(* that is equal stands for a discussion that has not changed.             *)
(***************************************************************************)
EXTENDS Naturals

CONSTANTS
    MaxTalk, MaxIssue,  \* what people may do
    MaxReviews,         \* rounds that check the finding
    MaxAttempts,        \* LIFECYCLE_MAX_ATTEMPTS: 5 in production
    MaxFaults           \* deaths, slow resolvers and requests that fail

VARIABLES
    row,        \* review_threads
    addressed,  \* the finding's state
    thread,     \* on GitHub
    talk, issue,
    at,         \* where each actor stands
    carry,      \* the verdict it works with
    spent,      \* the attempts the cron has read
    reviews, faults

vars == <<row, addressed, thread, talk, issue, at, carry, spent, reviews, faults>>

people == <<talk, issue>>

Actor   == {"consumer", "cron"}
Verdict == [talk : 0..MaxTalk, issue : 0..MaxIssue]
Queued  == {"pending", "retry"}

\* recovery_kind, and what is known of the credentials it was recorded with:
\* the App was off; no fingerprint; that of the credentials in use; another one.
Suspended == {"disabled", "unrecorded", "mismatch", "changed"}

Sane == /\ MaxTalk \in Nat /\ MaxIssue \in Nat /\ MaxReviews \in Nat
        /\ MaxAttempts \in Nat \ {0} /\ MaxFaults \in Nat

TypeOK ==
    /\ row \in [state : Queued \cup Suspended \cup {"needs-recheck", "local-error",
                                                   "resolved", "abandoned"},
                verified : BOOLEAN,             \* verified_json is there
                verdict : Verdict,
                owner : Actor \cup {"dead", "none"},
                live : BOOLEAN,
                attempts : 0..MaxAttempts,
                later : BOOLEAN,                \* next_attempt_ms > now
                superseded : BOOLEAN,
                late : BOOLEAN]                 \* late_change
    /\ addressed \in BOOLEAN
    /\ thread \in [resolved : BOOLEAN, ours : BOOLEAN, at : 0..MaxTalk]
    /\ talk \in 0..MaxTalk /\ issue \in 0..MaxIssue
    /\ at \in [Actor -> {"idle", "reviewing", "enqueue", "claim", "claimed",
                         "capture", "issue", "adopt", "ready", "mutating",
                         "mutated", "needs-recheck", "failed"}]
    /\ carry \in [Actor -> Verdict]
    /\ spent \in 0..MaxAttempts
    /\ reviews \in 0..MaxReviews /\ faults \in 0..MaxFaults
    /\ row.live => row.owner # "none"

Zero == [talk |-> 0, issue |-> 0]

Init ==
    /\ row = [state |-> "pending", verified |-> FALSE, verdict |-> Zero,
              owner |-> "none", live |-> FALSE, attempts |-> 0, later |-> FALSE,
              superseded |-> FALSE, late |-> FALSE]
    /\ addressed = FALSE
    /\ thread = [resolved |-> FALSE, ours |-> FALSE, at |-> 0]
    /\ talk = 0 /\ issue = 0
    /\ at = [a \in Actor |-> "idle"]
    /\ carry = [a \in Actor |-> Zero]
    /\ spent = 0 /\ reviews = 0 /\ faults = 0

-----------------------------------------------------------------------------

Fault == faults < MaxFaults /\ faults' = faults + 1

Goto(a, where) == at' = [at EXCEPT ![a] = where]

\* A bug: the lease runs on without a holder.
FreedHalf(r) == [r EXCEPT !.owner = "none"]

Freed(r) == [r EXCEPT !.owner = "none", !.live = FALSE]

\* releaseAssociationLease and persistOutcome: holder and epoch, not expiry.
Released(a) == IF row.owner = a THEN Freed(row) ELSE row

Persisted(a, state, late) ==
    IF row.owner = a
    THEN [Freed(row) EXCEPT !.state = state, !.late = late, !.later = FALSE]
    ELSE row

\* Only the cron acts on what the resolver answers.
Answers(a, what) == Goto(a, IF a = "cron" THEN what ELSE "idle")

-----------------------------------------------------------------------------
(* A round of the consumer.                                                *)

\* A finding is checked while it is open, and afterwards as long as the thread
\* is not settled.  The discussion is captured.
Recheckable ==
    \/ ~addressed
    \/ /\ ~row.superseded
       /\ row.state \in Queued \cup {"needs-recheck", "local-error"}

Review ==
    /\ at["consumer"] = "idle" /\ reviews < MaxReviews /\ Recheckable
    /\ reviews' = reviews + 1
    /\ carry' = [carry EXCEPT !["consumer"] = [talk |-> talk, issue |-> issue]]
    /\ Goto("consumer", "reviewing")
    /\ UNCHANGED <<row, addressed, thread, people, spent, faults>>

\* The verdict is applied: addressed, with what a resolve needs or without;
\* seen again, with a line of its own or without; or neither.
Verify ==
    /\ at["consumer"] = "reviewing"
    /\ \/ /\ addressed' = TRUE
          /\ \/ ~row.superseded /\ Goto("consumer", "enqueue")
             \/ Goto("consumer", "idle")
          /\ UNCHANGED row
       \/ /\ addressed' = FALSE
          /\ row' \in {row, [row EXCEPT !.superseded = TRUE]}
          /\ Goto("consumer", "idle")
       \/ Goto("consumer", "idle") /\ UNCHANGED <<row, addressed>>
    /\ UNCHANGED <<thread, people, carry, spent, reviews, faults>>

\* A new verdict resets the attempts.  The entry is tried at once if the round
\* has time and finds the thread.
Enqueue ==
    /\ at["consumer"] = "enqueue"
    /\ row' = [row EXCEPT !.state = "pending", !.verified = TRUE,
                          !.verdict = carry["consumer"], !.attempts = 0,
                          !.later = FALSE]
    /\ \E where \in {"claim", "idle"} : Goto("consumer", where)
    /\ UNCHANGED <<addressed, thread, people, carry, spent, reviews, faults>>

-----------------------------------------------------------------------------
(* resolveFindingThreadWithDeps.                                           *)

\* claimAssociationLease; a settled row ends it, a live lease is a retry.
Claim(a) ==
    /\ at[a] = "claim"
    /\ IF row.state \in Queued /\ ~row.live
       THEN /\ row' = [row EXCEPT !.owner = a, !.live = TRUE,
                                  !.attempts = IF @ < MaxAttempts THEN @ + 1 ELSE @]
            /\ Goto(a, "claimed")
       ELSE /\ UNCHANGED row
            /\ IF row.state \in {"resolved", "abandoned"} THEN Goto(a, "idle")
                                                          ELSE Answers(a, "failed")
    /\ UNCHANGED <<addressed, thread, people, carry, spent, reviews, faults>>

\* The row is not superseded and the finding is still addressed.
Reload(a) ==
    /\ at[a] = "claimed"
    /\ IF row.superseded
       THEN row' = Persisted(a, "abandoned", FALSE) /\ Goto(a, "idle")
       ELSE IF ~addressed
       THEN row' = Released(a) /\ Answers(a, "needs-recheck")
       ELSE UNCHANGED row /\ Goto(a, "capture")
    /\ UNCHANGED <<addressed, thread, people, carry, spent, reviews, faults>>

\* A bug: the digest is refreshed by what is read.
CaptureBlesses(a) ==
    /\ at[a] = "capture"
    /\ Goto(a, IF thread.resolved THEN "adopt" ELSE "issue")
    /\ carry' = [carry EXCEPT ![a].talk = talk]
    /\ UNCHANGED <<row, addressed, thread, people, spent, reviews, faults>>

\* The thread is read: head and conversation must be those of the verdict.
Capture(a) ==
    /\ at[a] = "capture"
    /\ IF talk # carry[a].talk
       THEN row' = Released(a) /\ Answers(a, "needs-recheck")
       ELSE UNCHANGED row /\ Goto(a, IF thread.resolved THEN "adopt" ELSE "issue")
    /\ UNCHANGED <<addressed, thread, people, carry, spent, reviews, faults>>

\* What the verdict saw, or what is read now, is not all there is.
Incomplete(a) ==
    /\ at[a] = "capture" /\ Fault
    /\ row' = Released(a) /\ Answers(a, "needs-recheck")
    /\ UNCHANGED <<addressed, thread, people, carry, spent, reviews>>

\* The pull request's comments are read.  A thread that was resolved is
\* adopted.
CheckIssue(a) ==
    /\ at[a] \in {"adopt", "issue"}
    /\ IF issue # carry[a].issue
       THEN row' = Released(a) /\ Answers(a, "needs-recheck")
       ELSE IF at[a] = "adopt"
       THEN row' = Persisted(a, "resolved", FALSE) /\ Goto(a, "idle")
       ELSE UNCHANGED row /\ Goto(a, "ready")
    /\ UNCHANGED <<addressed, thread, people, carry, spent, reviews, faults>>

\* The lease is read once more before the mutation leaves.
Recheck(a) ==
    /\ at[a] = "ready"
    /\ IF row.owner = a /\ row.live THEN Goto(a, "mutating") ELSE Answers(a, "failed")
    /\ UNCHANGED <<row, addressed, thread, people, carry, spent, reviews, faults>>

Resolve == thread' = IF thread.resolved THEN thread
                     ELSE [resolved |-> TRUE, ours |-> TRUE, at |-> talk]

Mutate(a) ==
    /\ at[a] = "mutating"
    /\ Resolve
    /\ Goto(a, "mutated")
    /\ UNCHANGED <<row, addressed, people, carry, spent, reviews, faults>>

\* A request fails, or its answer is lost, or the identity is unavailable.
Fails(a) ==
    /\ at[a] \in {"capture", "adopt", "issue", "mutating"} /\ Fault
    /\ \/ at[a] = "mutating" /\ Resolve
       \/ UNCHANGED thread
    /\ row' = Persisted(a, "retry", FALSE)
    /\ Answers(a, "failed")
    /\ UNCHANGED <<addressed, people, carry, spent, reviews>>

\* The thread is gone, or not the App's own.
Foreign(a) ==
    /\ at[a] = "capture" /\ Fault
    /\ row' = Persisted(a, "abandoned", FALSE)
    /\ Goto(a, "idle")
    /\ UNCHANGED <<addressed, thread, people, carry, spent, reviews>>

\* A bug: the thread is not read again.
ObserveNothing(a) ==
    /\ at[a] = "mutated"
    /\ row' = Persisted(a, "resolved", FALSE)
    /\ Goto(a, "idle")
    /\ UNCHANGED <<addressed, thread, people, carry, spent, reviews, faults>>

\* One read after the mutation; if it fails, that is a late change too.
Observe(a) ==
    /\ at[a] = "mutated"
    /\ \/ row' = Persisted(a, "resolved", talk # carry[a].talk) /\ UNCHANGED faults
       \/ Fault /\ row' = Persisted(a, "resolved", TRUE)
    /\ Goto(a, "idle")
    /\ UNCHANGED <<addressed, thread, people, carry, spent, reviews>>

-----------------------------------------------------------------------------
(* The cron.                                                               *)

Recoverable ==
    /\ row.state \in Queued /\ row.verified /\ ~row.superseded
    /\ ~row.later /\ ~row.live

\* listResolutionRecovery, and the row's verdict.
Select ==
    /\ at["cron"] = "idle" /\ Recoverable /\ row.attempts < MaxAttempts
    /\ carry' = [carry EXCEPT !["cron"] = row.verdict]
    /\ spent' = row.attempts
    /\ Goto("cron", "claim")
    /\ UNCHANGED <<row, addressed, thread, people, reviews, faults>>

\* The App is off; or its credentials can not be read; or GET /app fails or
\* shows another App, which is a mismatch of the credentials in use.
Suspend ==
    /\ at["cron"] = "claim" /\ Fault
    /\ \E kind \in Suspended \ {"changed"} :
         row' = IF row.state \in Queued /\ ~row.live
                THEN [Freed(row) EXCEPT !.state = kind] ELSE row
    /\ Goto("cron", "idle")
    /\ UNCHANGED <<addressed, thread, people, carry, spent, reviews>>

\* A bug: other credentials are not looked at.
MayReturnByStatus(state) == state \in {"disabled", "unrecorded"}

\* What the reenable lane picks up: a mismatch only with other credentials.
MayReturn(state) == state \in Suspended \ {"mismatch"}

\* The App is on.  Unless it was only off, it is asked for its identity, and a
\* failure is recorded with the credentials in use.
Reenable ==
    /\ at["cron"] = "idle" /\ MayReturn(row.state)
    /\ \/ /\ row' = [Freed(row) EXCEPT !.state = "retry", !.later = FALSE]
          /\ UNCHANGED faults
       \/ /\ row.state # "disabled" /\ Fault
          /\ row' = [Freed(row) EXCEPT !.state = "mismatch"]
    /\ UNCHANGED <<addressed, thread, people, at, carry, spent, reviews>>

\* The operator replaces the App's private key.
Rekey ==
    /\ row.state = "mismatch"
    /\ row' = [row EXCEPT !.state = "changed"]
    /\ UNCHANGED <<addressed, thread, people, at, carry, spent, reviews, faults>>

\* recordNeedsRecheck; settleFailedResolveAttempt.  The row's state and a free
\* lease are all they look at.
Settle ==
    /\ at["cron"] \in {"needs-recheck", "failed"}
    /\ row' = IF row.state \notin Queued \/ row.live THEN row
              ELSE IF at["cron"] = "needs-recheck"
              THEN [Freed(row) EXCEPT !.state = "needs-recheck", !.later = FALSE]
              ELSE IF spent + 1 >= MaxAttempts
              THEN [Freed(row) EXCEPT !.state = "local-error", !.later = FALSE]
              ELSE [Freed(row) EXCEPT !.later = TRUE]
    /\ Goto("cron", "idle")
    /\ UNCHANGED <<addressed, thread, people, carry, spent, reviews, faults>>

-----------------------------------------------------------------------------
(* The environment.                                                        *)

Die(a) ==
    /\ at[a] # "idle" /\ Fault
    /\ row' = IF row.owner = a THEN [row EXCEPT !.owner = "dead"] ELSE row
    /\ Goto(a, "idle")
    /\ UNCHANGED <<addressed, thread, people, carry, spent, reviews>>

\* A lease ends under a resolver that is slow.
Expire ==
    /\ row.live
    /\ IF row.owner = "dead" THEN UNCHANGED faults ELSE Fault
    /\ row' = [row EXCEPT !.live = FALSE]
    /\ UNCHANGED <<addressed, thread, people, at, carry, spent, reviews>>

Due ==
    /\ row.later
    /\ row' = [row EXCEPT !.later = FALSE]
    /\ UNCHANGED <<addressed, thread, people, at, carry, spent, reviews, faults>>

\* People push or reply, comment on the pull request, resolve the thread.
Talk ==
    /\ talk < MaxTalk /\ talk' = talk + 1
    /\ UNCHANGED <<row, addressed, thread, issue, at, carry, spent, reviews, faults>>

Comment ==
    /\ issue < MaxIssue /\ issue' = issue + 1
    /\ UNCHANGED <<row, addressed, thread, talk, at, carry, spent, reviews, faults>>

HumanResolves ==
    /\ ~thread.resolved
    /\ thread' = [resolved |-> TRUE, ours |-> FALSE, at |-> talk]
    /\ UNCHANGED <<row, addressed, people, at, carry, spent, reviews, faults>>

\* retryLifecycleWork.
Retry ==
    /\ Fault /\ ~row.live
    /\ row.state \in Queued \cup Suspended \cup {"local-error"}
    /\ row' = [row EXCEPT !.state = "retry", !.attempts = 0, !.later = FALSE]
    /\ UNCHANGED <<addressed, thread, people, at, carry, spent, reviews>>

-----------------------------------------------------------------------------

Resolver(a) ==
    \/ Claim(a) \/ Reload(a) \/ Capture(a) \/ Incomplete(a) \/ CheckIssue(a)
    \/ Recheck(a) \/ Mutate(a) \/ Fails(a) \/ Foreign(a) \/ Observe(a)

Consumer == Verify \/ Enqueue \/ Resolver("consumer")

Cron == Select \/ Settle \/ Resolver("cron")

Next ==
    \/ Review \/ Consumer \/ Cron \/ Suspend \/ Reenable \/ Rekey
    \/ \E a \in Actor : Die(a)
    \/ Expire \/ Due \/ Talk \/ Comment \/ HumanResolves \/ Retry

Spec == Init /\ [][Next]_vars

\* Isolates that run go on, the cron keeps being started, leases and backoffs
\* end, the reenable lane runs.  That an operator replaces a key is not assumed.
Fairness == /\ WF_vars(Consumer) /\ WF_vars(Cron)
            /\ WF_vars(Expire) /\ WF_vars(Due) /\ WF_vars(Reenable)

-----------------------------------------------------------------------------
(* Properties.                                                             *)

\* "Never claimed to cover the newer discussion": a thread that the App
\* resolved and that is recorded as resolved, without a late change, had no
\* push and no reply that the row's verdict has not seen.
LateChangeIsTold ==
    row.state = "resolved" /\ ~row.late /\ thread.ours =>
        thread.at <= row.verdict.talk

\* A verdict does not stay in the queue: it is settled, or superseded, or its
\* attempts are used up, whatever dies, fails or is said meanwhile.  One that is
\* suspended for the credentials in use has left the queue, until they are
\* replaced: the program does not bring it back (EveryAttemptReturns in
\* CheckAttempts).
InQueue ==
    /\ row.state \in Queued \cup (Suspended \ {"mismatch"})
    /\ row.verified /\ ~row.superseded /\ row.attempts < MaxAttempts

VerdictsEnd == InQueue ~> ~InQueue
=============================================================================
