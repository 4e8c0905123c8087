---------------------------- MODULE Publication ----------------------------
(***************************************************************************)
(* The publication journal of one pull request (review_publications in     *)
(* src/store/finding-lifecycle.ts) between its two writers: the consumer,  *)
(* which stages a finished review, sends it to GitHub and applies its      *)
(* results (processMessage, steps 4 to 14), and the cron lane that         *)
(* finishes what a dead consumer left (src/worker/lifecycle-reconcile.ts). *)
(*                                                                         *)
(* A head commit has at most one row.  Every write is fenced by a lease    *)
(* that expires; a holder that lost its lease may still be running.  The   *)
(* surface is the App's marker comments on the pull request: a send reads  *)
(* them and then mutates them, in two requests.                            *)
(*                                                                         *)
(* There is one consumer per pull request (see Admission) and one cron     *)
(* pass at a time.  The rows are those of reviews.  A degraded notice has  *)
(* a row of the same kind and markers of its own, and is left out.         *)
(***************************************************************************)
EXTENDS Naturals, Sequences

CONSTANTS
    Commit,           \* head commits of the pull request
    NoCommit,
    Prior,          \* a publication of an earlier head, already applied
    Gone,           \* what is left of a deleted comment
    MaxAttempts,    \* LIFECYCLE_MAX_ATTEMPTS: 5 in production
    SelectLimit,    \* RECONCILE_SELECT_LIMIT: 10 in production
    PendingLimit,   \* rows the consumer reads: 10 in production
    AppState,       \* states the App may get into: a subset of
                    \*   {"active", "paused", "unavailable"}
    Operator,       \* may an operator retry a publication, or replace the key?
    Probe,          \* may the check of the credentials fail, the App being on?
    Human           \* may people delete comments?

Actor == {"consumer", "cron"}

ASSUME PublicationAssumption ==
    /\ NoCommit \notin Commit
    /\ Prior \notin Commit /\ Gone \notin Commit /\ Prior # Gone
    /\ MaxAttempts \in Nat \ {0}
    /\ SelectLimit \in Nat \ {0} /\ PendingLimit \in Nat \ {0}
    /\ "active" \in AppState
    /\ AppState \subseteq {"active", "paused", "unavailable"}
    /\ Operator \in BOOLEAN /\ Probe \in BOOLEAN /\ Human \in BOOLEAN

VARIABLES
    row,        \* review_publications, and the review row of the same head
    stamps,     \* <<head, "created">> and <<head, "due">>, in order of time
    comments,   \* bodies of the App's marker comments, oldest first
    app,        \* state of the App
    at,         \* where each actor stands
    todo,       \* rows it has read and has still to work on
    cur,        \* the head the consumer reviews
    plan,       \* the round and the target comment it has planned
    young,      \* heads claimed since the current cron pass began
    landed      \* how often the body of each head reached the surface

work == <<at, todo, cur, plan>>
vars == <<row, stamps, comments, app, at, todo, cur, plan, young, landed>>

-----------------------------------------------------------------------------
(* Types.                                                                  *)

\* The phases with an owner to come, and the three terminal ones.
Claimable == {"prepared", "sending", "unknown", "confirmed"}

\* The kind of a suspension, and what is known of the credentials it was
\* recorded with: the App was off; no fingerprint; that of the credentials in
\* use; another one.
Suspended == {"disabled", "unrecorded", "mismatch", "changed"}

Phase == {"absent"} \cup Claimable \cup {"applied", "failed", "superseded"}

Row == [phase    : Phase,
        owner    : Actor \cup {"dead", "none"},  \* who has the lease token
        live     : BOOLEAN,                      \* lease_until_ms > now
        attempts : 0..MaxAttempts,
        next     : {"none", "later", "due"},     \* next_attempt_ms
        aged     : BOOLEAN,                      \* created_ms 60s ago
        recovery : {"pending", "done", "local-error"} \cup Suspended,
        round    : Nat,
        target   : Nat,                          \* 0: none, create
        proof    : BOOLEAN,
        stored   : BOOLEAN]                      \* the row in reviews

NoRow == [phase |-> "absent", owner |-> "none", live |-> FALSE,
          attempts |-> 0, next |-> "none", aged |-> FALSE,
          recovery |-> "done", round |-> 0, target |-> 0, proof |-> FALSE,
          stored |-> FALSE]

Steps == {"idle", "context", "planned", "staged", "row", "stale", "checked",
          "claimed", "updating", "creating", "rejected", "discovering",
          "sent", "proven", "put"}

Items == [head : Commit, phase : Phase, attempts : 0..MaxAttempts]

TypeOK ==
    /\ row \in [Commit -> Row]
    /\ stamps \in Seq(Commit \X {"created", "due"})
    /\ comments \in Seq(Commit \cup {Prior, Gone})
    /\ app \in AppState
    /\ at \in [Actor -> Steps]
    /\ todo \in [Actor -> Seq(Items)]
    /\ cur \in Commit \cup {NoCommit}
    /\ plan \in [round : Nat, target : 0..Len(comments)]
    /\ young \subseteq Commit
    /\ landed \in [Commit -> Nat]
    /\ \A h \in Commit : row[h].target <= Len(comments)
                       /\ (row[h].live => row[h].owner # "none")

-----------------------------------------------------------------------------
(* Statements on a row.                                                    *)

\* A bug: the expiry stays when the holder goes.
HalfFree(r) == [r EXCEPT !.owner = "none"]

Free(r) == [r EXCEPT !.owner = "none", !.live = FALSE]

\* A bug: a live lease of somebody else does not count.
MayClaimAnyway(r) == r.phase \in Claimable

MayClaim(r) == r.phase \in Claimable /\ ~r.live

\* claimPublication.  Attempts count up to the cap, where they matter last.
Claimed(a, r) ==
    [r EXCEPT !.owner = a, !.live = TRUE,
              !.attempts = IF @ < MaxAttempts THEN @ + 1 ELSE @,
              !.phase = IF @ = "prepared" THEN "sending" ELSE @]

\* holder and lease_epoch are those of this actor's last claim.
Fenced(a, r) == r.owner = a

\* recordPublicationProof: holder and epoch, not the expiry.
MayProve(a, r) == Fenced(a, r) /\ r.phase \in Claimable

Proved(r) == [r EXCEPT !.phase = "confirmed", !.proof = TRUE,
                       !.recovery = "pending", !.next = "none"]

\* applyPublishedLifecycle and its last statement.
MayApply(a, r) == Fenced(a, r) /\ r.live /\ r.phase = "confirmed" /\ r.proof

\* The consumer's clock stands still from the first check to the last.
MayMark(a, r) == /\ Fenced(a, r) /\ r.phase = "confirmed" /\ r.proof
                 /\ a = "cron" => r.live

Applied(r) == [Free(r) EXCEPT !.phase = "applied", !.recovery = "done"]

\* markPublicationFailed.
MayFail(a, r) == Fenced(a, r) /\ r.phase \in Claimable \ {"confirmed"}

Failed(r) == [Free(r) EXCEPT !.phase = "failed"]

\* releaseUnspentPublicationClaim.
MayUnspend(a, r) == Fenced(a, r) /\ r.phase = "sending" /\ r.attempts > 0

Unspent(r) == [Free(r) EXCEPT !.phase = "prepared", !.attempts = @ - 1]

\* supersedePublication: any phase that is not terminal, but a free lease.
Superseded(r) == [Free(r) EXCEPT !.phase = "superseded", !.recovery = "done"]

\* The token of a lease dies with the work of its holder.
Orphaned(a, r) == IF Fenced(a, r) THEN [r EXCEPT !.owner = "dead"] ELSE r

\* A bug: an attempt whose outcome is unknown may be sent again.
SettledForResend(r, n, uncertain) ==
    IF ~Fenced("cron", r) THEN r
    ELSE [Free(r) EXCEPT !.next = "later",
                         !.phase = IF uncertain /\ @ = "sending" THEN "prepared" ELSE @]

\* settleFailedPublicationAttempt, for a row read with `n` attempts.
Settled(r, n, uncertain) ==
    IF ~Fenced("cron", r) THEN r
    ELSE IF n + 1 >= MaxAttempts
         THEN [Free(r) EXCEPT !.recovery = "local-error"]
         ELSE [Free(r) EXCEPT !.next = "later",
                              !.phase = IF uncertain /\ @ = "sending"
                                        THEN "unknown" ELSE @]

-----------------------------------------------------------------------------
(* The surface.                                                            *)

RoundOf(b) == IF b = Prior THEN 1 ELSE row[b].round

Markers == {i \in DOMAIN comments : comments[i] # Gone}

First == CHOOSE i \in Markers : \A j \in Markers : i <= j

\* planUpsert: the next round on the first marker, or a new comment.
NextPlan ==
    IF Markers = {} THEN [round |-> 1, target |-> 0]
    ELSE [round |-> RoundOf(comments[First]) + 1, target |-> First]

\* What the scan of postPreparedReview decides for head h: "sent" when its
\* exact body is already there, "rejected" when the target moved on.
Decision(h) ==
    LET t == row[h].target
    IN IF t = 0
       THEN IF Markers = {} THEN "creating"
            ELSE IF comments[First] = h THEN "sent" ELSE "rejected"
       ELSE IF comments[t] = Gone THEN "creating"
            ELSE IF comments[t] = h THEN "sent"
            ELSE IF RoundOf(comments[t]) = row[h].round - 1 THEN "updating"
            ELSE "rejected"

-----------------------------------------------------------------------------
(* The actors.                                                             *)

\* The head an actor works on: the first row it has read and not finished,
\* for the consumer after those rows the head under review.
On(a) == IF todo[a] # <<>> THEN todo[a][1].head ELSE cur

Goto(a, step) == /\ at' = [at EXCEPT ![a] = step]
                 /\ UNCHANGED <<todo, cur, plan>>

NoPlan == [round |-> 0, target |-> 0]

\* The consumer ends its round.
EndRound ==
    /\ at' = [at EXCEPT !["consumer"] = "idle"]
    /\ todo' = [todo EXCEPT !["consumer"] = <<>>]
    /\ cur' = NoCommit
    /\ plan' = NoPlan

\* An actor is through with the row it works on.  After a failure the
\* consumer leaves the other pending rows alone and goes on with its review.
Done(a, ok) ==
    IF a = "cron"
    THEN /\ at' = [at EXCEPT !["cron"] = "row"]
         /\ todo' = [todo EXCEPT !["cron"] = Tail(@)]
         /\ UNCHANGED <<cur, plan>>
    ELSE IF todo["consumer"] = <<>> THEN EndRound
    ELSE /\ at' = [at EXCEPT !["consumer"] = "context"]
         /\ todo' = [todo EXCEPT !["consumer"] = IF ok THEN Tail(@) ELSE <<>>]
         /\ UNCHANGED <<cur, plan>>

\* A failed step: the cron settles the attempt, the consumer keeps the lease
\* until it expires.
Fails(a, uncertain) ==
    LET h == On(a)
    IN  /\ row' = [row EXCEPT ![h] =
                     IF a = "cron"
                     THEN Settled(@, todo["cron"][1].attempts, uncertain)
                     ELSE Orphaned(a, @)]
        /\ Done(a, FALSE)

\* A claim changes a row, or none: then `else` is what the actor does.
Claim(a, step, else) ==
    LET h == On(a)
    IN \/ /\ MayClaim(row[h])
          /\ row' = [row EXCEPT ![h] = Claimed(a, @)]
          /\ young' = IF at["cron"] = "idle" THEN young ELSE young \cup {h}
          /\ Goto(a, step)
       \/ /\ ~MayClaim(row[h])
          /\ else
          /\ UNCHANGED <<row, young>>

-----------------------------------------------------------------------------
(* processMessage up to the claim.                                         *)

\* The stamps that rows are ordered by: of their next attempt, or of their
\* creation.
Current == {i \in DOMAIN stamps :
              stamps[i][2] = IF row[stamps[i][1]].next = "due" THEN "due" ELSE "created"}

Creations == {i \in DOMAIN stamps : stamps[i][2] = "created"}

\* ORDER BY the time, LIMIT n: which of the stamps are read.
Oldest(those, n) ==
    {s \in UNION {[1..k -> those] : k \in 0..n} :
       /\ \A i, j \in DOMAIN s : i < j => s[i] < s[j]
       /\ \A t \in those : \/ \E i \in DOMAIN s : s[i] = t
                           \/ Len(s) = n /\ \A i \in DOMAIN s : s[i] < t}

Item(i) == LET h == stamps[i][1]
           IN  [head |-> h, phase |-> row[h].phase, attempts |-> row[h].attempts]

Read(a, step, those, n) ==
    \E s \in Oldest(those, n) :
       /\ at' = [at EXCEPT ![a] = step]
       /\ todo' = [todo EXCEPT ![a] = [k \in DOMAIN s |-> Item(s[k])]]

\* The head is neither reviewed nor in the journal with an owner to come.
\* The rows confirmed and not yet applied are read, oldest first.
Begin(h) ==
    LET those == {i \in Creations : /\ row[stamps[i][1]].phase = "confirmed"
                                   /\ row[stamps[i][1]].recovery = "pending"}
    IN  /\ at["consumer"] = "idle" /\ app = "active"
        /\ ~row[h].stored /\ row[h].phase \notin Claimable
        /\ Read("consumer", "context", those, PendingLimit)
        /\ cur' = h
        /\ UNCHANGED <<row, stamps, comments, app, plan, young, landed>>

\* applyPendingLifecycleJournals claims the next of them, or stops.
ClaimPending ==
    /\ at["consumer"] = "context" /\ todo["consumer"] # <<>>
    /\ Claim("consumer", "proven",
             todo' = [todo EXCEPT !["consumer"] = <<>>] /\ UNCHANGED <<at, cur, plan>>)
    /\ UNCHANGED <<stamps, comments, app, landed>>

\* After the model has run: the round and the target are read.
Plan ==
    /\ at["consumer"] = "context" /\ todo["consumer"] = <<>>
    /\ at' = [at EXCEPT !["consumer"] = "planned"]
    /\ plan' = NextPlan
    /\ UNCHANGED <<row, stamps, comments, app, todo, cur, young, landed>>

\* stagePublication.  With a row of this head there, nothing is sent.
Stage ==
    /\ at["consumer"] = "planned"
    /\ IF row[cur].phase # "absent"
       THEN EndRound /\ UNCHANGED <<row, stamps>>
       ELSE /\ row' = [row EXCEPT ![cur] =
                         [NoRow EXCEPT !.phase = "prepared", !.recovery = "pending",
                                       !.round = plan.round, !.target = plan.target]]
            /\ stamps' = Append(stamps, <<cur, "created">>)
            /\ Goto("consumer", "staged")
    /\ UNCHANGED <<comments, app, young, landed>>

\* Without the lease the consumer does not send.
ClaimStaged ==
    /\ at["consumer"] = "staged"
    /\ Claim("consumer", "claimed", EndRound)
    /\ UNCHANGED <<stamps, comments, app, landed>>

-----------------------------------------------------------------------------
(* postPreparedReview, the proof and the apply, by either actor.           *)

\* The target is re-read and must show its expected previous version.
Scan(a) ==
    /\ at[a] = "claimed"
    /\ Goto(a, Decision(On(a)))
    /\ UNCHANGED <<row, stamps, comments, app, young, landed>>

\* The mutation takes effect; an update of a comment deleted since the scan
\* becomes a create.
Landing(a) ==
    LET h == On(a)
        t == row[h].target
    IN  /\ comments' = IF at[a] = "updating" /\ comments[t] # Gone
                       THEN [comments EXCEPT ![t] = h]
                       ELSE Append(comments, h)
        /\ landed' = [landed EXCEPT ![h] = @ + 1]

Send(a) ==
    /\ at[a] \in {"updating", "creating"}
    /\ Landing(a)
    /\ Goto(a, "sent")
    /\ UNCHANGED <<row, stamps, app, young>>

\* It takes effect and the answer is lost, or it does not.
SendFails(a) ==
    /\ \/ at[a] \in {"updating", "creating"} /\ Landing(a)
       \/ at[a] \in {"claimed", "updating", "creating"} /\ UNCHANGED <<comments, landed>>
    /\ Fails(a, TRUE)
    /\ UNCHANGED <<stamps, app, young>>

\* A definitive rejection before any request left is recorded as failed.
Reject(a) ==
    LET h == On(a)
    IN  /\ at[a] = "rejected"
        /\ row' = [row EXCEPT ![h] = IF MayFail(a, @) THEN Failed(@) ELSE Orphaned(a, @)]
        /\ Done(a, FALSE)
        /\ UNCHANGED <<stamps, comments, app, young, landed>>

Prove(a) ==
    LET h == On(a)
    IN  /\ at[a] = "sent"
        /\ MayProve(a, row[h])
        /\ row' = [row EXCEPT ![h] = Proved(@)]
        /\ Goto(a, "proven")
        /\ UNCHANGED <<stamps, comments, app, young, landed>>

\* The fence refuses the proof, or the statement fails.
ProveFails(a) ==
    /\ at[a] = "sent"
    /\ Fails(a, TRUE)
    /\ UNCHANGED <<stamps, comments, app, young, landed>>

\* store.put, before the lifecycle writes.
Put(a) ==
    LET h == On(a)
    IN  /\ at[a] = "proven"
        /\ MayApply(a, row[h])
        /\ row' = [row EXCEPT ![h].stored = TRUE]
        /\ Goto(a, "put")
        /\ UNCHANGED <<stamps, comments, app, young, landed>>

\* The lifecycle writes and the applied mark.
Mark(a) ==
    LET h == On(a)
    IN  /\ at[a] = "put"
        /\ MayMark(a, row[h])
        /\ row' = [row EXCEPT ![h] = Applied(@)]
        /\ Done(a, TRUE)
        /\ UNCHANGED <<stamps, comments, app, young, landed>>

\* Another holder has applied the row in between.
AlreadyApplied(a) ==
    /\ at[a] = "proven" /\ row[On(a)].phase = "applied"
    /\ Done(a, TRUE)
    /\ UNCHANGED <<row, stamps, comments, app, young, landed>>

\* The fence refuses the apply, or a statement of it fails.
ApplyFails(a) ==
    /\ at[a] \in {"proven", "put"}
    /\ Fails(a, FALSE)
    /\ UNCHANGED <<stamps, comments, app, young, landed>>

\* The isolate dies, or an exception ends the whole round or pass.
Die(a) ==
    /\ at[a] # "idle"
    /\ row' = [h \in Commit |-> Orphaned(a, row[h])]
    /\ IF a = "consumer" THEN EndRound /\ UNCHANGED young
       ELSE /\ at' = [at EXCEPT !["cron"] = "idle"]
            /\ todo' = [todo EXCEPT !["cron"] = <<>>]
            /\ young' = {}
            /\ UNCHANGED <<cur, plan>>
    /\ UNCHANGED <<stamps, comments, app, landed>>

-----------------------------------------------------------------------------
(* reconcilePublications.                                                  *)

\* A bug: a row that was deferred is not selected again.
SelectableOnce(h) ==
    /\ row[h].recovery = "pending" /\ row[h].attempts < MaxAttempts
    /\ row[h].next = "none" /\ ~row[h].live

\* listPublicationRecovery; the phase is not looked at.
Selectable(h) ==
    /\ row[h].recovery = "pending" /\ row[h].attempts < MaxAttempts
    /\ row[h].next # "later" /\ ~row[h].live

CronStart ==
    LET due == {i \in Current : Selectable(stamps[i][1])}
    IN  /\ at["cron"] = "idle" /\ due # {}
        /\ Read("cron", "row", due, SelectLimit)
        /\ young' = {}
        /\ UNCHANGED <<row, stamps, comments, app, cur, plan, landed>>

CronEnd ==
    /\ at["cron"] = "row" /\ todo["cron"] = <<>>
    /\ at' = [at EXCEPT !["cron"] = "idle"]
    /\ young' = {}
    /\ UNCHANGED <<row, stamps, comments, app, todo, cur, plan, landed>>

\* The phase a row had when the pass read it.
Reads(phases) ==
    at["cron"] = "row" /\ todo["cron"] # <<>> /\ todo["cron"][1].phase \in phases

\* A terminal row is examined and never re-worked; a prepared one is left due
\* while the App is paused or the row is young.
CronSkip ==
    /\ \/ Reads({"failed", "applied", "superseded"})
       \/ Reads({"prepared"}) /\ app # "unavailable"
                              /\ (app = "paused" \/ ~row[On("cron")].aged)
    /\ Done("cron", TRUE)
    /\ UNCHANGED <<row, stamps, comments, app, young, landed>>

\* Too few requests are left to the pass, or the plan can not be read.
CronDefer ==
    /\ Reads({"prepared", "sending", "unknown"})
    /\ Done("cron", TRUE)
    /\ UNCHANGED <<row, stamps, comments, app, young, landed>>

\* suspendPublicationRecovery: every pending row of the App whose lease is free,
\* and those that are suspended.
SuspendAll(kind) ==
    row' = [h \in Commit |->
              IF row[h].recovery \in {"pending"} \cup Suspended /\ ~row[h].live
              THEN [Free(row[h]) EXCEPT !.recovery = kind] ELSE row[h]]

\* The App is off or has no installation.  Or it can not be looked up, or GET
\* /app is refused or has no answer: getAppIdentity makes the same of both.
CronSuspend ==
    /\ Reads({"prepared", "sending", "unknown"})
    /\ \/ /\ app = "unavailable"
          /\ \E kind \in {"disabled", "unrecorded"} : SuspendAll(kind)
       \/ /\ Probe /\ app # "unavailable"
          /\ \E kind \in {"unrecorded", "mismatch"} : SuspendAll(kind)
    /\ Done("cron", TRUE)
    /\ UNCHANGED <<stamps, comments, app, young, landed>>

\* The surface is read before a prepared row is sent: a round as new as the
\* row's own makes the row stale.
CronPlan ==
    /\ Reads({"prepared"}) /\ app = "active" /\ row[On("cron")].aged
    /\ Goto("cron", IF Markers # {} /\ RoundOf(comments[First]) >= row[On("cron")].round
                    THEN "stale" ELSE "checked")
    /\ UNCHANGED <<row, stamps, comments, app, young, landed>>

CronSupersede ==
    LET h == On("cron")
    IN  /\ at["cron"] = "stale"
        /\ row' = [row EXCEPT ![h] = IF MayClaim(@) THEN Superseded(@) ELSE @]
        /\ Done("cron", TRUE)
        /\ UNCHANGED <<stamps, comments, app, young, landed>>

\* The claim that precedes the send, the discovery or the apply.
CronClaim ==
    /\ \/ at["cron"] = "checked" /\ Claim("cron", "claimed", Done("cron", TRUE))
       \/ /\ Reads({"sending", "unknown"}) /\ app # "unavailable"
          /\ Claim("cron", "discovering", Done("cron", TRUE))
       \/ Reads({"confirmed"}) /\ Claim("cron", "proven", Done("cron", TRUE))
    /\ UNCHANGED <<stamps, comments, app, landed>>

\* discoverUncertainPublication finds the exact body of the row.
Discover ==
    /\ at["cron"] = "discovering"
    /\ \E i \in Markers : comments[i] = On("cron")
    /\ Goto("cron", "sent")
    /\ UNCHANGED <<row, stamps, comments, app, young, landed>>

\* It is not among the newest comments, or they can not be read.
DiscoverFails ==
    /\ at["cron"] = "discovering"
    /\ Fails("cron", TRUE)
    /\ UNCHANGED <<stamps, comments, app, young, landed>>

\* The request budget refuses a request before it is dispatched.
CronRefused ==
    LET h == On("cron")
    IN  /\ at["cron"] \in {"claimed", "updating", "creating"}
        /\ row' = [row EXCEPT ![h] = IF MayUnspend("cron", @) THEN Unspent(@)
                                     ELSE Orphaned("cron", @)]
        /\ Done("cron", TRUE)
        /\ UNCHANGED <<stamps, comments, app, young, landed>>

WithKind(kinds) == {h \in Commit : row[h].recovery \in kinds}

\* listSuspendedLifecycleApps, at the start of a pass.  Unless the App was only
\* off, nothing is done as long as all the fingerprints that were recorded are
\* that of the credentials in use.
MayReturn ==
    /\ at["cron"] = "idle" /\ app # "unavailable"
    /\ WithKind(Suspended) # {}
    /\ WithKind({"mismatch"}) # {} => WithKind({"changed"}) # {}

\* reenableLifecycleForApps: suspended rows resume, if GET /app was not needed
\* or shows the App.
Reenable ==
    /\ MayReturn
    /\ row' = [h \in Commit |->
                 IF row[h].recovery \in Suspended
                 THEN [Free(row[h]) EXCEPT !.recovery = "pending", !.next = "none"]
                 ELSE row[h]]
    /\ UNCHANGED <<stamps, comments, app, work, young, landed>>

\* It does not, or fails.
ReenableFails ==
    /\ Probe /\ MayReturn /\ WithKind(Suspended \ {"disabled"}) # {}
    /\ SuspendAll("mismatch")
    /\ UNCHANGED <<stamps, comments, app, work, young, landed>>

\* The operator replaces the App's private key.
Rekey ==
    /\ Operator
    /\ WithKind({"mismatch"}) # {}
    /\ row' = [h \in Commit |->
                 IF row[h].recovery = "mismatch"
                 THEN [row[h] EXCEPT !.recovery = "changed"] ELSE row[h]]
    /\ UNCHANGED <<stamps, comments, app, work, young, landed>>

\* retryLifecycleWork: an operator makes a row due again, whatever its phase.
Retry(h) ==
    /\ Operator
    /\ row[h].phase # "absent" /\ ~row[h].live
    /\ row' = [row EXCEPT ![h].attempts = 0, ![h].next = "none", ![h].recovery = "pending"]
    /\ UNCHANGED <<stamps, comments, app, work, young, landed>>

-----------------------------------------------------------------------------
(* The environment.                                                        *)

\* A lease of 120s expires, under its holder if that is slow, but not within
\* the cron pass (45s at most) in which it was taken.
Expire(h) ==
    /\ row[h].live /\ h \notin young
    /\ row' = [row EXCEPT ![h].live = FALSE]
    /\ UNCHANGED <<stamps, comments, app, work, young, landed>>

\* The stamps without that one, of which there is one at most.
Without(t) ==
    LET n == Len(stamps)
    IN  IF \A i \in 1..n : stamps[i] # t THEN stamps
        ELSE LET p == CHOOSE i \in 1..n : stamps[i] = t
             IN  [i \in 1..(n - 1) |-> IF i < p THEN stamps[i] ELSE stamps[i + 1]]

\* The time of the next attempt comes.
Due(h) ==
    /\ row[h].next = "later"
    /\ row' = [row EXCEPT ![h].next = "due"]
    /\ stamps' = Append(Without(<<h, "due">>), <<h, "due">>)
    /\ UNCHANGED <<comments, app, work, young, landed>>

\* A row passes the age of 60s; the consumer that stages it claims it with
\* its next statement, within that time.
Age(h) ==
    /\ row[h].phase # "absent" /\ ~row[h].aged
    /\ ~(at["consumer"] = "staged" /\ cur = h)
    /\ row' = [row EXCEPT ![h].aged = TRUE]
    /\ UNCHANGED <<stamps, comments, app, work, young, landed>>

SetApp ==
    /\ app' \in AppState \ {app}
    /\ UNCHANGED <<row, stamps, comments, work, young, landed>>

\* Somebody deletes a comment.
Delete(i) ==
    /\ Human /\ i \in Markers
    /\ comments' = [comments EXCEPT ![i] = Gone]
    /\ UNCHANGED <<row, stamps, app, work, young, landed>>

-----------------------------------------------------------------------------

Init ==
    /\ row = [h \in Commit |-> NoRow]
    /\ stamps = <<>>
    /\ comments \in {<<>>, <<Prior>>}
    /\ app = "active"
    /\ at = [a \in Actor |-> "idle"]
    /\ todo = [a \in Actor |-> <<>>]
    /\ cur = NoCommit
    /\ plan = NoPlan
    /\ young = {}
    /\ landed = [h \in Commit |-> 0]

ConsumerStep == ClaimPending \/ Plan \/ Stage \/ ClaimStaged

CronStep ==
    \/ CronStart \/ CronEnd \/ CronSkip \/ CronDefer \/ CronSuspend
    \/ CronPlan \/ CronSupersede \/ CronClaim \/ Discover \/ DiscoverFails
    \/ CronRefused

Publish(a) ==
    \/ Scan(a) \/ Send(a) \/ SendFails(a) \/ Reject(a) \/ Prove(a) \/ ProveFails(a)
    \/ Put(a) \/ Mark(a) \/ AlreadyApplied(a) \/ ApplyFails(a)

Next ==
    \/ \E h \in Commit : Begin(h)
    \/ ConsumerStep \/ CronStep
    \/ \E a \in Actor : Publish(a) \/ Die(a)
    \/ Reenable \/ ReenableFails \/ Rekey \/ SetApp
    \/ \E h \in Commit : Retry(h) \/ Expire(h) \/ Due(h) \/ Age(h)
    \/ \E i \in DOMAIN comments : Delete(i)

Spec == Init /\ [][Next]_vars

\* Isolates that run go on, leases expire, rows age and fall due, the cron
\* keeps starting passes and resumes what was suspended, and a row that pass
\* after pass reads is claimed, and its requests dispatched, in one of them:
\* not every pass dies, or runs out of its budget, before that row.
Fairness ==
    /\ WF_vars(ConsumerStep) /\ WF_vars(CronStep)
    /\ \A a \in Actor : WF_vars(Publish(a))
    /\ \A h \in Commit : WF_vars(Expire(h)) /\ WF_vars(Due(h)) /\ WF_vars(Age(h))
    /\ SF_vars(CronSkip) /\ SF_vars(CronPlan) /\ SF_vars(CronSupersede)
    /\ SF_vars(CronClaim) /\ SF_vars(Reenable)
    /\ SF_vars(Send("cron") \/ SendFails("cron"))

LiveSpec == Spec /\ Fairness

-----------------------------------------------------------------------------
(* Properties.                                                             *)

WithPhase(phases) == {h \in Commit : row[h].phase \in phases}

\* The journal implements PublishOnce: through deaths, lost answers, leases
\* that expire under their holder and adopted bodies, no review is posted
\* twice, none is recorded as published or kept without having been posted,
\* and none that was posted is written off.
Once == INSTANCE PublishOnce WITH
    posted   <- landed,
    recorded <- {h \in Commit : row[h].proof},
    kept     <- {h \in Commit : row[h].stored},
    dropped  <- WithPhase({"failed", "superseded"})

PublishesOnce == Once!Spec

\* A row that may still be sent has not been: releasing an unspent claim and
\* the other roads back to "prepared" forget no send that may have landed.
PreparedIsUnsent == \A h \in WithPhase({"prepared"}) : landed[h] = 0

\* Nothing is held for ever: once the App stays active and operators leave
\* the journal alone, a row in it is applied or given up, unless its attempts
\* are used up.  A pair that was suspended for the credentials in use and stays
\* so is the exception: only another key, or an operator, brings its rows back.
Stranded == WithKind({"mismatch"}) # {}

Quiet == /\ <>[](app = "active") /\ []<>(~Stranded)
         /\ <>[][\A h \in Commit : ~Retry(h)]_vars

Settles ==
    Quiet => \A h \in Commit :
        row[h].phase \in Claimable ~>
            \/ row[h].phase \notin Claimable
            \/ row[h].recovery = "local-error"
            \/ row[h].attempts = MaxAttempts

\* "crash recovery no longer loses assessments": a review that was published
\* is applied, or its row says why not (local-error, attempts used up).
ConfirmedIsApplied ==
    \A h \in Commit :
        row[h].phase = "confirmed" ~>
            \/ row[h].phase = "applied"
            \/ row[h].recovery # "pending"
            \/ row[h].attempts = MaxAttempts

=============================================================================
