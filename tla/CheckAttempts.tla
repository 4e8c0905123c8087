--------------------------- MODULE CheckAttempts ---------------------------
(***************************************************************************)
(* The GitHub Check of one head commit: the attempts recorded in           *)
(* review_checks (src/store/review-checks.ts), the consumer's hooks that   *)
(* open and conclude a run (createCheckLifecycle in src/pipeline/checks.ts *)
(* and abandonCheck in src/pipeline/consumer.ts) and the cron lane that    *)
(* finishes what they left (src/worker/check-reconcile.ts).                *)
(*                                                                         *)
(* Attempts of one key are numbered by generation and at most one of them  *)
(* is open: the partial unique index.  Every write is fenced by a lease.   *)
(* A consumer's lease ends at the attempt's execution deadline, a cron     *)
(* pass takes one of 120 s.  A conclusion is first frozen in the row, then *)
(* sent, and recorded only from GitHub's answer.                           *)
(*                                                                         *)
(* A hook that outlives its budget goes on running: the consumer gives the *)
(* attempt up beside it, under the same lease (GiveUp).  One cron pass     *)
(* runs at a time.                                                         *)
(***************************************************************************)
EXTENDS Naturals

CONSTANTS
    MaxGen,        \* attempts that may be opened for the head
    MaxAttempts,   \* CHECK_MAX_ATTEMPTS: 5 in production
    Gate,          \* what the App's gate may say of a published review
    Budgets        \* how much may happen besides, see Budget

\* claims  : attempts opened
\* faults  : deaths, requests refused or without an answer, failed reads and
\*           leases that end too soon
\* retries : by an operator
\* switches: changes of the App's state or of its private key
Budget == [claims : Nat, faults : Nat, retries : Nat, switches : Nat]

ASSUME CheckAssumption ==
    /\ MaxGen \in Nat \ {0}
    /\ MaxAttempts \in Nat \ {0, 1}
    /\ Gate \subseteq {"success", "failure"} /\ Gate # {}
    /\ Budgets \subseteq Budget

VARIABLES
    last,      \* the generations opened so far
    row,       \* review_checks
    run,       \* the Check Run on GitHub
    made,      \* create requests of an attempt that took effect
    at,        \* where each actor stands with each attempt
    will,      \* the conclusion an actor carries
    give,      \* the give-up beside the consumer's hook
    own,       \* attempts whose consumer staged a publication
    pass,      \* what the cron pass has read
    pub,       \* the publication of the head
    written,   \* generations opened when the publication was last written
    app,       \* the App: active, paused (no new work) or off
    left       \* what is left of the budget

world == <<pub, written, own>>
vars  == <<last, row, run, made, at, will, give, pass, app, world, left>>

Gen     == 1..MaxGen
Actor   == {"consumer", "cron"}
Verdict == {"success", "failure"}
Waiting == {"pending", "remote-unconfirmed"}

\* The kind of a suspension, and what is known of the credentials it was
\* recorded with: the App was off; no fingerprint; that of the credentials in
\* use; another one.  A row may also be held by the kill switch alone.
Suspended == {"disabled", "unrecorded", "mismatch", "changed"}
Held      == Suspended \cup {"held"}

Attempt == [open     : BOOLEAN,                     \* terminal_ms is null
            create   : {"not-sent", "sending", "known"},
            owner    : Actor \cup {"none"},
            live     : BOOLEAN,                     \* lease_until_ms > now
            late     : BOOLEAN,                     \* the deadline has passed
            desired  : {"in_progress"} \cup Verdict,
            observed : {"unknown"} \cup Verdict,
            recovery : Waiting \cup Held \cup {"done", "local-error"},
            linked   : BOOLEAN,                     \* publication_id
            attempts : 0..MaxAttempts,
            next     : {"none", "later", "due"}]    \* next_attempt_ms

Fresh == [open |-> TRUE, create |-> "not-sent", owner |-> "consumer",
          live |-> TRUE, late |-> FALSE, desired |-> "in_progress",
          observed |-> "unknown", recovery |-> "pending", linked |-> FALSE,
          attempts |-> 0, next |-> "none"]

Unused == [Fresh EXCEPT !.open = FALSE, !.owner = "none", !.live = FALSE]

Steps == {"idle", "claimed", "marked", "creating", "created", "late",
          "working", "handing", "freezing", "frozen", "updating", "answered",
          "wait", "giveback", "credentials", "claim", "decide", "adopt", "fetch"}

TypeOK ==
    /\ last \in 0..MaxGen
    /\ row \in [Gen -> Attempt]
    /\ run \in [Gen -> {"none", "open"} \cup Verdict]
    /\ made \in [Gen -> Nat]
    /\ at \in [Actor -> [Gen -> Steps]]
    /\ will \in [Actor -> [Gen -> Verdict]]
    /\ give \in [Gen -> {"no", "fallback", "release", "over"}]
    /\ own \subseteq Gen
    /\ pass \in [known : BOOLEAN, paused : BOOLEAN]
    /\ pub \in {"none", "pending", "proven"}
    /\ written \in 0..MaxGen
    /\ app \in {"active", "paused", "off"}
    /\ left \in Budget
    /\ \A g \in Gen : row[g].live => row[g].owner # "none"

Init ==
    /\ last = 0
    /\ row = [g \in Gen |-> Unused]
    /\ run = [g \in Gen |-> "none"]
    /\ made = [g \in Gen |-> 0]
    /\ at = [a \in Actor |-> [g \in Gen |-> "idle"]]
    /\ will = [a \in Actor |-> [g \in Gen |-> "failure"]]
    /\ give = [g \in Gen |-> "no"]
    /\ own = {}
    /\ pass = [known |-> FALSE, paused |-> FALSE]
    /\ pub = "none" /\ written = 0
    /\ app = "active"
    /\ left \in Budgets

-----------------------------------------------------------------------------
(* Statements on a row.                                                    *)

\* The fence that needs no live lease: holder and epoch.
Owns(a, r) == r.open /\ r.owner = a

Fenced(a, r) == Owns(a, r) /\ r.live

\* A bug: the expiry stays when the holder goes.
HalfFreed(r) == [r EXCEPT !.owner = "none"]

Freed(r) == [r EXCEPT !.owner = "none", !.live = FALSE]

\* deferCheckRecovery.
Deferred(r, state) == [Freed(r) EXCEPT !.attempts = @ + 1,
                                       !.recovery = state, !.next = "later"]

\* settleFailedAttempt: give up at the cap.
Settled(r) ==
    IF r.attempts + 1 < MaxAttempts
    THEN Deferred(r, "remote-unconfirmed")
    ELSE [r EXCEPT !.attempts = @ + 1, !.open = FALSE,
                   !.recovery = "local-error"]

\* What each actor does with a request that failed.
Failed(a, r) == IF a = "cron" THEN Settled(r)
                              ELSE Deferred(r, "remote-unconfirmed")

\* A request that was never made: only the cron spends no attempt.
Unsent(a, r) == IF a = "cron" THEN Freed(r) ELSE Deferred(r, "pending")

\* setCheckDesired: a failure may become a success, with a proof.
MayFreeze(r, v, proof) ==
    \/ r.desired \in {"in_progress", v}
    \/ r.desired = "failure" /\ v = "success" /\ proof

Frozen(r, v, link) ==
    [r EXCEPT !.desired = v, !.linked = @ \/ link,
              !.recovery = "pending", !.next = "none"]

Observed(r) == [r EXCEPT !.observed = r.desired, !.open = FALSE,
                         !.recovery = "done", !.next = "none"]

\* A bug: what nobody released is never due.
DueIfReleased(r) ==
    /\ r.open /\ ~r.live
    /\ r.recovery \in Waiting
    /\ r.attempts < MaxAttempts
    /\ r.next # "later"
    /\ r.desired # "in_progress" \/ r.next = "due"

\* The selector, repeated by the claim.
Due(r) ==
    /\ r.open /\ ~r.live
    /\ r.recovery \in Waiting
    /\ r.attempts < MaxAttempts
    /\ r.next # "later"
    /\ r.desired # "in_progress" \/ r.late \/ r.next = "due"

Taken(r) == [r EXCEPT !.owner = "cron", !.live = TRUE]

\* The publication was written after this attempt was opened.
Attributed(g) == pub # "none" /\ written >= g

-----------------------------------------------------------------------------
(* Shorthand.                                                              *)

Goto(a, g, step) == at' = [at EXCEPT ![a][g] = step]

Write(g, r) == row' = [row EXCEPT ![g] = r]

WriteIf(ok, g, r) == row' = IF ok THEN [row EXCEPT ![g] = r] ELSE row

Quiet(g) == at["consumer"][g] # "updating"

Stop(a, g) == Goto(a, g, "idle")

CronIdle == \A g \in Gen : at["cron"][g] = "idle"

Spend(what) == left[what] > 0 /\ left' = [left EXCEPT ![what] = @ - 1]

Keeps == UNCHANGED <<last, give, app, world, left>>

-----------------------------------------------------------------------------
(* The consumer opens an attempt.                                          *)

\* claimAttempt: one INSERT ... SELECT.  Whoever loses the race, or finds the
\* head published, goes on without a Check and leaves no trace.  It is inside
\* the round that Admission guards: the consumer of an earlier attempt is over.
Claim ==
    /\ last < MaxGen /\ Spend("claims")
    /\ \A g \in 1..last :
         /\ at["consumer"][g] = "idle" /\ give[g] \in {"no", "over"}
         /\ ~row[g].open
         /\ row[g].observed # "success"
         /\ ~(row[g].linked /\ pub = "proven")
    /\ last' = last + 1
    /\ Write(last + 1, Fresh)
    /\ Goto("consumer", last + 1, "claimed")
    /\ UNCHANGED <<run, made, will, give, pass, app, world>>

\* beginCheckWith, for either actor: mark the row, then send.  A refusal
\* before the mark leaves the row as it is.
BeginRefused(a, g) ==
    /\ at[a][g] = "claimed"
    /\ IF Fenced(a, row[g]) THEN Spend("faults") ELSE UNCHANGED left
    /\ WriteIf(IF a = "cron" THEN Owns(a, row[g]) ELSE Fenced(a, row[g]),
               g, Unsent(a, row[g]))
    /\ Stop(a, g)
    /\ UNCHANGED <<last, run, made, will, give, pass, app, world>>

\* A bug: the request leaves before the mark.
MarkNothing(a, g) ==
    /\ at[a][g] = "claimed"
    /\ Fenced(a, row[g]) /\ row[g].create = "not-sent"
    /\ Goto(a, g, "marked")
    /\ Keeps /\ UNCHANGED <<row, run, made, will, pass>>

MarkSending(a, g) ==
    /\ at[a][g] = "claimed"
    /\ Fenced(a, row[g]) /\ row[g].create = "not-sent"
    /\ Write(g, [row[g] EXCEPT !.create = "sending"])
    /\ Goto(a, g, "marked")
    /\ Keeps /\ UNCHANGED <<run, made, will, pass>>

\* The lease is read once more before the request leaves.
SendCreate(a, g) ==
    /\ at[a][g] = "marked"
    /\ Fenced(a, row[g])
    /\ Goto(a, g, "creating")
    /\ Keeps /\ UNCHANGED <<row, run, made, will, pass>>

\* It has ended, or the transport refuses: the mark is undone, under the
\* weaker fence.
Undispatched(a, g) ==
    /\ at[a][g] = "marked"
    /\ IF Fenced(a, row[g]) THEN Spend("faults") ELSE UNCHANGED left
    /\ LET r == [row[g] EXCEPT !.create = "not-sent"]
       IN  WriteIf(Owns(a, row[g]), g,
                   IF a = "cron" \/ r.live THEN Unsent(a, r) ELSE r)
    /\ Stop(a, g)
    /\ UNCHANGED <<last, run, made, will, give, pass, app, world>>

CreateLands(a, g) ==
    /\ at[a][g] = "creating"
    /\ made' = [made EXCEPT ![g] = @ + 1]
    /\ run' = [run EXCEPT ![g] = "open"]
    /\ Goto(a, g, "created")
    /\ Keeps /\ UNCHANGED <<row, will, pass>>

\* No answer: the run exists or not.
CreateFails(a, g) ==
    /\ at[a][g] \in {"creating", "created"}
    /\ WriteIf(Fenced(a, row[g]), g, Failed(a, row[g]))
    /\ Stop(a, g)
    /\ Spend("faults")
    /\ UNCHANGED <<last, run, made, will, give, pass, app, world>>

\* attachCheckRunId.  The consumer may have stopped waiting: before the hook
\* looks (it then gives the attempt back), or after (the handle is lost).
Attach(a, g) ==
    /\ at[a][g] = "created"
    /\ IF Fenced(a, row[g])
       THEN /\ Write(g, [row[g] EXCEPT !.create = "known"])
            /\ \E step \in IF a = "cron" THEN {"fetch"}
                                         ELSE {"working", "late", "idle"} :
                 Goto(a, g, step)
       ELSE UNCHANGED row /\ Stop(a, g)
    /\ Keeps /\ UNCHANGED <<run, made, will, pass>>

ReleaseLate(g) ==
    /\ at["consumer"][g] = "late"
    /\ WriteIf(Fenced("consumer", row[g]), g,
               Deferred(row[g], "remote-unconfirmed"))
    /\ Stop("consumer", g)
    /\ Keeps /\ UNCHANGED <<run, made, will, pass>>

-----------------------------------------------------------------------------
(* The consumer concludes it.                                              *)

\* The review is staged; it may be proven by this round or by recovery.
Stage(g) ==
    /\ at["consumer"][g] = "working" /\ give[g] = "no"
    /\ pub # "proven"
    /\ pub' = "pending" /\ written' = last /\ own' = own \cup {g}
    /\ UNCHANGED <<last, row, run, made, at, will, give, pass, app, left>>

Prove ==
    /\ pub = "pending"
    /\ pub' = "proven" /\ written' = last
    /\ UNCHANGED <<last, row, run, made, at, will, give, pass, app, own, left>>

\* An earlier round has published on this head: link it, then let go.
HandOff(g) ==
    /\ at["consumer"][g] = "working" /\ give[g] = "no"
    /\ pub # "none" /\ g \notin own
    /\ WriteIf(Fenced("consumer", row[g]), g, [row[g] EXCEPT !.linked = TRUE])
    /\ Goto("consumer", g, "handing")
    /\ Keeps /\ UNCHANGED <<run, made, will, pass>>

HandOffRelease(g) ==
    /\ at["consumer"][g] = "handing"
    /\ WriteIf(Fenced("consumer", row[g]), g,
               Deferred(row[g], "remote-unconfirmed"))
    /\ Stop("consumer", g)
    /\ Keeps /\ UNCHANGED <<run, made, will, pass>>

\* decideConclusion: only a proof can make it a success.  The gate may
\* change between two decisions.
Verdicts(proof) == IF proof THEN Gate ELSE {"failure"}

\* terminalize: read the proof and the frozen intent ...
Conclude(g) ==
    /\ at["consumer"][g] = "working"
    /\ \E v \in Verdicts(pub = "proven") :
         /\ will' = [will EXCEPT !["consumer"][g] = v]
         /\ Goto("consumer", g,
                 IF /\ Fenced("consumer", row[g])
                    /\ MayFreeze(row[g], v, g \in own)
                 THEN "freezing" ELSE "idle")
    /\ Keeps /\ UNCHANGED <<row, run, made, pass>>

\* ... and write the new one.
Freeze(g) ==
    /\ at["consumer"][g] = "freezing"
    /\ WriteIf(Fenced("consumer", row[g]), g,
               Frozen(row[g], will["consumer"][g], g \in own))
    /\ Goto("consumer", g,
            IF Fenced("consumer", row[g]) THEN "frozen" ELSE "idle")
    /\ Keeps /\ UNCHANGED <<run, made, will, pass>>

\* completeCheckWith, for either actor: the row must still say what is sent.
SendUpdate(a, g) ==
    /\ at[a][g] = "frozen"
    /\ Fenced(a, row[g]) /\ row[g].desired = will[a][g]
    /\ Goto(a, g, "updating")
    /\ Keeps /\ UNCHANGED <<row, run, made, will, pass>>

UpdateRefused(a, g) ==
    /\ at[a][g] = "frozen"
    /\ WriteIf(Fenced(a, row[g]), g,
               IF a = "cron" THEN Settled(row[g]) ELSE Deferred(row[g], "pending"))
    /\ Stop(a, g)
    /\ IF Fenced(a, row[g]) THEN Spend("faults") ELSE UNCHANGED left
    /\ UNCHANGED <<last, run, made, will, give, pass, app, world>>

UpdateLands(a, g) ==
    /\ at[a][g] = "updating"
    /\ run' = [run EXCEPT ![g] = will[a][g]]
    /\ Goto(a, g, "answered")
    /\ Keeps /\ UNCHANGED <<row, made, will, pass>>

\* No answer: the run is concluded or not.
UpdateFails(a, g) ==
    /\ at[a][g] \in {"updating", "answered"}
    /\ WriteIf(Fenced(a, row[g]), g, Failed(a, row[g]))
    /\ Stop(a, g)
    /\ Spend("faults")
    /\ UNCHANGED <<last, run, made, will, give, pass, app, world>>

\* recordCheckObservation.
Observe(a, g) ==
    /\ at[a][g] = "answered"
    /\ WriteIf(Fenced(a, row[g]) /\ row[g].desired = will[a][g],
               g, Observed(row[g]))
    /\ Stop(a, g)
    /\ Keeps /\ UNCHANGED <<run, made, will, pass>>

\* The budget of the hook has elapsed, it threw, or the checkout shows that
\* another commit was reviewed (the hook was then never called).
GiveUp(g) ==
    /\ give[g] = "no"
    /\ at["consumer"][g] \in {"working", "freezing", "frozen", "updating",
                              "answered"}
    /\ give' = [give EXCEPT ![g] = "fallback"]
    /\ \/ UNCHANGED at
       \/ at["consumer"][g] = "working" /\ Stop("consumer", g)
    /\ UNCHANGED <<last, row, run, made, will, pass, app, world, left>>

\* A bug: the fallback replaces what the hook has frozen.
FallbackAlways(g) ==
    /\ give[g] = "fallback"
    /\ WriteIf(Fenced("consumer", row[g]), g, Frozen(row[g], "failure", FALSE))
    /\ give' = [give EXCEPT ![g] = "release"]
    /\ UNCHANGED <<last, run, made, at, will, pass, app, world, left>>

\* abandonTerminalize: setCheckFallbackDesired ...
Fallback(g) ==
    /\ give[g] = "fallback"
    /\ WriteIf(Fenced("consumer", row[g]) /\ row[g].desired = "in_progress",
               g, Frozen(row[g], "failure", FALSE))
    /\ give' = [give EXCEPT ![g] = "release"]
    /\ UNCHANGED <<last, run, made, at, will, pass, app, world, left>>

\* ... and the release.
ReleaseAbandoned(g) ==
    /\ give[g] = "release"
    /\ WriteIf(Fenced("consumer", row[g]), g,
               Deferred(row[g], "remote-unconfirmed"))
    /\ give' = [give EXCEPT ![g] = "over"]
    /\ UNCHANGED <<last, run, made, at, will, pass, app, world, left>>

-----------------------------------------------------------------------------
(* The cron pass.                                                          *)

\* Free rows only; a row the kill switch holds becomes one of the pair.
SuspendPair(kind) ==
    row' = [g \in Gen |->
              IF /\ row[g].open /\ ~row[g].live
                 /\ row[g].recovery \in Waiting \cup Held
              THEN [Freed(row[g]) EXCEPT !.recovery = kind, !.next = "none"]
              ELSE row[g]]

\* The App is disabled; or deleted, or not installed.
SuspendOff == \E kind \in {"disabled", "unrecorded"} : SuspendPair(kind)

\* The App can not be looked up; or GET /app is refused or has no answer, of
\* which getAppIdentity makes the same.
SuspendUnproven ==
    Spend("faults") /\ \E kind \in {"unrecorded", "mismatch"} : SuspendPair(kind)

\* The publication this attempt is judged by, and whether to wait for it.
\* The journal may be unreadable.
Look(g) ==
    /\ CronIdle /\ Due(row[g])
    /\ \E readable \in BOOLEAN :
         LET known == row[g].linked \/ (readable /\ Attributed(g))
             waits == ~readable \/ ~(known /\ pub = "proven")
         IN  /\ IF readable THEN UNCHANGED left ELSE Spend("faults")
             /\ pass' = [known |-> known, paused |-> FALSE]
             /\ IF row[g].late THEN Goto("cron", g, "credentials") /\ UNCHANGED row
                ELSE IF app = "off" THEN SuspendOff /\ UNCHANGED at
                ELSE /\ Goto("cron", g, IF waits THEN "wait" ELSE "credentials")
                     /\ UNCHANGED row
    /\ UNCHANGED <<last, run, made, will, give, app, world>>

\* claimCheckRecovery.
Take(g, step) ==
    IF Due(row[g]) THEN Write(g, Taken(row[g])) /\ Goto("cron", g, step)
                   ELSE UNCHANGED row /\ Stop("cron", g)

ClaimToWait(g) ==
    /\ at["cron"][g] = "wait"
    /\ Take(g, "giveback")
    /\ Keeps /\ UNCHANGED <<run, made, will, pass>>

\* deferCheckForPendingPublication: no attempt is spent.
GiveBack(g) ==
    /\ at["cron"][g] = "giveback"
    /\ WriteIf(Fenced("cron", row[g]), g,
               [Freed(row[g]) EXCEPT !.next = "later"])
    /\ Stop("cron", g)
    /\ Keeps /\ UNCHANGED <<run, made, will, pass>>

Credentials(g) ==
    /\ at["cron"][g] = "credentials"
    /\ \/ /\ app = "off" /\ SuspendOff
          /\ Stop("cron", g) /\ UNCHANGED <<pass, left>>
       \/ /\ app # "off" /\ SuspendUnproven
          /\ Stop("cron", g) /\ UNCHANGED pass
       \/ /\ app # "off"
          /\ pass' = [pass EXCEPT !.paused = app = "paused"]
          /\ Goto("cron", g, "claim") /\ UNCHANGED <<row, left>>
    /\ UNCHANGED <<last, run, made, will, give, app, world>>

\* An update delayed by its transport has landed, or is lost, before the row
\* falls due (see README).
ClaimRecovery(g) ==
    /\ at["cron"][g] = "claim" /\ Quiet(g)
    /\ Take(g, "decide")
    /\ Keeps /\ UNCHANGED <<run, made, will, pass>>

\* A bug: a publication that is known counts as proven.
KnownProof(r) == pass.known \/ r.linked

Proof(r) == (pass.known \/ r.linked) /\ pub = "proven"

\* terminalConclusion and setCheckDesired.
Decide(g) ==
    /\ at["cron"][g] = "decide"
    /\ LET r == row[g]
           want == IF Proof(r) THEN Gate
                   ELSE IF r.desired = "in_progress" THEN {"failure"}
                   ELSE {r.desired}
       IN  IF ~Fenced("cron", r)
           THEN Stop("cron", g) /\ UNCHANGED <<row, will>>
           ELSE \E v \in want :
                  LET s == IF MayFreeze(r, v, Proof(r))
                           THEN Frozen(r, v, Proof(r)) ELSE r
                  IN  /\ Write(g, s)
                      /\ will' = [will EXCEPT !["cron"][g] = s.desired]
                      /\ Goto("cron", g,
                              IF r.create = "known" THEN "fetch" ELSE "adopt")
    /\ Keeps /\ UNCHANGED <<run, made, pass>>

\* adoptCheckRunWith.  What exists is attached, if it may be ours; what does
\* not may be created if no create has left; else nothing is proven.
AdoptFound(g) ==
    /\ at["cron"][g] = "adopt" /\ run[g] # "none"
    /\ IF row[g].create = "not-sent"
       THEN WriteIf(Fenced("cron", row[g]), g, Settled(row[g])) /\ Stop("cron", g)
       ELSE /\ WriteIf(Fenced("cron", row[g]), g,
                       [row[g] EXCEPT !.create = "known"])
            /\ Goto("cron", g, IF Fenced("cron", row[g]) THEN "fetch" ELSE "idle")
    /\ Keeps /\ UNCHANGED <<run, made, will, pass>>

AdoptAbsent(g) ==
    /\ at["cron"][g] = "adopt" /\ run[g] = "none"
    /\ IF row[g].create # "not-sent"
       THEN WriteIf(Fenced("cron", row[g]), g, Settled(row[g])) /\ Stop("cron", g)
       ELSE IF pass.paused
       THEN /\ WriteIf(Fenced("cron", row[g]), g,
                       [Freed(row[g]) EXCEPT !.recovery = "held", !.next = "none"])
            /\ Stop("cron", g)
       ELSE Goto("cron", g, "claimed") /\ UNCHANGED row
    /\ Keeps /\ UNCHANGED <<run, made, will, pass>>

AdoptUnproven(g) ==
    /\ at["cron"][g] = "adopt"
    /\ WriteIf(Fenced("cron", row[g]), g, Settled(row[g]))
    /\ Stop("cron", g)
    /\ Spend("faults")
    /\ UNCHANGED <<last, run, made, will, give, pass, app, world>>

\* A bug: a concluded run is taken for the conclusion intended.
FetchTrusts(g) ==
    /\ at["cron"][g] = "fetch"
    /\ Goto("cron", g, IF run[g] = "open" THEN "frozen" ELSE "answered")
    /\ Keeps /\ UNCHANGED <<row, run, made, will, pass>>

\* fetchCheckRunWith: a concluded run is observed, an open one updated.
Fetch(g) ==
    /\ at["cron"][g] = "fetch"
    /\ run[g] \in {"open", will["cron"][g]}
    /\ Goto("cron", g, IF run[g] = "open" THEN "frozen" ELSE "answered")
    /\ Keeps /\ UNCHANGED <<row, run, made, will, pass>>

\* A run with another conclusion is never updated.
Contradicts(g) ==
    /\ at["cron"][g] = "fetch"
    /\ run[g] \in Verdict \ {will["cron"][g]}
    /\ WriteIf(Fenced("cron", row[g]), g, Settled(row[g]))
    /\ Stop("cron", g)
    /\ Keeps /\ UNCHANGED <<run, made, will, pass>>

FetchFails(g) ==
    /\ at["cron"][g] = "fetch"
    /\ WriteIf(Fenced("cron", row[g]), g, Settled(row[g]))
    /\ Stop("cron", g)
    /\ Spend("faults")
    /\ UNCHANGED <<last, run, made, will, give, pass, app, world>>

\* The budget of the pass refuses the next request.
OutOfBudget(g) ==
    /\ at["cron"][g] \in {"credentials", "adopt", "fetch", "frozen"}
    /\ Spend("faults")
    /\ WriteIf(Fenced("cron", row[g]), g, Freed(row[g]))
    /\ Stop("cron", g)
    /\ UNCHANGED <<last, run, made, will, give, pass, app, world>>

\* listReenableableCheckPairs: the App is on, a row that the kill switch holds
\* waits for that, and one with the fingerprint of the credentials in use for
\* others.  All rows return or none.
Releasable(r) ==
    /\ r.recovery = "held" => app = "active"
    /\ r.recovery # "mismatch"

\* The pass begins with this.  Where something else than the App's state was
\* wrong the credentials are tried.
Reenable ==
    /\ CronIdle /\ app # "off"
    /\ \E g \in Gen : row[g].recovery \in Held
    /\ \A g \in Gen : Releasable(row[g])
    /\ \/ /\ row' = [g \in Gen |-> IF row[g].recovery \in Held
                                   THEN [row[g] EXCEPT !.recovery = "pending"]
                                   ELSE row[g]]
          /\ UNCHANGED left
       \/ /\ \E g \in Gen : row[g].recovery \in {"unrecorded", "changed"}
          /\ SuspendUnproven
    /\ UNCHANGED <<last, run, made, at, will, give, pass, app, world>>

-----------------------------------------------------------------------------
(* The environment.                                                        *)

\* The execution deadline, which is where the consumer's lease ends.
Deadline(g) ==
    /\ g <= last /\ ~row[g].late
    /\ LET r == IF row[g].owner = "consumer" THEN [row[g] EXCEPT !.live = FALSE]
                                             ELSE row[g]
       IN  Write(g, [r EXCEPT !.late = TRUE])
    /\ Keeps /\ UNCHANGED <<run, made, at, will, pass>>

BackoffEnds(g) ==
    /\ row[g].open /\ row[g].next = "later"
    /\ Write(g, [row[g] EXCEPT !.next = "due"])
    /\ Keeps /\ UNCHANGED <<run, made, at, will, pass>>

\* 120 s; a pass has 45 s, so under a running one it is a fault.
LeaseExpires(g) ==
    /\ row[g].owner = "cron" /\ row[g].live
    /\ IF at["cron"][g] = "idle" THEN UNCHANGED left
       ELSE Spend("faults")
    /\ Write(g, [row[g] EXCEPT !.live = FALSE])
    /\ UNCHANGED <<last, run, made, at, will, give, pass, app, world>>

\* A consumer dies with its give-up.
Die(a, g) ==
    /\ \/ at[a][g] # "idle"
       \/ a = "consumer" /\ give[g] \in {"fallback", "release"}
    /\ Spend("faults")
    /\ Stop(a, g)
    /\ give' = IF a = "consumer" THEN [give EXCEPT ![g] = "over"] ELSE give
    /\ UNCHANGED <<last, row, run, made, will, pass, app, world>>

Switch ==
    /\ Spend("switches")
    /\ app' \in {"active", "paused", "off"} \ {app}
    /\ UNCHANGED <<last, row, run, made, at, will, give, pass, world>>

\* The operator replaces the App's private key.
Rekey ==
    /\ Spend("switches")
    /\ \E g \in Gen : row[g].recovery = "mismatch"
    /\ row' = [g \in Gen |-> IF row[g].recovery = "mismatch"
                             THEN [row[g] EXCEPT !.recovery = "changed"]
                             ELSE row[g]]
    /\ UNCHANGED <<last, run, made, at, will, give, pass, app, world>>

\* retryCheckRecovery.  The index refuses a second open attempt.
Retry(g) ==
    /\ Spend("retries")
    /\ g <= last /\ row[g].observed = "unknown" /\ ~row[g].live
    /\ row[g].recovery \notin Held
    /\ \A h \in Gen \ {g} : ~row[h].open
    /\ Quiet(g)
    /\ Write(g, [Freed(row[g]) EXCEPT !.open = TRUE, !.recovery = "pending",
                                      !.attempts = 0, !.next = "none"])
    /\ UNCHANGED <<last, run, made, at, will, give, pass, app, world>>

-----------------------------------------------------------------------------

Sends(a, g) ==
    \/ BeginRefused(a, g) \/ MarkSending(a, g) \/ SendCreate(a, g)
    \/ Undispatched(a, g) \/ CreateLands(a, g) \/ CreateFails(a, g)
    \/ Attach(a, g) \/ SendUpdate(a, g) \/ UpdateRefused(a, g)
    \/ UpdateLands(a, g) \/ UpdateFails(a, g) \/ Observe(a, g)

Consumer(g) ==
    \/ Sends("consumer", g) \/ ReleaseLate(g) \/ Stage(g)
    \/ HandOff(g) \/ HandOffRelease(g) \/ Conclude(g) \/ Freeze(g)

Abandon(g) == Fallback(g) \/ ReleaseAbandoned(g)

Cron(g) ==
    \/ Look(g) \/ ClaimToWait(g) \/ GiveBack(g) \/ Credentials(g)
    \/ ClaimRecovery(g) \/ Decide(g) \/ AdoptFound(g) \/ AdoptAbsent(g)
    \/ AdoptUnproven(g) \/ Fetch(g) \/ Contradicts(g) \/ FetchFails(g)
    \/ OutOfBudget(g) \/ Sends("cron", g)

Time(g) == Deadline(g) \/ BackoffEnds(g) \/ LeaseExpires(g)

Next ==
    \/ Claim \/ Prove \/ Reenable \/ Switch \/ Rekey
    \/ \E g \in Gen :
         \/ Consumer(g) \/ GiveUp(g) \/ Abandon(g) \/ Cron(g)
         \/ Time(g) \/ Retry(g)
         \/ \E a \in Actor : Die(a, g)

Spec == Init /\ [][Next]_vars

\* Invocations that run go on, time passes, the cron starts passes.
Fairness ==
    /\ WF_vars(Reenable)
    /\ \A g \in Gen :
         /\ WF_vars(Consumer(g)) /\ WF_vars(Abandon(g)) /\ WF_vars(Cron(g))
         /\ WF_vars(Deadline(g)) /\ WF_vars(BackoffEnds(g))
         /\ WF_vars(LeaseExpires(g))

LiveSpec == Spec /\ Fairness

-----------------------------------------------------------------------------
(* Properties.                                                             *)

\* A create is sent once per attempt, whoever sends it and whatever is lost:
\* GitHub has no idempotency key, so a second one would be a second Check.
OneRunPerAttempt == \A g \in Gen : made[g] <= 1

\* An attempt recorded as done says what GitHub shows, also after late
\* answers, lost leases and recoveries.
DoneIsShown ==
    \A g \in Gen : row[g].recovery = "done" =>
        run[g] = row[g].desired /\ row[g].observed = row[g].desired

\* A green Check, and the intent to show one, rests on a publication that was
\* proven: neither a deadline nor a give-up nor a recovery can produce it.
GreenIsEarned ==
    \A g \in Gen : "success" \in {row[g].desired, run[g]} => pub = "proven"

\* What GitHub shows as concluded is never overwritten, and a success that is
\* frozen is never taken back, by any of the three writers of a conclusion.
ConclusionsStand ==
    [][\A g \in Gen :
         /\ run[g] \in Verdict => run'[g] = run[g]
         /\ row[g].desired = "success" => row'[g].desired = "success"]_vars

\* The pair waits for other credentials.
Stranded == \E g \in Gen : row[g].recovery = "mismatch"

\* Every attempt is finished in the end, once the App stays active: no lost
\* answer, dead holder or pending publication leaves it open for ever, unless
\* its pair was suspended for the credentials in use and stays so.
EveryAttemptEnds ==
    <>[](app = "active") /\ []<>(~Stranded) =>
        \A g \in Gen : row[g].open ~> ~row[g].open

\* "Operator-state failures, not transient per-row retries": what suspends an
\* attempt is something an operator has done and undoes, so that it returns
\* once the App stays active.
EveryAttemptReturns ==
    <>[](app = "active") =>
        \A g \in Gen : row[g].recovery \in Held ~> row[g].recovery \notin Held
=============================================================================
