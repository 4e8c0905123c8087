# Formal models of mstar-inspector

mstar-inspector is a GitHub App on Cloudflare Workers that reviews pull
requests with language models. This directory holds TLA+ models of the parts
of it where several actors share state, the TLC configurations that check them
and TLAPS proofs about them. Paths below are relative to the repository (the
worker itself lives in `src/`); `PROJECT.json` maps every definition to the
lines it models.

## 1. The system

    GitHub webhook -> worker (handlers.ts) -> queue -> consumer (consumer.ts) -> sandbox, runner
                          |                              |        |        |
                          v                              v        v        v
                    D1: comment claims        D1: admission   D1: journal  GitHub: comments,
                          ^                                       ^        Check Runs, threads
                          |                                       |            ^
                       sweep (cron, 15 min)       lifecycle reconcile (cron, 15 min)

A webhook turns an event into a queue message. The queue delivers a message up
to four times (`max_retries` 3, batches of one, 15 minutes of wall clock). The
consumer admits it, runs the review in a sandbox, publishes a comment and
stores the results. Two crons repair what died on the way. All actors are
isolates that may be killed at any await; D1 gives them single atomic
statements (and batches), KV gives them nothing but get and put.

### Inventory

| component | state | operations | what makes it correct |
|---|---|---|---|
| Review admission (`store/inflight-store.ts`) | `review_inflight`, one row per PR with an expiry | conditional insert, refusal read, release, reclaim | one round per PR; caps hold; a row outlives its round; backoff outlasts a row |
| Queue consumer (`pipeline/consumer.ts`) | message attempts, KV stamps | `processMessage`, `handleGuardHeld` | every message ends, no review is lost silently |
| Comment-trigger claims (`worker/handlers.ts`, 0048) | `comment_trigger_claims`, KV fast path | claim, send, delete, stamp | a comment starts at most one review; a claim settles |
| Cron sweep (`worker/sweep.ts`) | attempts of claims | expire, re-send, count | re-sends never double a run |
| Publication journal (`store/finding-lifecycle.ts`) | `review_publications`: phase, lease, attempts, proof | stage, claim, prove, apply, fail, supersede, defer, suspend, retry | a review is posted once, recorded and kept only if posted |
| Findings (`store/finding-lifecycle.ts`, apply) | findings, rounds, associations of a PR | capture, stage, apply in batches | a finding is closed only in full context; what is published can be applied |
| Incremental rounds (`findIncrementBase`, `store/artifact-store.ts`) | rows of `reviews` with verdict and `context_incomplete` | base, comparison, full diff, increment, skip, put | no change is left out because an earlier round is wrongly taken to have seen it |
| Lifecycle reconcile (`worker/lifecycle-reconcile.ts`) | request budget of a pass | send, discover, apply, suspend, re-enable | every publication is eventually applied or given up |
| Comment publication (`pipeline/comment.ts`) | marker comments on GitHub | plan, prepared send, discovery | no blind second send, no overwrite of a newer round |
| Commit claim (`contracts/idem.ts`) | KV `1`, `done`, abandon outcomes | claim, done, abandon | jobs of different commits do not skip each other away |
| Check Run attempts (`store/review-checks.ts`, `worker/check-reconcile.ts`) | attempts, leases, desired and observed state | claim, desire, observe, recover | one open attempt per check; the last desired state reaches GitHub |
| Review threads (`pipeline/review-threads.ts`) | `review_threads` | claim, verify, resolve, adopt, observe | a late change of the discussion is told; a verdict ends |
| Pull-request ledger (`dashboard/apps-store.ts`) | PR rows with a head watermark | upsert | late webhooks do not move a PR back |
| Workspaces, members, invitations (`dashboard/workspace-store.ts`, `invite-store.ts`, `users.ts`) | workspaces, plans, members, invitations | found, invite, accept, revoke, remove, demote, retire, change the plan | seats and free workspaces are not exceeded; an owner stays; a retired workspace is empty |
| Runner (`packages/runner`) | seats and deadlines of one review | fan-out or parent turn, re-check, report, files | what the envelope says is true; a finished review is not killed |
| App configuration (`dashboard/app-config-store.ts`) | custom providers, pools of keys, chains, seats of an App | declare, append, remove, save | a key stays at the endpoint it was verified for; caps hold; seats resolve |
| Runtime configuration | settings | one batch per write | the last writer wins, by design |
| Failure and usage stores | insert-once rows | insert | - |
| Webhook routing, dashboard, operator console, browser app, generated catalogs | - | stateless or one statement each | not modelled |

### The hard behaviours

* An isolate dies between any two statements; what it held stays until it expires.
* A write commits and its answer is lost (D1, queue, GitHub).
* A holder goes on after its lease expired.
* A message, a webhook and a cron re-send carry the same work at the same time.
* What was read (surface, live row, seats) has changed when it is used.
* Attempts run out: something is given up, and must be given up truthfully.

`PROJECT.json` "hazards" lists each at its line, with the property that covers
it, or the reason why none does.

## 2. The modules

### Admission

State: one row per pull request (owner, ticks left, commit), and per message
its phase, deliveries so far, remaining delay, remaining wall clock and the
level and caps its delivery read. Actions: `Deliver`, `SkipConsumed`,
`Acquire` and `RefuseInsert` (the one conditional INSERT), `Refuse` (the second
statement that reads why, and `handleGuardHeld`), `InsertFault` (the insert
fails before or after it committed), `Settle` (the round, and the sandbox
destroyed first), `Release`, `Die`, `Tick`. The caps and the level may differ
from one delivery to the next. Time is relative; the two statements of
`acquireInflight` share one `now`, so no tick passes between them.

* `OneRoundPerPr`: never two deliveries in a round for one PR.
* `RowOutlivesRound`: a row never expires under the round that wrote it.
* `AdmissionUnderCap`: a delivery enters its round only while the *rounds* fit
  both caps it read, though what is counted are rows.
* `FirstHolder`: after the whole backoff schedule the row that refused the
  first delivery is gone, if every delivery for the pull request has read one
  level (`seen`; see 4 for what happens otherwise).
* `EveryMessageEnds`: every message is reviewed, dropped or dead-lettered.
* `SilentDropIsCovered` (violated, see 4).

### CommentClaims and CommentOnce

`CommentOnce` is the promise: a comment is claimed, run at most once, settled
once. `CommentClaims` has the webhook (`PreCheck`, `Claim`, `SendOk`,
`SendFails`, `Delete`, `Stamp`), the sweep (`SweepStart`,
`SweepSend`, `SweepCount`) and the consumer (`Consume`, `AckClaimed`,
`ConsumeFault`, `RunEnds`, `RunThrows`, `RunHeld`) with deaths, duplicates and
lost answers. `SendFault` says how a send may fail: "lost" (throws, nothing
queued), "ambiguous" (throws, but queued), "slow" (the re-send window elapses
while it runs).

* `StartsAtMostOnce`: refinement of `CommentOnce`.
* `ExpiredNeverRan`: a claim given up has not run, and never will.
* `ClaimSettles` (in `NothingStaysQueued`): no claim stays queued.
* `CapDropIsTraced` (violated, see 4).

### Publication and PublishOnce

`PublishOnce` is the promise for the review of a head commit: posted at most
once; recorded as published, and its results kept, only when posted; written
off only when not posted. `Publication` has the rows of one pull request
(phase, lease, attempts, due time, age, recovery state, planned round and
target), the comments on GitHub, and two actors. The consumer applies older
confirmed rows, plans, stages, claims, sends, proves, applies. The cron reads
the due rows and, by the phase it *read*, skips, defers, suspends, plans and
sends, supersedes, discovers or applies. A send is a scan and a mutation: two
steps. `Decision` is `postPreparedReview`; `Landing` is the mutation, which may
take effect although the answer is lost. The environment expires leases, ages
rows, deletes comments, changes the App and lets operators retry.

A suspension has a kind, with what is known of the credentials it was recorded
with: `disabled` (the App was off), `unrecorded` (no digest could be stored),
`mismatch` (the digest of the credentials in use) and `changed` (another one).
`CronSuspend` records one when the App is off, and also when it is on and its
probe fails: `getAppIdentity` makes null of a refused or unanswered `GET /app`,
and null is an identity mismatch. `Reenable` runs where the code's lane would
(`MayReturn`): not while all that was recorded is the digest in use.
`ReenableFails` suspends again, `Rekey` is an operator who replaces the key.
`Probe` says whether probes may fail. The code proves an identity once per pass
and keeps the answer; here the probe may fail at any row of a pass.

* `PublishesOnce`: refinement of `PublishOnce`.
* `PreparedIsUnsent`: a row that may be sent has not landed.
* `Settles`: once the App stays active and operators leave the journal alone,
  a row is applied or given up, unless its attempts are used up or its pair
  stays suspended for the credentials in use. Both exceptions are real: a fifth
  claim whose holder dies leaves the row pending, with attempts at the cap and
  outside every selection; a failed probe leaves it suspended until the key is
  replaced (see 4).
* `ConfirmedIsApplied` (violated, see 4).

Abstractions. A body is the head it was prepared for, so "exact body" is
equality. Attempts count up to the cap. `stamps` keeps the order of created
and due times instead of the times, and `Oldest` takes the first rows of a kind
by it. `landed` and `posted` count how often a body reached the pull request,
so that a second time is a state of its own. The request budget is a nondeterministic
refusal before a request. A marker that can not be parsed, and a PATCH answered
403 (a foreign bot's marker), are left out. The degraded notices have no rows
here: they go through the same claims and the same send over markers of their
own, but the cron decides by the markers of *reviews* whether one is stale
(`lifecycle-reconcile.ts:783`), so their rows are not instances of these. The KV done stamp is
left out: the stored review and the journal already keep a head from a second
review.

Timing assumptions of `Publication`, both from constants of the code: a lease
(120 s) does not expire within the cron pass that took it (45 s), and the
consumer claims the row it staged, with its next statement, before the cron
may send it (60 s). Without the second, and with somebody deleting comments,
`PublishesOnce` fails: cron and consumer both work on a fresh row.

### CheckAttempts

The GitHub Check of one head: its attempts (open, create state, lease, frozen
and observed conclusion, recovery state, link to the publication), the Check
Runs GitHub has, and for every attempt a consumer, a give-up beside it and the
cron. The consumer claims, marks, creates, attaches, stages or hands off,
freezes a conclusion, sends it and records GitHub's answer. When a hook
outlives its budget, `GiveUp` starts the fallback (`abandonTerminalize`) while
the hook goes on under the same lease. The cron looks at the publication of a
due row, waits, suspends or claims it, decides, adopts or creates the run,
compares and updates it. Suspensions have the kinds of Publication
(`SuspendOff`, and `SuspendUnproven` when the probe of an App that is on
fails); `Reenable` takes all held rows back or none, and none while one has the
digest of the credentials in use (`Releasable`). Requests are two steps, so an answer may be lost on
either side of the effect.

* `OneRunPerAttempt`: at most one create takes effect per attempt. GitHub has no
  idempotency key, so `create_state` must be written first.
* `DoneIsShown`: an attempt recorded as done says what GitHub shows.
* `GreenIsEarned`: no deadline, give-up or recovery makes a success without a
  proven publication.
* `ConclusionsStand`: a concluded run is not overwritten and a frozen success
  is not taken back, although three writers freeze conclusions.
* `EveryAttemptEnds`: every attempt is finished once the App stays active,
  unless its pair stays suspended for the credentials in use.
* `EveryAttemptReturns` (violated, see 4).

Abstractions and assumptions. `Claim` is inside the round that Admission guards,
so the consumer of an earlier attempt is over. One cron pass runs at a time
(45 s, every minute). An update that its transport delays has landed or is lost
before the row falls due again (`Quiet`: the request timeouts are shorter than
lease and backoff); a create may land arbitrarily late. One publication row
stands for the head. Of a credential digest it matters only whether it is that
of the credentials in use. The `neutral` conclusion, texts, inheritance from
other heads and the create state `unknown` (treated as `sending` everywhere) are
left out. `Budgets` bounds faults (a failed probe is one), retries, and changes
of the App or of its key.

### Findings

What an apply does. The rows of findings (row id, open, last publication, the
rounds that closed it), the publications of one pull request in the order of
`created_ms` (phase, lease, attempts, the findings seen and closed, the row ids
the payload was staged with), the comment, a consumer and the cron. A round
applies what is confirmed and pending (`Begin`, `ClaimPending`), captures the
open findings, stages a payload that never changes again, sends, proves and
applies; the cron claims what is due and discovers a send whose answer was
lost. An apply is three groups of statements, and a D1 batch of 25 may end
between two of them: `Batch` commits any number of groups, the last of which
sets the foreign keys of associations (`Dangling`).

* `ClosesWithContext`: a round closes a finding only if everything confirmed
  when it began was applied before, whoever held it and whatever failed.
* `PublishedIsApplied` (violated, see 4).

### Increment

What the rounds of one pull request have looked at. A history of commits, the
head that people move over it, the consumer's round, the journal with the two
flags of its payload (verdict, `context_incomplete`), the rows of `reviews` in
order of insertion, the cron. `Checkout` is clone, dedup and hand-off;
`ApplyPending` and `PendingFails` apply older publications; `FindBase` takes the
newest whole row that GitHub finds behind the commit; `FullDiff` reads what
`gh pr diff` shows of the head of that moment; `Capture` or `Skip` read the
increment; `Stage`, `Send`, `Finish` end the round; `Discover` and `Recover` are
the cron's. A diff is the set of commits whose changes it shows: a change that is
made and reverted within a diff counts as shown.

* `Covered`: every change of a commit with a whole review, or of one that was
  acked because nothing was added, was in the diff of a whole review. The
  exception is stated in it: what a rewrite between clone and full diff took
  from a first review (`Rewritten`, see 4).

One App reviews the pull request (a second one would keep the row of the other
for the same commit); a round applies every confirmed publication, where the
code reads ten; its target branch stays.

### Resolutions

One association in the queue of threads to resolve (state, verdict, lease,
attempts, superseded, late change), its thread on GitHub, the consumer that
enqueues a verdict and tries at once, the cron that goes on. `Claim`, `Reload`,
`Capture`, `CheckIssue`, `Recheck`, `Mutate`, `Observe` are the awaits of
`resolveFindingThreadWithDeps`; between any two people push, reply, comment,
resolve, operators retry, leases end, isolates die. A digest is the count of
changes it was taken at. `Incomplete` is the capture that does not see all there
is, or a verdict that did not: the association needs a recheck. `Suspend` and
`Reenable` have the kinds of Publication, and a probe of the lane may fail.

* `LateChangeIsTold`: a thread the App resolved over a push or reply its verdict
  had not seen is recorded with `late_change`.
* `VerdictsEnd` (in `NothingStaysQueued`): a verdict in the queue is settled,
  superseded, used up, or suspended for the credentials in use, which takes it
  out of the queue until they are replaced.

### HeadLane

The commits of one pull request: webhook deliveries in any order, the ledger
row, the KV claim of each commit, one job per delivery. `Deliver` is the upsert,
`PreCheck`, `Send`, `SendFails` and `Stamp` are `handleReviewJob`; a job may be
paused, find its commit overtaken (`ReadLedger`, then `ReadProof`: may the job
of the newer one still run?), review, degrade, or abandon in a get and a put.

* `LedgerIsNewest`: the row is that of the newest delivery taken, of one of them
  within a second, with merged kept.
* `OneIsNotSkipped`: unless the head has come back, the jobs sent never all skip
  each other as superseded.

### Workspaces

Workspaces with plan and life, members with roles, one invitation per workspace
and login, and requests that have passed their gate and wait for their batch.
A gate reads (`AskCreate`, `AskAccept`, `Resolve`, `AskRemove`, `AskRole`,
`AskFound`, `AskPlan`); the batch has its guards in SQL (`Create`, `Accept`,
`Remove`, `SetRole`, `Found`, `SetPlan`); `Revoke`, `Retire` and `Sweep` are
batches of their own. The clock of a request is that of its gate. An invitation
lives `InviteTtl` ticks. `lowered` is a history, that a plan change has once
taken seats from a workspace. The seats are checked in a lane of `MCRounds`.

* `SeatsHold`: a step that adds to the members and invitation rows of a
  workspace, lapsed rows counted too, leaves them within the plan its request has
  resolved; one that adds to its members leaves these within it.
* `PlanIsNotOversold`: while its plan was never lowered, a workspace has no more
  members and live invitations than the plan includes. The acceptance counts
  members only, so this rests on the invitation that it ends, lapsed or not.
* `AlwaysOwned`: a live workspace has an owner.
* `RetiredIsEmpty`: a retired workspace has no member.
* `OneFreeHome`: a login takes a second free workspace only by an operator's
  downgrade.

### Runner

One run of the runner's process under the exec guard. The fan-out has seats
that end with a payload, by their cap, by a failure or by a rejected promise;
the deep parent turn is heard through its listener, may be parked and waited
for. The recheck runs beside, the report after them. Caps are cut from one
deadline (`SeatCap`, `RecheckBudget`, the wait, the report's timer). The engine may
refuse an envelope that the runner has put together, and the run fails. Time is in
half minutes; the SDK keeps a cap and answers an abort at once; the process's
own work takes no time.

* `EnvelopeIsHonest`: a clean envelope has every seat's payload, an incomplete
  one no seat that was lost beside something usable.
* `GuardKillsNoReview`: the guard kills only a process that is still starting
  or whose parent turn has not returned.
* `TeardownIsLast`: nothing runs in a session that is disposed.

### AppConfig

The model configuration of one App under concurrent requests of its settings
page: the endpoint of each custom provider, the keys of its pool with the
endpoint each was verified against, the named chains and the chain of each seat.
A request reads and verifies (`Declare`, `AskAppend`, `AskRoles`) and later runs
its batch (`Create`, `Redeclare`, `Append`, `SaveRoles`), whose statements have
conditions of their own; a batch is written statement by statement in their
order. `RemoveProvider`, `DeleteKey`, `AddChain` and `RemoveChain` are one batch.
The reads of one request are taken in one step; the last of them decides.

* `KeysAtTheirEndpoint`: a stored key has a declaration, at the endpoint that the
  key was verified against.
* `CapsHold` (`PoolsFit` in Stores): neither pools nor declarations exceed their
  bounds.
* `SeatsResolve` (violated, see 4).

Left out: the pools of built-in providers with their evidence rows (the same
insert without a declaration), the promotion of keys from before 0024, model
ids, the default chain, and `setModelChainSeat`, which no route calls.

### MCStores and MCRounds

`Findings`, `Resolutions`, `HeadLane`, `Workspaces`, `Runner` and `AppConfig` have
no variable in common. `MCStores` runs them, `CommentClaims`, a second
`Workspaces` and the two halves of `AppConfig` as nine *lanes*: a behaviour takes
the steps of one of them, the others stay where they begin. It is nine checks in
one run, not a composition. `MCRounds` does the same with `CommentClaims`,
`Increment` and a third `Workspaces` for safety alone. `NothingStaysQueued` is
`ClaimSettles` and `VerdictsEnd` in one formula, which TLC checks in half the
time. A constant that is a number or a set of names is one of these modules' own, with its value in the .cfg, so that the proofs
hold for every value. The lanes of claims and configuration, and the seats of
`MCRounds`, are instances of the proof modules (`CommentProofs`,
`AppConfigProofs`, `WorkspaceProofs`), whose theorems thereby hold of them. The second `Workspaces` is not, since TLC does not evaluate the
constants of a module that is both extended and an instance below another; the
proofs identify the two (section 5). What connects the
components is the consumer, which passes through them in one order: admission,
claim, runner, capture, publication, apply, resolution, Check.

## 3. The runs

| run | instance | shows |
|---|---|---|
| Admission_safety | 2 messages on one PR, one a comment trigger, 2 levels, 4 deliveries, caps 1..2; or 2 PRs of a tenant at their last delivery | TypeOK, OneRoundPerPr, RowOutlivesRound, FirstHolder, AdmissionUnderCap, EveryMessageEnds |
| Admission_silent | 1 message | SilentDropIsCovered is violated |
| CommentClaims_safety | 2 comments, 3 webhooks, 2 queue places, 1 re-send; or rounds over 3 commits, the second empty, any pushes, 1 fault; or 1 workspace, 3 logins, 2 or 3 seats, plan changes, 2 requests, 1 invitation of 2 ticks per login, 2 clock ticks | TypeOK, ExpiredNeverRan, StartsAtMostOnce, Covered, PlanIsNotOversold, SeatsHold |
| CommentClaims_capdrop | 1 comment, 4 deliveries | CapDropIsTraced is violated |
| Publication_safety | 2 heads, earlier comment or none, deleted comments, 2 attempts | TypeOK, PreparedIsUnsent, PublishesOnce |
| Publication_live | 1 head, 3 attempts, pauses, suspension, failing probes, replaced keys, retries, deletions | PublishesOnce, Settles |
| Publication_starve | 2 heads, passes of one row, one claim per row | ConfirmedIsApplied is violated |
| CheckAttempts_recovery | 1 attempt with faults, a retry or changes of the App; 2 attempts in a row; 2 recoveries each | TypeOK, OneRunPerAttempt, DoneIsShown, GreenIsEarned, ConclusionsStand, EveryAttemptEnds |
| CheckAttempts_stranded | 1 attempt, 1 lost answer, an App that is active throughout | EveryAttemptReturns is violated |
| Stores | nine lanes, see below | LanesTypeOK, AlwaysOwned, RetiredIsEmpty, LanesOneHome, NothingStaysQueued, ClosesWithContext, LateChangeIsTold, OneIsNotSkipped, LedgerIsNewest, EnvelopeIsHonest, GuardKillsNoReview, TeardownIsLast, KeysAtTheirEndpoint, PoolsFit |
| Findings_poison | 1 finding, 2 publications | PublishedIsApplied is violated |
| AppConfig_seats | 1 chain, 1 seat, 2 requests | SeatsResolve is violated |

The lanes of `Stores`:

| lane | instance |
|---|---|
| members | 1 workspace, 3 logins for 2 seats, every role, 2 requests at a time, 1 invitation per login, 1 clock tick |
| plans | 2 workspaces, 2 logins, 2 seats, plan changes, foundings |
| claims | 1 comment, 2 webhooks, 2 queue places, 1 delivery of a message, every send fault |
| findings | 1 finding, known or new, 2 publications, 2 attempts, 1 fault |
| resolutions | 1 push or reply, 1 comment, 2 rounds, 2 attempts, 1 fault |
| heads | 3 deliveries of 2 commits, the last two within a second, the last a merge, 1 fault |
| runs | 2 seats or a deep turn, guard 8, cap 2, tail 2, margin 1, floor 1 (half minutes) |
| keys | 2 providers, 1 place for a declaration, 3 keys, 2 places in a pool, 2 endpoints, 2 requests |
| chains | 2 chains, 2 seats, 2 requests |

Bounds, and why they are enough to be worth something. Two messages are what
it takes to race for a row, two PRs for the capacity, with either cap the
smaller; the proof of `AdmissionUnderCap` covers more PRs and tenants. The
messages of two PRs begin at their last delivery, as if earlier ones had died. The scaled times keep the order of the real ones (every delay < ttl
<= sum of delays, wall < ttl; at the quick level the last two delays alone reach
the ttl, at the deep level they do not; the delays of quick do not cover the
ttl of deep). The wall clock is one tick: how long a round may go on is decided
by the row it must not outlive, and the proofs have any wall clock below the
ttl. The queue of `CommentClaims` holds two
messages, so a duplicate, a re-send or a second trigger is there beside the
first. Two heads are a publication and a newer one; the earlier comment
`Prior` makes updates possible as well as creates. Two attempts distinguish a
first failure from the cap, three also a retry between them. With two heads
the App stays active and no operator retries; these disturbances are checked
with one head. `SelectLimit` is the number of rows a pass reads (10 in
production, 1 in `Publication_starve`: as many failed rows as it reads are
enough to show the starvation); `PendingLimit`, the number of confirmed rows a
round applies first, is 10 in production and 2 in the runs, all rows of two
heads. `OneClaim` bounds `Publication_starve`.
Three commits are a base, an increment over it and one over that; as the head
may be forced to any of them at any time, every one is also the rewrite of
another. One fault spoils a base; the proof has any number.
Symmetry is used in safety runs only.

In `Stores`, a message of the claims has one delivery: a retry only delays what
`NothingStaysQueued` waits for, and `CommentClaims_safety` has two. Two requests
are a race, and a third login is there to take the
seat that an invitation loses. The seats under plan changes are a lane of `CommentClaims_safety`:
with an invitation's life of two ticks of three, the invitations of a workspace lapse
one after the other, and a downgrade or an acceptance fits between any two. A
second provider and a third key find no place.
Two publications are a round and the one it
builds on. Three deliveries are a commit, its successor and an event that does
not queue a job. One fault in a lane is a death or a lost answer in every
place; two attempts distinguish a failure from the last one. The runner's guard
is long enough for the cap of a seat to end before it is cut by the tail. Its
start may take any time, so that the tail cuts it too. Deadlock is not checked
where a lane comes to an end: everything is done.

### Fairness

* Admission: time passes, the queue delivers what is due, a delivery goes on
  or dies. Weak fairness of a message's steps is all that is assumed.
* CommentClaims: isolates go on or die; windows elapse; the cron starts sweeps
  (`*/15`). Strong fairness of sending and counting: not every sweep is killed
  before a given claim.
* CheckAttempts: consumers, give-ups and cron steps go on, deadlines pass,
  backoffs and leases end, the cron runs every minute. No fairness of faults,
  retries or changes of the App or its key, and none of `GiveUp`.
* Resolutions (its lane): the consumer and the cron go on, leases and backoffs
  end, the reenable lane runs. None of faults, people or operators: nobody need
  replace a key. The fairness of CommentClaims is that above.
* Publication: isolates that run go on; leases expire, rows age and fall due;
  the cron starts passes. Strong fairness of the row steps of a pass: not every
  pass dies, or is out of budget, before a given row. Strong fairness of
  `Reenable`: where a probe is tried again and again, it does not fail for ever.
  `Begin`, `Die`, `Rekey`, every refusal and every environment choice have no
  fairness.

## 4. Where the code and its documents disagree

* `SilentDropIsCovered`: `handleGuardHeld` drops silently when the live row
  names the message's own commit, on the ground that a live review covers it.
  The row may be the orphan of a dead isolate, even the message's own.
* `CapDropIsTraced`: a comment trigger consumes its claim before admission, so
  the delayed retry of a refused one finds it consumed and is acked: no review
  and no drop row.
* `ConfirmedIsApplied`: `markPublicationFailed` leaves `recovery_state`
  pending, so failed rows are selected by every pass, skipped, and selected
  again. Ten of them that are oldest fill every selection, and later rows are
  never recovered.
* `PublishedIsApplied`: a round that reports a new finding preallocates its row
  id when it stages the payload. If an older publication with the same finding is
  discovered and applied between this read and the apply, the upsert keeps the
  other id, and the association's insert fails on its foreign key
  (`migrations/0020`). Every apply of the published review is rolled back in its
  last batch until the attempts are used up.

* `SeatsResolve`: `setModelChainSeats` reads the chains and writes the seats
  later, and neither its statements nor a foreign key look at the chains again.
  A chain removed in between leaves a seat that refers to nothing, which
  `readModelOverrides` takes for tampering: every review of the App fails until
  the seats are saved again.
* `EveryAttemptReturns`: credential failures are to be "operator-state failures,
  not transient per-row retries". One unanswered `GET /app` is an identity
  mismatch with the digest of the credentials in use, and nothing is tried again
  before the digest changes. So a transient failure strands the open attempts of
  an active App with good credentials until somebody stores its key again, and
  likewise its publications and verdicts, whose lanes do the same.

Seen while modelling, without a run:

* The DELETE after a failed send (`handlers.ts:239`) does not look at the state;
  if the queue had stored the message, it may remove a consumed claim, which
  0048 says is never deleted. A retried webhook then starts a second review:
  with `SendFault` "ambiguous", `StartsAtMostOnce` fails.
* An acceptance is to convert one pending invitation into one member and to
  leave their sum as it was, so its guard counts members only
  (`invite-store.ts:253`). Its clock is that of its gate: an invitation that
  lapses under way is no longer in the sum, but is accepted. With the plan
  lowered and other invitations pending, members and live invitations then
  become more, and more than the plan includes. `PlanIsNotOversold` therefore
  asks for a plan that was never lowered; the members alone stay within what the
  request has resolved (`SeatsHold`).
* The backoff "must COVER the level's guard TTL" so that "by the final delayed
  attempt the in-flight row has expired" (`consumer.ts:680`). The row has the ttl
  of the level its delivery read, the delays are those of the level the refused
  message reads. When the App is set from deep to quick in between, and the
  deep round died, 2400 s of delays do not cover 2532 s of row: the last
  delivery is dropped before an orphan. `FirstHolder` asks for one level.
* `setCheckDesired` (`review-checks.ts:990`) lets a failure become a success
  when a proof arrives, so that "the same owned run" is corrected. If the
  failure had reached GitHub and only its answer was lost, the recovery compares
  the concluded run with the corrected intent (`check-reconcile.ts:1092`), calls
  it a contradiction and gives up: the row says success and the Check stays red.
* `applyPendingLifecycleJournals` reads only confirmed rows. A send whose answer
  was lost is discovered by the cron later, possibly after a newer publication
  was applied, and then closes or reopens what the newer one saw.
* The writes that count or park an association look at its state and a free
  lease, not at the verdict. A verdict enqueued while the cron works with the
  older one can leave the queue for it ("durably queued from here on",
  `consumer.ts:5264`). The read after a resolve does not take issue comments
  again.
* The consumer keys everything by the commit it has checked out, "so
  diff/files/commit_id always describe the same commit" (`consumer.ts:3970`), but
  `gh pr diff` names the pull request (`gitops.ts:179`) and shows its head of
  now. After a push in between, a first review is of the newer diff. After a
  forced push it misses commits of its own; its row is a base all the same, and
  when the branch is moved back, increments over it leave these commits out.
  `Covered` names them (`Rewritten`). Increments are pinned to two commits.
* With a head that a push has brought back (A, B, A) the jobs of one commit
  share a claim, and all may be acked as superseded with no review and no row.
  `OneIsNotSkipped` therefore asks for a head that has not come back. A late
  `1` put after an abandoned job stays for its day.
* `setWorkspacePlan` checks that a workspace lives and upserts later: a
  workspace retired in between gets an active plan row again, which
  `deleteWorkspace` says it must not have. `createInvite` does not look at
  `deleted_at`: an invitation can be created in a retired workspace. It can not
  be accepted (`RetiredIsEmpty`).

## 5. The proofs

`AdmissionProofs` (for any messages, PRs, workspaces, levels and caps, from
`MapsAssumption` and `TimesAssumption`: the maps have their types, there are
finitely many PRs, and each level's ttl exceeds the wall clock):

* `AdmissionType`: type correctness.
* `RowOutlivesRoundHolds`, `OneRoundPerPrHolds`: neither is inductive. A tick
  could expire the row of a running round unless the row has more ticks left
  than the delivery, so `LockInv` says that a round owns its row and
  `left > wall`. `ttl > wall` establishes it; every tick takes one from both.
* `AdmissionUnderCapHolds`: the action property, by a counting argument. Rounds
  map injectively into live rows (`RoundsFitRows`, from the two results above),
  only `Acquire` enters a round, and it tests both counts before it adds one.

* `FirstHolderHolds` (also from `BackoffAssumption`: the delays of each level
  cover its ttl): `BackoffInv` follows the row down the schedule. `Rest` is what
  is left of the delays at each delivery; as long as a message is up against
  the row that refused it first, the row has no more ticks than the message
  has waiting before it (`Schedule`). An attempt that lost its row inserts none
  again (`OwnersSpent`), so an owner is recognised.

`CommentProofs` (any comments, webhooks, queue; `CleanSends`: sends only fail
with nothing queued):

* `CommentClaimsType` (without `CleanSends`): type correctness.
* `ExpiredNeverRanHolds`, `ClaimsImplementOnce`: `ClaimInv` says that while a
  delivery is sending or deleting, its claim is queued and fresh, and neither a
  message nor the sweep knows of it; so the unconditional DELETE hits a claim
  that nobody carries. Without `CleanSends` this is false
  (section 4).

`WorkspaceProofs` (any workspaces, logins, requests, plans and bounds, from
`Sane`: the constants have their types, workspaces and logins are finite):

* `WorkspacesType`: type correctness.
* `AlwaysOwnedHolds`: `AlwaysOwned` is inductive with the types, since `MayLeave`
  is inside the batch; the proof counts owners before and after.
* `RetiredIsEmptyHolds`: not inductive, as an acceptance may wait while its
  workspace is retired, and even while a new invitation is created there.
  `AcceptInv` says that it holds an invitation that is not newer than the
  row's, and that in a retired workspace the one it holds is not pending;
  `WInv` is the conjunction.

* `SeatsAlwaysHold`, `PlanIsNeverOversold`, `OneHomeAlways`: for invitations of any
  life. Who creates one has ended the lapsed rows in the same batch, so what it
  counts is all rows; who joins ends a row, lapsed or not, so the rows do not
  become more. This is counting, and gives `SeatsHold` step by step.
  `PlanIsNotOversold` is not inductive: it is about live invitations, and an
  acceptance may end one that is not. `RowsInv` bounds the rows instead, and says
  that the limit of a request under way is no larger than what the plan includes
  now, if that was never lowered. `UnbornInv` says that what is not founded has
  neither members nor requests but the founding ones; `SeatInv` is the
  conjunction with `WInv`.

`AppConfigProofs` (any requests, providers, endpoints, keys, chains and bounds,
from `Sane`: finitely many providers and keys, `None` is no endpoint or chain):

* `AppConfigType`, `KeysAtTheirEndpointHolds`, `CapsHoldAlways`: the types, the
  endpoints and the caps are inductive together, because every batch decides by
  its own statements. The endpoints need the order of the statements in a batch;
  the caps need that a stored key or declaration is replaced in its place.

`CheckProofs` (any attempts, gate and budgets, from `CheckAssumption`):

* `CheckInvariant`: `IInv`, per attempt. `Once`: the mark precedes the create,
  and who has marked a row and still owns it is the first to send one.
  `Leases`: the cron works on what the consumer has lost, and a consumer never
  regains it. `Runs` and `Done`: whoever sends or records a conclusion knows what
  the run shows, and nobody is about to change what is recorded. `Green`: a
  success comes from a proof, which is never taken back. No step touches two
  attempts (`Untouched`, `Assemble`), and most steps only let go (`Retreat`).
* `CheckTypes`, `OneCheckPerAttempt`, `DoneMeansShown`, `GreenMeansProven` follow
  from it, and `NoConclusionIsUndone`, the action property, from it and the steps.

`PublicationProofs` (any heads, attempts, rows per pass and disturbances, from
`PublicationAssumption`: the constants have their types and the limits are
positive):

* `PublicationType`, `PreparedIsUnsentHolds`, `PublicationImplementsOnce`: the
  types, `PreparedIsUnsent` and the refinement of `PublishOnce`. None is
  inductive, as the cron acts on what it read. A body is sent only after the
  claim that takes its row out of "prepared". That claim is the consumer's, with
  the statement after the staging (`Staged`: the row is not old enough for the
  cron), or that of a pass that read the row as prepared (`AsRead`: a claim since
  that read is still live, so the pass does not get the row). `Senders` says
  that from there to the mutation the row is "sending" or "unknown" and unsent,
  and that two senders are at two heads; `Landings` ties proofs and stored
  results to what has landed. `PInv` is the conjunction. In the proof every step
  stages a row, takes one, lands one or leaves what the invariant speaks of, and
  `OnceRow` names the step of `PublishOnce` that it is. The two timing
  assumptions of section 2 are in the guards of the model, and the proof needs
  both.

`IncrementProofs` (over `MCRounds`; any commits, history and faults, from
`RoundsAreSane`: a history contains its commit and is closed under ancestors):

* `IncrementType`: type correctness.
* `CoveredHolds`: not inductive, since a base is used long after it was read.
  `BasesAreWhole` says that the base of a round, and of everything staged, is a
  commit with a whole review; `RowsAreStaged` that rows are those of staged
  payloads, which no later step changes. Then what a new row has not shown
  itself is its base's, and what was shown only grows (`Grows`,
  `WholeIsCovered`); `StepKeeps` collects what a step has to respect, and
  `NextInv` goes through the steps.
* `LanesSeatsHold`, `LanesPlanIsNotOversold`: what `WorkspaceProofs` shows of
  seats, of which the lane is an instance.

`StoreProofs` (over `MCStores`, for any values of the constants in its .cfg, from
`LanesAreSane`). A behaviour of `MCStores` is one of each of its lanes, which
either takes a step of the lane or stutters; so an invariant of a lane is one
of `MCStores`, and the theorems state it there, where the run checks it.

* Runner: `RunInv` has what may run in which phase, that what has a cap ends
  before the guard (`RunTimes`; from it `GuardKillsNoReviewHolds`), and that an
  envelope is drawn from what does not change any more (`RunVerdict`; from it
  `EnvelopeIsHonestHolds`). `TeardownIsLastHolds` is the phases.
* HeadLane: `HeadInv`. The ledger is that of the newest arrival (`HeadLedger`,
  which contains `LedgerIsNewest`); a proof in KV has a job behind it
  (`HeadProofs`); a job that is skipped was skipped for a commit that a newer
  delivery brought and that has a job (`HeadJobs`); one job is of the newest
  delivery sent (`HeadLast`). Were all of them skipped, then this one for a commit
  of a newer delivery whose job is of an older one: the head came back
  (`OneIsNotSkippedHolds`).
* Resolutions: `ResInv`. No verdict has seen more than was said, and what an actor
  carries is the verdict of the row or an older one, unless it is about to
  become it (`ResVerdicts`); a row that says resolved has a resolved thread, and
  an adopted one was resolved within what its verdict has seen (`ResThreads`).
  With these `LateChangeIsTold` is inductive.
* Findings: `FindInv`. What was confirmed when a round began is applied, still to
  be applied by it, or the round is told that it was not (`FindContext`), and
  only a round that is not told stages closes; an applied row stays applied
  (`FindJournal`). `ClosesWithContextHolds` is the action property. That there is
  an oldest pending row is `LeastOf`, from the well-foundedness of `<`.
* Workspaces, configuration, claims: their own theorems, for the instances. The
  second `Workspaces` is proved through an instance of `WorkspaceProofs` with the
  same substitution, whose definitions `PlanSteps`, `PlansAgree` and `PlanHomes`
  show to be those of `V`.
* `LanesType`: the types of all nine.

Before they were proved, the invariants were checked on the instances of
section 3 or larger ones (`FindInv` with three publications and two faults).

Every invariant and every safety property that a passing run checks is stated
by a theorem. Only model-checked is liveness: `EveryMessageEnds`, `Settles`,
`EveryAttemptEnds`, `NothingStaysQueued`. It needs fairness and ENABLED,
which the prover does not reason about. The refinements (`ClaimsImplementOnce`,
`PublicationImplementsOnce`) are proved for the safety of the two abstract
specifications, which is all they promise. The properties of section 4
fail, and are TLC's.

## 6. The plan

Done: Admission, CommentClaims, Publication (most important first: admission
guards cost and duplicates, the claims guard triggers, the journal guards what
users see), CheckAttempts, Findings, Resolutions, HeadLane, Workspaces, Runner,
AppConfig, Increment; the proofs of section 5. What is left, in this order:

1. The verdict queue as an abstract specification that Resolutions implements,
   and its refinement proof.
2. The discovery of threads by their markers, and the line comments.
3. The rows of degraded notices, with the staleness check of the other chain.

## 7. Not modelled

Rendering, redaction, prompts, translations and the browser application;
request handlers that are one statement; signature checks and encryption;
retention deletes; generated catalogs. Each is listed in `PROJECT.json` with
its reason. D1 statements are atomic and serializable, KV is a store with
single reads and writes, and GitHub's comment list is read in one step.
