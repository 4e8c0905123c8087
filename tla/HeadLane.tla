------------------------------ MODULE HeadLane ------------------------------
(***************************************************************************)
(* The commits of one pull request between GitHub's webhooks and the end   *)
(* of their jobs: the ledger row (upsertPullRequest in                     *)
(* src/dashboard/apps-store.ts), the claims of commits in KV               *)
(* (src/contracts/idem.ts, handleReviewJob in src/worker/handlers.ts) and  *)
(* the skip of a job that a newer commit has overtaken (processMessage).   *)
(*                                                                         *)
(* Webhook deliveries run concurrently and in any order, GitHub sends a    *)
(* failed one again.  KV has a get and a put and nothing that joins them.  *)
(***************************************************************************)
EXTENDS Naturals

CONSTANTS
    Event,      \* webhook deliveries of the pull request
    Sha,        \* its commits
    NoSha,
    ShaOf,      \* [Event -> Sha]
    StampOf,    \* [Event -> Nat \ {0}]: updated_at, in seconds
    StateOf,    \* [Event -> {"open", "closed", "merged"}]
    Queue,      \* SUBSET Event: those whose action asks for a review
    MaxFaults   \* failed sends, failed statements and failed requests to KV

Sane ==
    /\ NoSha \notin Sha
    /\ ShaOf \in [Event -> Sha]
    /\ StampOf \in [Event -> Nat \ {0}]
    /\ StateOf \in [Event -> {"open", "closed", "merged"}]
    /\ Queue \subseteq Event
    /\ MaxFaults \in Nat

VARIABLES
    ledger,     \* the row of pull_requests
    kv,         \* the claim of each commit
    hook,       \* where each delivery stands
    job,        \* where its job stands
    saw,        \* what an abandoning job has read from KV
    outcome,    \* how a job has ended
    reviewed,   \* commits with a review in D1
    arrived,    \* deliveries the ledger has taken
    faults

vars == <<ledger, kv, hook, job, saw, outcome, reviewed, arrived, faults>>

Proof   == {"1", "done"}
Abandon == {"paused", "superseded", "degraded", "dropped", "failed"}
Claims  == {"none"} \cup Proof \cup Abandon

TypeOK ==
    /\ ledger \in [state : {"none", "open", "closed", "merged"}, seen : Nat,
                   sha : Sha \cup {NoSha}, at : Nat]
    /\ kv \in [Sha -> Claims]
    /\ hook \in [Event -> {"due", "check", "send", "stamp", "ended"}]
    /\ job \in [Event -> {"none", "queued", "proof", "running", "abandon",
                          "put", "acked"}]
    /\ saw \in [Event -> Sha \cup {NoSha}]
    /\ outcome \in [Event -> {"none", "reviewed", "known"} \cup Abandon]
    /\ reviewed \subseteq Sha /\ arrived \subseteq Event
    /\ faults \in 0..MaxFaults
    /\ \A e \in Event : job[e] \in {"abandon", "put"} => outcome[e] \in Abandon

Init ==
    /\ ledger = [state |-> "none", seen |-> 0, sha |-> NoSha, at |-> 0]
    /\ kv = [s \in Sha |-> "none"]
    /\ hook = [e \in Event |-> "due"]
    /\ job = [e \in Event |-> "none"]
    /\ saw = [e \in Event |-> NoSha]
    /\ outcome = [e \in Event |-> "none"]
    /\ reviewed = {} /\ arrived = {}
    /\ faults = 0

-----------------------------------------------------------------------------

Fault == faults < MaxFaults /\ faults' = faults + 1

Hook(e, where) == hook' = [hook EXCEPT ![e] = where]

Job(e, where) == job' = [job EXCEPT ![e] = where]

\* A bug: the stamp follows the delivery, not the newest one.
UpsertLatest(e, l) ==
    [state |-> IF l.state = "merged" \/ StampOf[e] < l.seen THEN l.state
               ELSE StateOf[e],
     seen  |-> StampOf[e],
     sha   |-> IF StampOf[e] >= l.at THEN ShaOf[e] ELSE l.sha,
     at    |-> IF StampOf[e] >= l.at THEN StampOf[e] ELSE l.at]

\* upsertPullRequest: merged is terminal, an older stamp changes nothing, a tie
\* takes the delivery that arrives.
Upsert(e, l) ==
    [state |-> IF l.state = "merged" \/ StampOf[e] < l.seen THEN l.state
               ELSE StateOf[e],
     seen  |-> IF StampOf[e] < l.seen THEN l.seen ELSE StampOf[e],
     sha   |-> IF StampOf[e] >= l.at THEN ShaOf[e] ELSE l.sha,
     at    |-> IF StampOf[e] >= l.at THEN StampOf[e] ELSE l.at]

-----------------------------------------------------------------------------
(* The webhook.                                                            *)

\* The ledger first; a gate, or an action that asks for nothing, ends it.
Deliver(e) ==
    /\ hook[e] = "due"
    /\ \/ /\ ledger' = Upsert(e, ledger)
          /\ arrived' = arrived \cup {e}
          /\ UNCHANGED faults
       \/ Fault /\ UNCHANGED <<ledger, arrived>>
    /\ \/ e \in Queue /\ Hook(e, "check")
       \/ Hook(e, "ended")
    /\ UNCHANGED <<kv, job, saw, outcome, reviewed>>

\* idempotencyHit; a failing read goes on.
PreCheck(e) ==
    /\ hook[e] = "check"
    /\ \/ /\ Hook(e, IF kv[ShaOf[e]] \in Proof THEN "ended" ELSE "send")
          /\ UNCHANGED faults
       \/ Hook(e, "send") /\ Fault
    /\ UNCHANGED <<ledger, kv, job, saw, outcome, reviewed, arrived>>

Send(e) ==
    /\ hook[e] = "send"
    /\ Hook(e, "stamp")
    /\ Job(e, "queued")
    /\ UNCHANGED <<ledger, kv, saw, outcome, reviewed, arrived, faults>>

\* 500: GitHub sends the webhook again, or not.
SendFails(e) ==
    /\ hook[e] = "send" /\ Fault
    /\ \E where \in {"due", "ended"} : Hook(e, where)
    /\ UNCHANGED <<ledger, kv, job, saw, outcome, reviewed, arrived>>

\* claimIdempotency, after the send; a failing put is only logged.
Stamp(e) ==
    /\ hook[e] = "stamp"
    /\ Hook(e, "ended")
    /\ \/ kv' = [kv EXCEPT ![ShaOf[e]] = "1"] /\ UNCHANGED faults
       \/ UNCHANGED kv /\ Fault
    /\ UNCHANGED <<ledger, job, saw, outcome, reviewed, arrived>>

-----------------------------------------------------------------------------
(* The job.                                                                *)

GivesUp(e, why) ==
    /\ Job(e, "abandon")
    /\ outcome' = [outcome EXCEPT ![e] = why]

\* The App is paused.
Paused(e) ==
    /\ job[e] = "queued"
    /\ GivesUp(e, "paused")
    /\ UNCHANGED <<ledger, kv, hook, saw, reviewed, arrived, faults>>

\* The ledger is read: strictly newer, and another commit.
Overtaken(e) == ledger.at > StampOf[e] /\ ledger.sha # ShaOf[e]

ReadLedger(e) ==
    /\ job[e] = "queued"
    /\ \/ /\ Overtaken(e)
          /\ Job(e, "proof")
          /\ saw' = [saw EXCEPT ![e] = ledger.sha]
          /\ UNCHANGED faults
       \/ /\ IF Overtaken(e) THEN Fault ELSE UNCHANGED faults
          /\ Job(e, "running") /\ UNCHANGED saw
    /\ UNCHANGED <<ledger, kv, hook, outcome, reviewed, arrived>>

\* A bug: the ledger alone is the proof.
HasJobAnyway(e) == TRUE

\* newerCommitHasJob.
HasJob(e) == kv[saw[e]] \in Proof

ReadProof(e) ==
    /\ job[e] = "proof"
    /\ \/ HasJob(e) /\ GivesUp(e, "superseded") /\ UNCHANGED faults
       \/ /\ IF HasJob(e) THEN Fault ELSE UNCHANGED faults
          /\ Job(e, "running") /\ UNCHANGED outcome
    /\ saw' = [saw EXCEPT ![e] = NoSha]
    /\ UNCHANGED <<ledger, kv, hook, reviewed, arrived>>

\* KV or D1 knows the commit as reviewed, or it is reviewed now.  The put after
\* the review may fail, the row in D1 is what counts.
Review(e) ==
    /\ job[e] = "running"
    /\ Job(e, "acked")
    /\ IF kv[ShaOf[e]] = "done" \/ ShaOf[e] \in reviewed
       THEN /\ outcome' = [outcome EXCEPT ![e] = "known"]
            /\ UNCHANGED <<kv, reviewed, faults>>
       ELSE /\ outcome' = [outcome EXCEPT ![e] = "reviewed"]
            /\ reviewed' = reviewed \cup {ShaOf[e]}
            /\ \/ kv' = [kv EXCEPT ![ShaOf[e]] = "done"] /\ UNCHANGED faults
               \/ UNCHANGED kv /\ Fault
    /\ UNCHANGED <<ledger, hook, saw, arrived>>

\* Not reviewed: a notice instead, no place until the last delivery, or the
\* last delivery has thrown.
Loses(e) ==
    /\ job[e] = "running"
    /\ \E why \in {"degraded", "dropped", "failed"} : GivesUp(e, why)
    /\ UNCHANGED <<ledger, kv, hook, saw, reviewed, arrived, faults>>

\* putAbandonClaim reads ...
AbandonRead(e) ==
    /\ job[e] = "abandon"
    /\ \/ /\ Job(e, IF kv[ShaOf[e]] = "done" THEN "acked" ELSE "put")
          /\ UNCHANGED faults
       \/ Job(e, "acked") /\ Fault
    /\ UNCHANGED <<ledger, kv, hook, saw, outcome, reviewed, arrived>>

\* ... and puts.
AbandonPut(e) ==
    /\ job[e] = "put"
    /\ Job(e, "acked")
    /\ \/ kv' = [kv EXCEPT ![ShaOf[e]] = outcome[e]] /\ UNCHANGED faults
       \/ UNCHANGED kv /\ Fault
    /\ UNCHANGED <<ledger, hook, saw, outcome, reviewed, arrived>>

\* The claim expires after a day.
Lapse(s) ==
    /\ kv[s] # "none"
    /\ kv' = [kv EXCEPT ![s] = "none"]
    /\ UNCHANGED <<ledger, hook, job, saw, outcome, reviewed, arrived, faults>>

-----------------------------------------------------------------------------

Next ==
    \/ \E e \in Event :
         \/ Deliver(e) \/ PreCheck(e) \/ Send(e) \/ SendFails(e) \/ Stamp(e)
         \/ Paused(e) \/ ReadLedger(e) \/ ReadProof(e) \/ Review(e) \/ Loses(e)
         \/ AbandonRead(e) \/ AbandonPut(e)
    \/ \E s \in Sha : Lapse(s)

Spec == Init /\ [][Next]_vars

-----------------------------------------------------------------------------
(* Properties.                                                             *)

\* Jobs of different commits never skip each other away, which none of them
\* could see alone: of the jobs that were sent, never all are given up as
\* superseded.  It takes a head that no push has brought back: two jobs of one
\* commit share a claim, and may each be skipped for the other's sake.
Sent == {e \in Event : job[e] # "none"}

HeadCameBack ==
    \E d, e \in Event : ShaOf[d] = ShaOf[e] /\ StampOf[d] < StampOf[e]
                         /\ \E b \in Event : StampOf[b] \in StampOf[d]..StampOf[e]
                                               /\ ShaOf[b] # ShaOf[d]

OneIsNotSkipped ==
    Sent # {} /\ ~HeadCameBack => \E e \in Sent : outcome[e] # "superseded"

\* "A replayed/out-of-order closed cannot overwrite a newer open", and the head
\* never rewinds: whatever the order of arrival, the row is that of the newest
\* delivery it has taken, of one of them within a second.
Newest == {e \in arrived : \A d \in arrived : StampOf[d] <= StampOf[e]}

LedgerIsNewest ==
    arrived # {} =>
      \E e \in Newest :
        /\ ledger.seen = StampOf[e] /\ ledger.at = StampOf[e]
        /\ ledger.sha = ShaOf[e]
        /\ \/ ledger.state = StateOf[e]
           \/ ledger.state = "merged" /\ \E d \in arrived : StateOf[d] = "merged"
=============================================================================
