--------------------------- MODULE CommentClaims ---------------------------
(***************************************************************************)
(* The durable claim of a comment trigger (migrations/0048) between its    *)
(* three writers: the webhook handler that inserts it and sends the job    *)
(* (src/worker/handlers.ts), the outbox of the cron sweep that sends it    *)
(* again (src/worker/sweep.ts) and the queue consumer that consumes it     *)
(* (processMessage in src/pipeline/consumer.ts).                           *)
(*                                                                         *)
(* Webhook deliveries, queue messages and the sweep run concurrently.  Any *)
(* of them may die between two statements, a statement may fail, the queue *)
(* may deliver a message more than once.                                   *)
(***************************************************************************)
EXTENDS Naturals, FiniteSets

CONSTANTS
    Comment,        \* bot-mention comments
    Hook,           \* webhook deliveries, GitHub's retries included
    CommentOf,      \* [Hook -> Comment]
    Slot,           \* places for messages in the queue: bounds its length
    NoComment,
    MaxAttempts,    \* review.comment_claim max attempts: re-sends per claim
    MaxDeliveries,  \* deliveries of one message before the DLQ
    SendFault       \* how a send may fail: a subset of
                    \*   "lost"      it throws and the queue has no message
                    \*   "ambiguous" it throws and the queue has the message
                    \*   "slow"      the outbox window elapses while it runs

ASSUME ClaimsAssumption ==
    /\ CommentOf \in [Hook -> Comment]
    /\ NoComment \notin Comment
    /\ MaxAttempts \in Nat \ {0}
    /\ MaxDeliveries \in Nat \ {0}
    /\ SendFault \subseteq {"lost", "ambiguous", "slow"}

VARIABLES
    \* comment_trigger_claims
    state,          \* state of each claim, "absent" without a row
    attempts,       \* re-sends the outbox has counted
    stale,          \* is queued_ms older than the retry window?
    \* IDEMPOTENCY_KV
    kv,             \* comments whose 24h fast-path key is set
    \* the isolates
    hook,           \* where each webhook delivery stands
    todo,           \* claims the running sweep has still to send
    sent,           \* the claim it has sent and not yet counted
    \* the queue and its consumer
    at,             \* where the message of each slot is
    of,             \* its comment
    tries,          \* its deliveries so far
    held,           \* why its last delivery was not admitted
    runs,           \* reviews each comment has started
    traced          \* comments with a drop row in review_failures

claims == <<state, attempts, stale>>
sweep == <<todo, sent>>
queue == <<at, of, tries, held>>
vars == <<state, attempts, stale, kv, hook, todo, sent, at, of, tries, held,
          runs, traced>>

Terminal == {"consumed", "expired"}

TypeOK ==
    /\ state \in [Comment -> {"absent", "queued"} \cup Terminal]
    /\ attempts \in [Comment -> Nat]
    /\ stale \in [Comment -> BOOLEAN]
    /\ kv \subseteq Comment
    /\ hook \in [Hook -> {"idle", "claiming", "sending", "deleting",
                          "stamping", "ended"}]
    /\ todo \subseteq Comment
    /\ sent \in Comment \cup {NoComment}
    /\ at \in [Slot -> {"free", "queued", "running"}]
    /\ of \in [Slot -> Comment \cup {NoComment}]
    /\ tries \in [Slot -> 0..MaxDeliveries]
    /\ \A i \in Slot : /\ at[i] # "free" => of[i] \in Comment
                       /\ at[i] = "queued" => tries[i] < MaxDeliveries
    /\ held \in [Slot -> {"no", "pr-held", "cap"}]
    /\ runs \in [Comment -> Nat]
    /\ traced \subseteq Comment

-----------------------------------------------------------------------------
(* Helpers.                                                                *)

\* A new message takes a free slot.
Enqueue(c, i) ==
    /\ at[i] = "free"
    /\ at' = [at EXCEPT ![i] = "queued"]
    /\ of' = [of EXCEPT ![i] = c]
    /\ tries' = [tries EXCEPT ![i] = 0]
    /\ held' = [held EXCEPT ![i] = "no"]

\* A message leaves the queue, acked or to the DLQ.
Leaves(i) ==
    /\ at' = [at EXCEPT ![i] = "free"]
    /\ of' = [of EXCEPT ![i] = NoComment]
    /\ tries' = [tries EXCEPT ![i] = 0]
    /\ held' = [held EXCEPT ![i] = "no"]

\* Mutated form of Throws: the last delivery is retried like the others.
ThrowsLast(i, n) ==
    /\ at' = [at EXCEPT ![i] = "queued"]
    /\ tries' = [tries EXCEPT ![i] = n]
    /\ held' = [held EXCEPT ![i] = "no"]
    /\ UNCHANGED of

\* A delivery that throws: retried at once, the last one to the DLQ.
Throws(i, n) ==
    IF n < MaxDeliveries
    THEN /\ at' = [at EXCEPT ![i] = "queued"]
         /\ tries' = [tries EXCEPT ![i] = n]
         /\ held' = [held EXCEPT ![i] = "no"]
         /\ UNCHANGED of
    ELSE Leaves(i)

Goto(w, step) == hook' = [hook EXCEPT ![w] = step]

\* The UPDATE that consumes a claim; mutated, it leaves the state as it was.
ConsumedLater(c) == state

Consumed(c) == [state EXCEPT ![c] = "consumed"]

\* The INSERT of handleReviewJob: a fresh claim, unless there is a row.
InsertClaim(c) ==
    /\ state[c] = "absent"
    /\ state' = [state EXCEPT ![c] = "queued"]
    /\ attempts' = [attempts EXCEPT ![c] = 0]
    /\ stale' = [stale EXCEPT ![c] = FALSE]

\* A delivery is between its INSERT and the end of its send or DELETE.
Sending(c) ==
    \E w \in Hook : CommentOf[w] = c /\ hook[w] \in {"sending", "deleting"}

-----------------------------------------------------------------------------
(* handleReviewJob.                                                        *)

\* The KV pre-check; a missed, lapsed or failing read goes on.
PreCheck(w) ==
    /\ hook[w] = "idle"
    /\ \/ CommentOf[w] \in kv /\ Goto(w, "ended")
       \/ Goto(w, "claiming")
    /\ UNCHANGED <<claims, kv, sweep, queue, runs, traced>>

\* The INSERT ... ON CONFLICT DO NOTHING: it writes the claim, or finds one
\* and skips.
Claim(w) ==
    /\ hook[w] = "claiming"
    /\ \/ /\ InsertClaim(CommentOf[w])
          /\ Goto(w, "sending")
       \/ /\ state[CommentOf[w]] # "absent"
          /\ Goto(w, "ended")
          /\ UNCHANGED claims
    /\ UNCHANGED <<kv, sweep, queue, runs, traced>>

\* The INSERT commits and its answer is lost: the webhook answers 500.
ClaimFault(w) ==
    /\ hook[w] = "claiming"
    /\ InsertClaim(CommentOf[w])
    /\ Goto(w, "ended")
    /\ UNCHANGED <<kv, sweep, queue, runs, traced>>

SendOk(w) ==
    /\ hook[w] = "sending"
    /\ \E i \in Slot : Enqueue(CommentOf[w], i)
    /\ Goto(w, "stamping")
    /\ UNCHANGED <<claims, kv, sweep, runs, traced>>

\* The send throws, and the queue has the message or not.
SendFails(w) ==
    /\ hook[w] = "sending"
    /\ \/ "lost" \in SendFault /\ UNCHANGED queue
       \/ "ambiguous" \in SendFault /\ \E i \in Slot : Enqueue(CommentOf[w], i)
    /\ Goto(w, "deleting")
    /\ UNCHANGED <<claims, kv, sweep, runs, traced>>

\* The DELETE after a failed send; it does not look at the row's state.
Delete(w) ==
    /\ hook[w] = "deleting"
    /\ state' = [state EXCEPT ![CommentOf[w]] = "absent"]
    /\ Goto(w, "ended")
    /\ UNCHANGED <<attempts, stale, kv, sweep, queue, runs, traced>>

\* claimIdempotency.
Stamp(w) ==
    /\ hook[w] = "stamping"
    /\ kv' = kv \cup {CommentOf[w]}
    /\ Goto(w, "ended")
    /\ UNCHANGED <<claims, sweep, queue, runs, traced>>

\* The isolate dies, or the statement it is at fails without effect.
HookDies(w) ==
    /\ hook[w] \in {"claiming", "sending", "deleting", "stamping"}
    /\ Goto(w, "ended")
    /\ UNCHANGED <<claims, kv, sweep, queue, runs, traced>>

-----------------------------------------------------------------------------
(* The sweep's outbox.  One sweep runs at a time.                          *)

\* Claims at the attempt cap; mutated, without the test of the state.
ExhaustedAny == {c \in Comment : attempts[c] >= MaxAttempts}

Exhausted == {c \in Comment : state[c] = "queued" /\ attempts[c] >= MaxAttempts}

Resendable == {c \in Comment : state[c] = "queued" /\ attempts[c] < MaxAttempts
                                                  /\ stale[c]}

\* Exhausted claims expire first; then a batch of stale ones is read.
SweepStart ==
    /\ todo = {} /\ sent = NoComment
    /\ Exhausted \cup Resendable # {}
    /\ state' = [c \in Comment |-> IF c \in Exhausted THEN "expired" ELSE state[c]]
    /\ \E batch \in SUBSET Resendable :
         /\ Resendable # {} => batch # {}
         /\ todo' = batch
    /\ UNCHANGED <<attempts, stale, kv, hook, sent, queue, runs, traced>>

\* The stored payload is sent, or the send fails.
SweepSend(c) ==
    /\ c \in todo /\ sent = NoComment
    /\ \/ \E i \in Slot : Enqueue(c, i)
       \/ UNCHANGED queue
    /\ todo' = todo \ {c}
    /\ sent' = c
    /\ UNCHANGED <<claims, kv, hook, runs, traced>>

\* Delivered or not, the attempt counts, if the claim is still queued.
SweepCount(c) ==
    /\ sent = c
    /\ IF state[c] = "queued"
       THEN /\ attempts' = [attempts EXCEPT ![c] = @ + 1]
            /\ stale' = [stale EXCEPT ![c] = FALSE]
       ELSE UNCHANGED <<attempts, stale>>
    /\ sent' = NoComment
    /\ UNCHANGED <<state, kv, hook, todo, queue, runs, traced>>

\* The sweep dies, or its UPDATE fails and ends the whole batch.
SweepDies ==
    /\ todo # {} \/ sent # NoComment
    /\ todo' = {} /\ sent' = NoComment
    /\ UNCHANGED <<claims, kv, hook, queue, runs, traced>>

-----------------------------------------------------------------------------
(* processMessage for a payload with a comment_id.                         *)

\* The UPDATE ... WHERE state = 'queued' changes a row: this delivery runs.
Consume(i) ==
    /\ at[i] = "queued"
    /\ state[of[i]] = "queued"
    /\ state' = Consumed(of[i])
    /\ at' = [at EXCEPT ![i] = "running"]
    /\ tries' = [tries EXCEPT ![i] = @ + 1]
    /\ runs' = [runs EXCEPT ![of[i]] = @ + 1]
    /\ UNCHANGED <<attempts, stale, kv, hook, sweep, of, held, traced>>

\* It changes none: acked without running.
AckClaimed(i) ==
    /\ at[i] = "queued"
    /\ state[of[i]] # "queued"
    /\ Leaves(i)
    /\ UNCHANGED <<claims, kv, hook, sweep, runs, traced>>

\* It fails, before or after it committed.
ConsumeFault(i) ==
    /\ at[i] = "queued"
    /\ \/ UNCHANGED state
       \/ state[of[i]] = "queued" /\ state' = Consumed(of[i])
    /\ Throws(i, tries[i] + 1)
    /\ UNCHANGED <<attempts, stale, kv, hook, sweep, runs, traced>>

\* The run ends by itself (reviewed, paused, degraded): acked.
RunEnds(i) ==
    /\ at[i] = "running"
    /\ Leaves(i)
    /\ UNCHANGED <<claims, kv, hook, sweep, runs, traced>>

\* The run throws, or its isolate dies.
RunThrows(i) ==
    /\ at[i] = "running"
    /\ Throws(i, tries[i])
    /\ UNCHANGED <<claims, kv, hook, sweep, runs, traced>>

\* The run was not admitted: handleGuardHeld retries it later, or after the
\* last delivery acks it, with a drop row unless a review held its PR.
RunHeld(i) ==
    /\ at[i] = "running"
    /\ \E reason \in {"pr-held", "cap"} :
         IF tries[i] < MaxDeliveries
         THEN /\ at' = [at EXCEPT ![i] = "queued"]
              /\ held' = [held EXCEPT ![i] = reason]
              /\ UNCHANGED <<of, tries, traced>>
         ELSE /\ Leaves(i)
              /\ traced' = IF reason = "cap" THEN traced \cup {of[i]} ELSE traced
    /\ UNCHANGED <<claims, kv, hook, sweep, runs>>

-----------------------------------------------------------------------------
(* The environment.                                                        *)

\* At-least-once delivery: the queue makes a second message of one.
Duplicate(i) ==
    /\ at[i] = "queued"
    /\ \E j \in Slot : Enqueue(of[i], j)
    /\ UNCHANGED <<claims, kv, hook, sweep, runs, traced>>

\* The retry window of a claim elapses; not under the delivery that has just
\* written it, unless its send is slow.
Elapse(c) ==
    /\ state[c] = "queued" /\ ~stale[c]
    /\ "slow" \in SendFault \/ ~Sending(c)
    /\ stale' = [stale EXCEPT ![c] = TRUE]
    /\ UNCHANGED <<state, attempts, kv, hook, sweep, queue, runs, traced>>

\* The KV key expires.
Lapse(c) ==
    /\ c \in kv
    /\ kv' = kv \ {c}
    /\ UNCHANGED <<claims, hook, sweep, queue, runs, traced>>

\* Nothing is left to do: no webhook is due, no claim or message is open.
AtRest ==
    /\ \A w \in Hook : hook[w] = "ended"
    /\ \A i \in Slot : at[i] = "free"
    /\ \A c \in Comment : state[c] # "queued"
    /\ UNCHANGED vars

-----------------------------------------------------------------------------

Init ==
    /\ state = [c \in Comment |-> "absent"]
    /\ attempts = [c \in Comment |-> 0]
    /\ stale = [c \in Comment |-> FALSE]
    /\ kv = {}
    /\ hook = [w \in Hook |-> "idle"]
    /\ todo = {}
    /\ sent = NoComment
    /\ at = [i \in Slot |-> "free"]
    /\ of = [i \in Slot |-> NoComment]
    /\ tries = [i \in Slot |-> 0]
    /\ held = [i \in Slot |-> "no"]
    /\ runs = [c \in Comment |-> 0]
    /\ traced = {}

HookStep(w) ==
    \/ PreCheck(w) \/ Claim(w) \/ ClaimFault(w)
    \/ SendOk(w) \/ SendFails(w)
    \/ Delete(w) \/ Stamp(w) \/ HookDies(w)

SweepStep == SweepStart \/ \E c \in Comment : SweepSend(c) \/ SweepCount(c)

Consumer(i) ==
    \/ Consume(i) \/ AckClaimed(i) \/ ConsumeFault(i)
    \/ RunEnds(i) \/ RunThrows(i) \/ RunHeld(i)

Next ==
    \/ \E w \in Hook : HookStep(w)
    \/ SweepStep \/ SweepDies
    \/ \E i \in Slot : Consumer(i) \/ Duplicate(i)
    \/ \E c \in Comment : Elapse(c) \/ Lapse(c)
    \/ AtRest

Spec == Init /\ [][Next]_vars

\* Isolates that run go on, windows elapse, the cron keeps starting sweeps,
\* the queue keeps delivering, and the sweeps are not all killed before they
\* have sent a claim of their batch and counted it.
Fairness ==
    /\ \A w \in Hook : WF_vars(HookStep(w))
    /\ \A i \in Slot : WF_vars(Consumer(i))
    /\ \A c \in Comment : WF_vars(Elapse(c))
    /\ WF_vars(SweepStart)
    /\ \A c \in Comment : SF_vars(SweepSend(c)) /\ SF_vars(SweepCount(c))

LiveSpec == Spec /\ Fairness

-----------------------------------------------------------------------------
(* Properties.                                                             *)

\* A comment starts at most one review, and a settled one stays settled:
\* every step is a step of CommentOnce or leaves it alone.
Settled == {c \in Comment : state[c] \in Terminal}

Once == INSTANCE CommentOnce WITH settled <- Settled

StartsAtMostOnce == Once!Spec

\* A claim the outbox gave up has not started a review and never will, with
\* the messages of its earlier sends still in the queue.
ExpiredNeverRan == \A c \in Comment : state[c] = "expired" => runs[c] = 0

\* No claim stays queued for ever: it is consumed, expires, or is taken back
\* by the delivery that wrote it, whoever dies on the way.
ClaimSettles == \A c \in Comment : state[c] = "queued" ~> state[c] # "queued"

\* A review that a full deployment kept out does not vanish: the message
\* leaves the queue with a drop row (handleGuardHeld: "a cap/storage refusal
\* ... must leave a trace").
CapDropIsTraced ==
    [][\A i \in Slot :
         at[i] # "free" /\ held[i] = "cap" /\ at'[i] = "free"
         => of[i] \in traced']_vars

=============================================================================
