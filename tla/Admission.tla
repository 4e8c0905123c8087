----------------------------- MODULE Admission -----------------------------
(***************************************************************************)
(* The admission of a review: what happens to a queue message between its  *)
(* delivery and its end, as far as the table review_inflight decides it    *)
(* (src/store/inflight-store.ts, src/pipeline/consumer.ts).                *)
(*                                                                         *)
(* A delivery reads the App's level and the two caps, tries one            *)
(* conditional insert that is both the lock of the pull request and a      *)
(* capacity slot, runs its round while the row is live, destroys its       *)
(* sandbox and deletes its row.  A refused delivery is retried after a     *)
(* delay picked by its delivery number and, after the last one, dropped.   *)
(* The isolate that runs a delivery may die at any step: the queue         *)
(* delivers the message again and the row stays until it expires.          *)
(*                                                                         *)
(* Time is relative: a row carries the ticks it has left, a queued message *)
(* the ticks of its delay, a delivery the ticks of its wall-clock budget.  *)
(***************************************************************************)
EXTENDS Naturals, FiniteSets

CONSTANTS
    Msg,            \* the messages sent to the review queue
    PR,             \* the pull requests, one possible row each
    Workspace,      \* the tenants the second cap counts by
    Sha,            \* the commits a message may name
    PrOf,           \* [Msg -> PR]
    WorkspaceOf,    \* [PR -> Workspace]
    ShaOf,          \* [Msg -> Sha \cup {NoSha}]: NoSha is a comment trigger
    NoSha,
    NoAttempt,
    Level,          \* the review depths an App may be set to
    Ttl,            \* [Level -> ticks]: life of a row
    MaxDeliveries,  \* the first delivery and max_retries more: 4 in production
    Delay,          \* [Level -> [1..MaxDeliveries-1 -> ticks]]: the backoff
    Wall,           \* ticks the platform gives one delivery
    CapValue        \* values an operator may give to a cap

ASSUME MapsAssumption ==
    /\ IsFiniteSet(PR)
    /\ PrOf \in [Msg -> PR]
    /\ WorkspaceOf \in [PR -> Workspace]
    /\ ShaOf \in [Msg -> Sha \cup {NoSha}]
    /\ NoSha \notin Sha
    /\ NoAttempt \notin Msg \X (1..MaxDeliveries)

ASSUME TimesAssumption ==
    /\ MaxDeliveries \in Nat \ {0}
    /\ Wall \in Nat
    /\ Level # {}
    /\ Ttl \in [Level -> Nat]
    /\ Delay \in [Level -> [1..(MaxDeliveries - 1) -> Nat]]
    /\ CapValue \subseteq Nat
    /\ \A l \in Level : Wall < Ttl[l]

\* The delays of a level cover the life of its row: what is left of the row
\* at each delivery is at most what is left of the delays.
Covers(l) ==
    \E rest \in [1..MaxDeliveries -> 0..Ttl[l]] :
        /\ rest[1] = Ttl[l] /\ rest[MaxDeliveries] = 0
        /\ \A k \in 1..(MaxDeliveries - 1) : rest[k] <= Delay[l][k] + rest[k + 1]

\* As consumer.test.ts pins it: the sum of the delays exceeds the ttl.
ASSUME BackoffAssumption == \A l \in Level : Covers(l)

VARIABLES
    phase,      \* where each message stands
    attempts,   \* message.attempts: deliveries made so far
    wait,       \* ticks before a queued message may be delivered
    wall,       \* ticks left to the delivery in progress
    level,      \* the level this delivery read from the App
    cap,        \* the caps this delivery read
    threw,      \* does the settling round end in an exception?
    seen,       \* the levels read for each pull request (see FirstHolder)
    consumed,   \* comment triggers whose claim a delivery has consumed
    rows,       \* review_inflight
    drop,       \* how a message dropped by the guard was dropped
    firstHeld,  \* owner of the row that refused delivery 1 (see FirstHolder)
    reviewed    \* commits whose review was completed

vars == <<phase, attempts, wait, wall, level, cap, threw, seen, consumed, rows,
          drop, firstHeld, reviewed>>

-----------------------------------------------------------------------------
(* Types.                                                                  *)

Attempt == Msg \X (1..MaxDeliveries)

Row == [owner : Attempt \cup {NoAttempt}, left : Nat, sha : Sha \cup {NoSha}]

NoRow == [owner |-> NoAttempt, left |-> 0, sha |-> NoSha]

Processing == {"started", "refused", "running", "settling"}

Ended == {"reviewed", "failed", "dropped", "skipped"}

TypeOK ==
    /\ phase \in [Msg -> {"queued"} \cup Processing \cup Ended]
    /\ attempts \in [Msg -> 0..MaxDeliveries]
    /\ wait \in [Msg -> Nat]
    /\ wall \in [Msg -> Nat]
    /\ level \in [Msg -> Level]
    /\ cap \in [Msg -> [system : Nat, workspace : Nat]]
    /\ threw \in [Msg -> BOOLEAN]
    /\ seen \in [PR -> SUBSET Level]
    /\ consumed \subseteq Msg
    /\ rows \in [PR -> Row]
    /\ drop \in [Msg -> {"none", "silent", "traced"}]
    /\ firstHeld \in [Msg -> Attempt \cup {NoAttempt}]
    /\ reviewed \subseteq Sha
    /\ \A m \in Msg :
         /\ phase[m] = "queued" => attempts[m] < MaxDeliveries
         /\ phase[m] \in Processing => attempts[m] \in 1..MaxDeliveries

-----------------------------------------------------------------------------
(* The table.                                                              *)

\* The attempt id of the delivery in progress: randomUUID per delivery.
AttemptId(m) == <<m, attempts[m]>>

\* "expires_at > now"
Live(p) == rows[p].left > 0

LiveRows == {p \in PR : Live(p)}

LiveRowsOf(w) == {p \in LiveRows : WorkspaceOf[p] = w}

\* Mutated forms of MayInsert: the DO UPDATE without its WHERE replaces a live
\* row; counts that may reach the cap admit one review too many.
MayInsertOverLive(m) ==
    /\ Cardinality(LiveRows) < cap[m].system
    /\ Cardinality(LiveRowsOf(WorkspaceOf[PrOf[m]])) < cap[m].workspace

MayInsertAtCap(m) ==
    /\ Cardinality(LiveRows) <= cap[m].system
    /\ Cardinality(LiveRowsOf(WorkspaceOf[PrOf[m]])) <= cap[m].workspace
    /\ ~Live(PrOf[m])

\* The WHERE clauses of ACQUIRE_SQL: both counts under the caps this message
\* read, and no live row for its pull request.
MayInsert(m) ==
    /\ Cardinality(LiveRows) < cap[m].system
    /\ Cardinality(LiveRowsOf(WorkspaceOf[PrOf[m]])) < cap[m].workspace
    /\ ~Live(PrOf[m])

\* reviewGuardTtlSeconds; mutated, a ttl that covers the wall clock alone.
TtlOfWall(l) == Wall

TtlOf(l) == Ttl[l]

\* The row ACQUIRE_SQL writes, in place of the expired one if there is one.
RowsWith(m) ==
    [rows EXCEPT ![PrOf[m]] = [owner |-> AttemptId(m),
                               left  |-> TtlOf(level[m]),
                               sha   |-> ShaOf[m]]]

\* RELEASE_SQL: only the row of this attempt.
RowsWithout(m) ==
    IF rows[PrOf[m]].owner = AttemptId(m)
    THEN [rows EXCEPT ![PrOf[m]] = NoRow]
    ELSE rows

\* REFUSAL_SQL and the order in which acquireInflight reads its answer.
RefusalReason(m) ==
    IF Live(PrOf[m]) THEN "pr-held"
    ELSE IF Cardinality(LiveRows) >= cap[m].system THEN "system-cap"
    ELSE IF Cardinality(LiveRowsOf(WorkspaceOf[PrOf[m]])) >= cap[m].workspace
         THEN "workspace-cap"
    ELSE "error"

-----------------------------------------------------------------------------
(* The queue.                                                              *)

NoCaps == [system |-> 0, workspace |-> 0]

SomeLevel == CHOOSE l \in Level : TRUE

\* What a delivery read and computed ends with it.
Forget(m) ==
    /\ wall' = [wall EXCEPT ![m] = 0]
    /\ level' = [level EXCEPT ![m] = SomeLevel]
    /\ cap' = [cap EXCEPT ![m] = NoCaps]
    /\ threw' = [threw EXCEPT ![m] = FALSE]

\* Mutated form of Requeue: the last delivery goes back like the others.
RequeueLast(m) ==
    /\ phase' = [phase EXCEPT ![m] = "queued"]
    /\ wait' = [wait EXCEPT ![m] = 0]
    /\ firstHeld' = [firstHeld EXCEPT ![m] = NoAttempt]

\* A delivery that throws or dies goes back at once, the last one to the DLQ.
Requeue(m) ==
    /\ phase' = [phase EXCEPT ![m] = IF attempts[m] < MaxDeliveries
                                     THEN "queued" ELSE "failed"]
    /\ wait' = [wait EXCEPT ![m] = 0]
    /\ firstHeld' = [firstHeld EXCEPT ![m] = NoAttempt]

Deliverable(m) == phase[m] = "queued" /\ wait[m] = 0

\* Mutated form of Deliver: a retry sent as a new message starts at delivery 1.
DeliverAfresh(m) ==
    /\ Deliverable(m)
    /\ m \notin consumed
    /\ attempts' = [attempts EXCEPT ![m] = 1]
    /\ phase' = [phase EXCEPT ![m] = "started"]
    /\ wall' = [wall EXCEPT ![m] = Wall]
    /\ \E l \in Level, s \in CapValue, w \in CapValue :
         /\ level' = [level EXCEPT ![m] = l]
         /\ seen' = [seen EXCEPT ![PrOf[m]] = @ \cup {l}]
         /\ cap' = [cap EXCEPT ![m] = [system |-> s, workspace |-> w]]
    /\ UNCHANGED <<wait, threw, consumed, rows, drop, firstHeld, reviewed>>

\* processMessage up to the admission: the comment claim is consumed, the
\* App's level and both caps are read.  App and caps may have any setting.
Deliver(m) ==
    /\ Deliverable(m)
    /\ m \notin consumed
    /\ attempts' = [attempts EXCEPT ![m] = @ + 1]
    /\ phase' = [phase EXCEPT ![m] = "started"]
    /\ wall' = [wall EXCEPT ![m] = Wall]
    /\ \E l \in Level, s \in CapValue, w \in CapValue :
         /\ level' = [level EXCEPT ![m] = l]
         /\ seen' = [seen EXCEPT ![PrOf[m]] = @ \cup {l}]
         /\ cap' = [cap EXCEPT ![m] = [system |-> s, workspace |-> w]]
    /\ consumed' = IF ShaOf[m] = NoSha THEN consumed \cup {m} ELSE consumed
    /\ UNCHANGED <<wait, threw, rows, drop, firstHeld, reviewed>>

\* A later delivery of a comment trigger finds its claim no longer queued
\* and is acked without running.
SkipConsumed(m) ==
    /\ Deliverable(m)
    /\ m \in consumed
    /\ attempts' = [attempts EXCEPT ![m] = @ + 1]
    /\ phase' = [phase EXCEPT ![m] = "skipped"]
    /\ UNCHANGED <<seen, wait, wall, level, cap, threw, consumed, rows, drop,
                   firstHeld, reviewed>>

\* The delivery throws before its admission, or its isolate dies: whatever
\* row it wrote stays behind.
Die(m) ==
    /\ phase[m] \in Processing
    /\ Requeue(m)
    /\ Forget(m)
    /\ UNCHANGED <<seen, attempts, consumed, rows, drop, reviewed>>

-----------------------------------------------------------------------------
(* acquireInflight.                                                        *)

\* The insert changed one row.
Acquire(m) ==
    /\ phase[m] = "started"
    /\ MayInsert(m)
    /\ rows' = RowsWith(m)
    /\ phase' = [phase EXCEPT ![m] = "running"]
    /\ UNCHANGED <<seen, attempts, wait, wall, level, cap, threw, consumed, drop,
                   firstHeld, reviewed>>

\* The insert changed no row: its cause is read by a second statement.
RefuseInsert(m) ==
    /\ phase[m] = "started"
    /\ ~MayInsert(m)
    /\ phase' = [phase EXCEPT ![m] = "refused"]
    /\ UNCHANGED <<seen, attempts, wait, wall, level, cap, threw, consumed, rows,
                   drop, firstHeld, reviewed>>

\* guardRetryDelaysSeconds, by delivery number; mutated, one short
\* delay for every retry.
DelayFlat(m) == CHOOSE d \in {Delay[level[m]][i] : i \in 1..(MaxDeliveries - 1)} :
                  \A i \in 1..(MaxDeliveries - 1) : d <= Delay[level[m]][i]

DelayOf(m) == Delay[level[m]][attempts[m]]

\* handleGuardHeld for a delivery refused with `reason`: a delayed retry, or
\* after the last delivery an ack that is silent only when the live row is
\* for the same commit or one of the two commits is unknown.
GuardHeld(m, reason) ==
    LET holder == rows[PrOf[m]]
        sameOrUnknown == \/ ShaOf[m] = NoSha
                         \/ holder.sha = NoSha
                         \/ holder.sha = ShaOf[m]
    IN IF attempts[m] < MaxDeliveries
       THEN /\ phase' = [phase EXCEPT ![m] = "queued"]
            /\ wait' = [wait EXCEPT ![m] = DelayOf(m)]
            /\ firstHeld' =
                 [firstHeld EXCEPT ![m] =
                    IF reason # "pr-held" THEN NoAttempt
                    ELSE IF attempts[m] = 1 THEN holder.owner ELSE @]
            /\ UNCHANGED drop
       ELSE /\ phase' = [phase EXCEPT ![m] = "dropped"]
            /\ drop' = [drop EXCEPT ![m] =
                          IF reason = "pr-held" /\ sameOrUnknown
                          THEN "silent" ELSE "traced"]
            /\ UNCHANGED <<wait, firstHeld>>

\* The refusal read answers (or fails, which is the reason "error").
Refuse(m) ==
    /\ phase[m] = "refused"
    /\ \/ GuardHeld(m, RefusalReason(m))
       \/ GuardHeld(m, "error")
    /\ Forget(m)
    /\ UNCHANGED <<seen, attempts, consumed, rows, reviewed>>

\* The insert itself fails: reason "error", whether or not D1 had committed
\* the row before its answer was lost.
InsertFault(m) ==
    /\ phase[m] = "started"
    /\ \/ UNCHANGED rows
       \/ MayInsert(m) /\ rows' = RowsWith(m)
    /\ GuardHeld(m, "error")
    /\ Forget(m)
    /\ UNCHANGED <<seen, attempts, consumed, reviewed>>

-----------------------------------------------------------------------------
(* The round and its finally block.                                        *)

\* The round ends, in a review or in an exception, and destroys its sandbox.
Settle(m) ==
    /\ phase[m] = "running"
    /\ phase' = [phase EXCEPT ![m] = "settling"]
    /\ \E t \in BOOLEAN :
         /\ threw' = [threw EXCEPT ![m] = t]
         /\ reviewed' = IF t THEN reviewed ELSE reviewed \cup ({ShaOf[m]} \cap Sha)
    /\ UNCHANGED <<seen, attempts, wait, wall, level, cap, consumed, rows, drop,
                   firstHeld>>

\* Only then is the row deleted (or its deletion fails, which is a warning),
\* and the message acked or handed back to the queue.
Release(m) ==
    /\ phase[m] = "settling"
    /\ rows' \in {RowsWithout(m), rows}
    /\ IF threw[m]
       THEN Requeue(m)
       ELSE /\ phase' = [phase EXCEPT ![m] = "reviewed"]
            /\ UNCHANGED <<wait, firstHeld>>
    /\ Forget(m)
    /\ UNCHANGED <<seen, attempts, consumed, drop, reviewed>>

-----------------------------------------------------------------------------
(* Time.  The platform ends a delivery within Wall ticks, and the two      *)
(* statements of acquireInflight share one "now".                          *)

LessOne(n) == IF n > 0 THEN n - 1 ELSE 0

Tick ==
    /\ \A m \in Msg : /\ phase[m] \in Processing => wall[m] > 0
                      /\ phase[m] # "refused"
    /\ wall' = [m \in Msg |-> IF phase[m] \in Processing
                              THEN wall[m] - 1 ELSE wall[m]]
    /\ wait' = [m \in Msg |-> LessOne(wait[m])]
    /\ rows' = [p \in PR |-> [rows[p] EXCEPT !.left = LessOne(@)]]
    /\ UNCHANGED <<seen, phase, attempts, level, cap, threw, consumed, drop,
                   firstHeld, reviewed>>

-----------------------------------------------------------------------------
(* The specification.                                                      *)

\* No delivery is in progress and none has left anything behind.
Fresh ==
    /\ wait = [m \in Msg |-> 0]
    /\ wall = [m \in Msg |-> 0]
    /\ level = [m \in Msg |-> SomeLevel]
    /\ cap = [m \in Msg |-> NoCaps]
    /\ threw = [m \in Msg |-> FALSE]
    /\ seen = [p \in PR |-> {}]
    /\ consumed = {}
    /\ rows = [p \in PR |-> NoRow]
    /\ drop = [m \in Msg |-> "none"]
    /\ firstHeld = [m \in Msg |-> NoAttempt]
    /\ reviewed = {}

Init ==
    /\ Fresh
    /\ phase = [m \in Msg |-> "queued"]
    /\ attempts = [m \in Msg |-> 0]

\* The steps of the delivery of one message.
Step(m) ==
    \/ Deliver(m) \/ SkipConsumed(m) \/ Die(m)
    \/ Acquire(m) \/ RefuseInsert(m) \/ Refuse(m) \/ InsertFault(m)
    \/ Settle(m) \/ Release(m)

Next == Tick \/ \E m \in Msg : Step(m)

Spec == Init /\ [][Next]_vars

\* The queue keeps delivering, a delivery keeps going until the platform
\* ends it, and time passes.
Fairness == WF_vars(Tick) /\ \A m \in Msg : WF_vars(Step(m))

LiveSpec == Spec /\ Fairness

-----------------------------------------------------------------------------
(* Properties.                                                             *)

\* A delivery that is past its admission and has not released its row.
InRound(m) == phase[m] \in {"running", "settling"}

\* The lock: never two deliveries inside a round for one pull request,
\* through expiry, reclaim, deaths and inserts whose answer was lost
\* (acquireInflight, and the order of the finally block of processMessage).
OneRoundPerPr ==
    \A m, n \in Msg :
        InRound(m) /\ InRound(n) /\ PrOf[m] = PrOf[n] => m = n

\* A row never expires, and is never reclaimed, under the round that wrote
\* it: the promise of reviewGuardTtlSeconds ("the row can never expire
\* mid-review and unblock a concurrent duplicate").
RowOutlivesRound ==
    \A m \in Msg :
        InRound(m) => Live(PrOf[m]) /\ rows[PrOf[m]].owner = AttemptId(m)

RoundsOn(S) == {m \in Msg : InRound(m) /\ PrOf[m] \in S}

UnderCap(m) ==
    LET mine == {p \in PR : WorkspaceOf[p] = WorkspaceOf[PrOf[m]]}
    IN  /\ Cardinality(RoundsOn(PR)') <= cap[m].system
        /\ Cardinality(RoundsOn(mine)') <= cap[m].workspace

Enters(m) == ~InRound(m) /\ InRound(m)'

\* Capacity: a delivery enters its round only while the rounds in progress,
\* its own included, fit both caps that this delivery read, although caps are
\* counted over rows, rows outlive rounds and a sandbox outlives its round's
\* verdict (ACQUIRE_SQL; "Destroy FIRST, then release").
AdmissionUnderCap == [][\A m \in Msg : Enters(m) => UnderCap(m)]_vars

\* The backoff covers the life of a row: when all of a message's deliveries
\* were held, the row that refused the first is gone by the last
\* (GUARD_RETRY_DELAYS_SECONDS: "by the final delayed attempt the in-flight
\* row has expired").  firstHeld is the owner of that row, and NoAttempt
\* once a delivery in between ended otherwise than by a held pull request.
\* It needs an App whose level is not changed meanwhile: the delays of a
\* shallow level do not cover the row of a deep round.
FirstHolder ==
    \A m \in Msg :
        /\ \E l \in Level : seen[PrOf[m]] = {l}
        /\ phase[m] = "refused" /\ attempts[m] = MaxDeliveries
        /\ firstHeld[m] # NoAttempt
        => ~(Live(PrOf[m]) /\ rows[PrOf[m]].owner = firstHeld[m])

\* A message dropped without any trace, for a row that names its own commit,
\* has that commit reviewed or under review by the round that owns the row
\* (handleGuardHeld: "`pr-held` is silent only while the live review covers
\* THIS commit").
SilentDropIsCovered ==
    [][\A m \in Msg :
         drop[m] # "silent" /\ drop'[m] = "silent"
                           /\ rows[PrOf[m]].sha = ShaOf[m] =>
           \/ ShaOf[m] \in reviewed
           \/ \E n \in Msg : InRound(n) /\ rows[PrOf[m]].owner = AttemptId(n)]_vars

\* Every message leaves the queue: nothing is redelivered for ever.
EveryMessageEnds == \A m \in Msg : <>(phase[m] \in Ended)

=============================================================================
