---------------------------- MODULE CheckProofs ----------------------------
(***************************************************************************)
(* Proofs about CheckAttempts: the types, that an attempt creates one run, *)
(* that what is recorded as done is shown, that green is earned, and that  *)
(* no conclusion is undone, for any number of attempts, any gate and any   *)
(* budget of faults, retries and switches.                                 *)
(*                                                                         *)
(* The argument.  A create leaves only after the row was marked, and the   *)
(* mark needs a row that no create was sent for; who has marked a row and  *)
(* still holds it is therefore the first to send one, and nobody becomes   *)
(* the holder of a row it has marked a second time (Once).  A consumer     *)
(* never regains what it lost, so it writes only what it has held from the *)
(* start, and a cron pass works only on what no consumer holds (Leases).   *)
(* Hence each of them knows what the run shows when it sends, and when it  *)
(* records, a conclusion (Runs), and nobody is about to change a run that  *)
(* is recorded (Done).  A success is chosen only from a proof, which is    *)
(* never taken back (Green).                                               *)
(*                                                                         *)
(* A step changes one attempt (Untouched, Assemble).  Most steps only let  *)
(* go of the row or move the actor back: one lemma (Retreat) covers them.  *)
(***************************************************************************)
EXTENDS CheckAttempts, TLAPS

\* Where a cron pass holds, or has held, the lease of an attempt to finish it.
Work == {"decide", "adopt", "claimed", "marked", "creating", "created",
         "fetch", "frozen", "updating", "answered"}

\* Where the consumer has its run, and has not sent a conclusion yet.
Running == {"created", "late", "working", "handing", "freezing", "frozen"}

\* Where the consumer has frozen nothing.
Undecided == {"claimed", "marked", "creating", "created", "late", "working",
              "handing", "freezing"}

\* An attempt that is not opened yet.
Blank(g) ==
    g > last =>
        /\ row[g] = Unused /\ run[g] = "none" /\ made[g] = 0
        /\ \A a \in Actor : at[a][g] = "idle"

\* A create is in flight or has landed only after the mark, and an actor that
\* has marked the row and still owns it is the first to send one.
Once(g) ==
    /\ made[g] \in {0, 1}
    /\ run[g] = "none" <=> made[g] = 0
    /\ \A a \in Actor : at[a][g] = "creating" => made[g] = 0
    /\ \E a \in Actor : at[a][g] # "creating"
    /\ (made[g] = 1 \/ \E a \in Actor : at[a][g] = "creating")
          => row[g].create # "not-sent"
    /\ \A a \in Actor : at[a][g] = "marked" /\ Owns(a, row[g])
          => /\ made[g] = 0 /\ row[g].create # "not-sent"
             /\ \A b \in Actor : at[b][g] # "creating"
    /\ row[g].create = "known" => made[g] = 1
    /\ \A a \in Actor :
          at[a][g] \in Running \cup {"fetch", "updating", "answered"} => made[g] = 1

\* The cron works on what the consumer has lost, and not beside its update.
Leases(g) ==
    /\ at["cron"][g] \in Work =>
          row[g].owner # "consumer" /\ at["consumer"][g] # "updating"
    /\ row[g].open /\ row[g].owner # "none" => row[g].attempts < MaxAttempts

\* What an actor that may write knows of the run.
Runs(g) ==
    /\ at["cron"][g] \in {"frozen", "updating"} => run[g] = "open"
    /\ at["cron"][g] = "answered" => run[g] = will["cron"][g]
    /\ at["consumer"][g] = "updating" => run[g] = "open"
    /\ row[g].owner = "consumer" =>
          /\ at["consumer"][g] \in Running => run[g] = "open"
          /\ at["consumer"][g] = "answered" => run[g] = will["consumer"][g]

\* A recorded attempt is closed, and nobody is about to change its run.
Done(g) ==
    row[g].recovery = "done" =>
        /\ ~row[g].open /\ \A a \in Actor : at[a][g] # "updating"
        /\ row[g].desired \in Verdict
        /\ run[g] = row[g].desired /\ row[g].observed = row[g].desired

\* No success without a proof, and none before the consumer has decided.
Green(g) ==
    /\ (row[g].desired = "success" \/ run[g] = "success"
          \/ \E a \in Actor : will[a][g] = "success") => pub = "proven"
    /\ row[g].owner = "consumer" /\ at["consumer"][g] \in Undecided
          => row[g].desired # "success"

\* What holds of every attempt: the inductive invariant.
Good(g) == Blank(g) /\ Once(g) /\ Leases(g) /\ Runs(g) /\ Done(g) /\ Green(g)

IInv == TypeOK /\ \A g \in Gen : Good(g)

-----------------------------------------------------------------------------
(* Statements on a row.                                                    *)

\* What a row may become when its holder lets go of it, or time passes: it
\* says no more of the conclusion than before, and has no new holder.
Weaker(r, s) ==
    /\ s \in Attempt
    /\ s.live => s.owner # "none"
    /\ s.desired = r.desired /\ s.observed = r.observed
    /\ s.owner \in {"none", r.owner}
    /\ s.open => r.open
    /\ s.open /\ s.owner # "none" => s.attempts < MaxAttempts
    /\ s.recovery = "done" => r.recovery = "done" /\ ~s.open

\* ... and no less of the create.
WithCreate(r, s) == Weaker(r, s) /\ s.create = r.create

\* To defer a row is a way to let go of it.
LEMMA DeferredType ==
    ASSUME NEW r \in Attempt, r.attempts < MaxAttempts, NEW s \in Waiting
    PROVE  WithCreate(r, Deferred(r, s))
<1> DEFINE n == r.attempts + 1
<1>1. n \in 0..MaxAttempts
  BY CheckAssumption DEF Attempt
<1> HIDE DEF n
<1>2. s \in Waiting \cup Held \cup {"done", "local-error"}
  OBVIOUS
<1>3. Deferred(r, s) = [r EXCEPT !.owner = "none", !.live = FALSE,
                                 !.attempts = n, !.recovery = s, !.next = "later"]
  BY DEF Deferred, Freed, n, Attempt
<1>4. Deferred(r, s) \in Attempt
  BY <1>1, <1>2, <1>3 DEF Attempt
<1>5. s # "done"
  BY DEF Waiting
<1> QED BY <1>3, <1>4, <1>5 DEF WithCreate, Weaker, Attempt

\* So is to free it ...
LEMMA FreedType ==
    ASSUME NEW r \in Attempt, r.recovery # "done"
    PROVE  WithCreate(r, Freed(r))
BY ZenonT(30) DEF WithCreate, Weaker, Freed, Attempt

\* ... to settle a failed attempt, which closes the row at the cap ...
LEMMA SettledType ==
    ASSUME NEW r \in Attempt, r.attempts < MaxAttempts, r.owner # "none", r.open
    PROVE  WithCreate(r, Settled(r))
<1>1. CASE r.attempts + 1 < MaxAttempts
  BY <1>1, DeferredType DEF Settled, Waiting
<1>2. CASE ~(r.attempts + 1 < MaxAttempts)
  <2> DEFINE n == r.attempts + 1
  <2>1. n \in 0..MaxAttempts
    BY CheckAssumption DEF Attempt
  <2>2. Settled(r) = [r EXCEPT !.attempts = n, !.open = FALSE,
                               !.recovery = "local-error"]
    BY <1>2 DEF Settled, Attempt
  <2> HIDE DEF n
  <2> QED BY ZenonT(30), <2>1, <2>2 DEF WithCreate, Weaker, Attempt
<1> QED BY <1>1, <1>2

\* ... to suspend or hold it ...
LEMMA HeldRowType ==
    ASSUME NEW r \in Attempt, NEW s \in Held
    PROVE  WithCreate(r, [Freed(r) EXCEPT !.recovery = s, !.next = "none"])
<1>1. s # "done"
  BY DEF Held, Suspended
<1>2. s \in Waiting \cup Held \cup {"done", "local-error"}
  OBVIOUS
<1>3. [Freed(r) EXCEPT !.recovery = s, !.next = "none"]
        = [r EXCEPT !.owner = "none", !.live = FALSE, !.recovery = s, !.next = "none"]
  BY DEF Freed, Attempt
<1> QED BY ZenonT(30), <1>1, <1>2, <1>3 DEF WithCreate, Weaker, Attempt

\* ... and to give it back without an attempt spent.
LEMMA GivenBackType ==
    ASSUME NEW r \in Attempt, r.recovery # "done"
    PROVE  WithCreate(r, [Freed(r) EXCEPT !.next = "later"])
BY ZenonT(30) DEF WithCreate, Weaker, Freed, Attempt

\* What both actors make of a row whose request failed, or was never sent.
LEMMA LetGo ==
    ASSUME NEW r \in Attempt, NEW a \in Actor, Owns(a, r),
           r.attempts < MaxAttempts, r.recovery # "done"
    PROVE  /\ WithCreate(r, Failed(a, r)) /\ WithCreate(r, Unsent(a, r))
           /\ WithCreate(r, Settled(r)) /\ WithCreate(r, Freed(r))
           /\ \A s \in Waiting : WithCreate(r, Deferred(r, s))
<1>1. r.open /\ r.owner # "none"
  BY DEF Owns, Actor
<1>2. /\ WithCreate(r, Settled(r)) /\ WithCreate(r, Freed(r))
      /\ \A s \in Waiting : WithCreate(r, Deferred(r, s))
  BY <1>1, SettledType, FreedType, DeferredType
<1> QED BY <1>2 DEF Failed, Unsent, Waiting

\* To freeze a conclusion changes nothing else that the invariant speaks of.
LEMMA FrozenType ==
    ASSUME NEW r \in Attempt, NEW v \in Verdict, NEW b \in BOOLEAN
    PROVE  /\ Frozen(r, v, b) \in Attempt
           /\ Frozen(r, v, b).desired = v /\ Frozen(r, v, b).recovery = "pending"
           /\ Frozen(r, v, b).owner = r.owner /\ Frozen(r, v, b).open = r.open
           /\ Frozen(r, v, b).create = r.create /\ Frozen(r, v, b).live = r.live
           /\ Frozen(r, v, b).attempts = r.attempts
           /\ Frozen(r, v, b).observed = r.observed
BY ZenonT(30) DEF Frozen, Attempt, Waiting

-----------------------------------------------------------------------------
(* A step changes one attempt.                                             *)

\* Nothing of the attempt changes.
Untouched(h) ==
    /\ row'[h] = row[h] /\ run'[h] = run[h] /\ made'[h] = made[h]
    /\ \A a \in Actor : at'[a][h] = at[a][h] /\ will'[a][h] = will[a][h]

\* What no step does to an attempt.
Stands(g) ==
    /\ run[g] \in Verdict => run'[g] = run[g]
    /\ row[g].desired = "success" => row'[g].desired = "success"

\* The functions of the state, when one entry of them is written.
LEMMA WriteType ==
    ASSUME row \in [Gen -> Attempt], NEW g \in Gen, NEW r \in Attempt, Write(g, r)
    PROVE  /\ row' \in [Gen -> Attempt] /\ row'[g] = r
           /\ \A h \in Gen \ {g} : row'[h] = row[h]
BY DEF Write

\* An actor moves with one attempt.
LEMMA GotoType ==
    ASSUME at \in [Actor -> [Gen -> Steps]], NEW a \in Actor, NEW g \in Gen,
           NEW s \in Steps, Goto(a, g, s)
    PROVE  /\ at' \in [Actor -> [Gen -> Steps]] /\ at'[a][g] = s
           /\ \A b \in Actor, h \in Gen : b # a \/ h # g => at'[b][h] = at[b][h]
BY DEF Goto

\* Elsewhere nothing is lost, as long as a proof stands.
LEMMA Elsewhere ==
    ASSUME TypeOK, NEW h \in Gen, Good(h), Untouched(h),
           last' \in Nat, last <= last', pub = "proven" => pub' = "proven"
    PROVE  Good(h)' /\ Stands(h)
<1>1. Blank(h)'
  BY DEF Good, Blank, Untouched, TypeOK, Gen
<1>2. Once(h)'
  BY DEF Good, Once, Untouched, Owns
<1>3. Leases(h)' /\ Runs(h)' /\ Done(h)' /\ Green(h)'
  BY DEF Good, Leases, Runs, Done, Green, Untouched, Actor
<1> QED BY <1>1, <1>2, <1>3 DEF Good, Stands, Untouched

\* What one step does, put together from its attempt and all others.
LEMMA Assemble ==
    ASSUME IInv, NEW g \in Gen, TypeOK', Good(g)', Stands(g),
           \A h \in Gen \ {g} : Untouched(h),
           last <= last', pub = "proven" => pub' = "proven"
    PROVE  IInv' /\ \A h \in Gen : Stands(h)
<1>1. last' \in Nat
  BY CheckAssumption DEF TypeOK
<1>2. \A h \in Gen \ {g} : Good(h)' /\ Stands(h)
  BY <1>1, Elsewhere DEF IInv
<1>3. \A h \in Gen : Good(h)' /\ Stands(h)
  BY <1>2
<1> QED BY <1>3 DEF IInv

\* An actor that writes nothing more of the attempt, or is not yet its holder.
Harmless == {"idle", "wait", "giveback", "credentials", "claim"}

\* The step most steps are: an actor goes back and lets go of the row.
LEMMA Retreat ==
    ASSUME TypeOK, NEW g \in Gen, Good(g), Blank(g)', pub' = pub,
           run'[g] = run[g], made'[g] = made[g],
           \A a \in Actor : will'[a][g] = will[a][g],
           \A a \in Actor : at'[a][g] \in {at[a][g]} \cup Harmless,
           row'[g] = row[g] \/ Weaker(row[g], row'[g]),
           row'[g].create = row[g].create
    PROVE  Good(g)' /\ Stands(g)
<1>1. Once(g)'
  BY DEF Good, Once, Weaker, Harmless, Running, Owns, Actor
<1>2. Leases(g)'
  BY DEF Good, Leases, Weaker, Harmless, Work, Actor
<1>3. Runs(g)'
  BY DEF Good, Runs, Weaker, Harmless, Running, Actor
<1>4. Done(g)'
  BY DEF Good, Done, Weaker, Harmless, Actor
<1>5. Green(g)'
  BY DEF Good, Green, Weaker, Harmless, Undecided, Actor
<1>6. Stands(g)
  BY DEF Stands, Weaker
<1> QED BY <1>1, <1>2, <1>3, <1>4, <1>5, <1>6 DEF Good

\* A step back, as an action: of the row, or of the actor, or of both.
LEMMA StepBack ==
    ASSUME IInv, NEW a \in Actor, NEW g \in Gen,
           UNCHANGED <<last, run, made, will, pass, app, world>>,
           give' \in [Gen -> {"no", "fallback", "release", "over"}],
           left' \in Budget,
           \/ UNCHANGED row
           \/ \E s : WithCreate(row[g], s) /\ Write(g, s) /\ g <= last,
           \/ UNCHANGED at
           \/ Stop(a, g)
           \/ \E step \in Harmless : Goto(a, g, step) /\ g <= last
    PROVE  IInv' /\ \A h \in Gen : Stands(h)
<1> DEFINE Moved == \/ UNCHANGED at
                    \/ Stop(a, g)
                    \/ \E step \in Harmless : Goto(a, g, step) /\ g <= last
<1> USE DEF IInv
<1>1. /\ row' \in [Gen -> Attempt] /\ \A h \in Gen \ {g} : row'[h] = row[h]
      /\ row'[g] = row[g] \/ (WithCreate(row[g], row'[g]) /\ g <= last)
  BY WriteType DEF TypeOK, WithCreate, Weaker
<1>2. /\ at' \in [Actor -> [Gen -> Steps]]
      /\ \A b \in Actor, h \in Gen : b # a \/ h # g => at'[b][h] = at[b][h]
      /\ \/ at'[a][g] \in {at[a][g], "idle"}
         \/ at'[a][g] \in Harmless /\ g <= last
  <2>1. Harmless \subseteq Steps /\ "idle" \in Steps
    BY DEF Harmless, Steps
  <2>2. CASE UNCHANGED at
    BY <2>2 DEF TypeOK
  <2>3. ASSUME NEW step \in Steps, Goto(a, g, step)
        PROVE  /\ at' \in [Actor -> [Gen -> Steps]] /\ at'[a][g] = step
               /\ \A b \in Actor, h \in Gen : b # a \/ h # g => at'[b][h] = at[b][h]
    BY <2>3, GotoType DEF TypeOK
  <2> QED BY <2>1, <2>2, <2>3 DEF Stop
<1>3. TypeOK'
  <2>1. \A h \in Gen : row'[h].live => row'[h].owner # "none"
    BY <1>1 DEF TypeOK, WithCreate, Weaker
  <2> QED BY <1>1, <1>2, <2>1 DEF TypeOK, world
<1>4. \A h \in Gen \ {g} : Untouched(h)
  BY <1>1, <1>2 DEF Untouched
<1>5. Blank(g)'
  BY <1>1, <1>2 DEF Good, Blank, TypeOK, Gen
<1>6. /\ \A b \in Actor : at'[b][g] \in {at[b][g]} \cup Harmless
      /\ \A b \in Actor : will'[b][g] = will[b][g]
      /\ run'[g] = run[g] /\ made'[g] = made[g] /\ pub' = pub
  BY <1>2 DEF Harmless, world
<1>7. Good(g)' /\ Stands(g)
  BY <1>1, <1>5, <1>6, Retreat DEF WithCreate
<1>8. last <= last' /\ pub' = pub
  BY DEF TypeOK, world
<1> QED BY <1>3, <1>4, <1>7, <1>8, Assemble

\* Spending from the budget leaves a budget.
LEMMA SpendType ==
    ASSUME left \in Budget, NEW w \in {"claims", "faults", "retries", "switches"},
           Spend(w)
    PROVE  left' \in Budget
<1>1. left[w] \in Nat /\ left[w] > 0
  BY DEF Spend, Budget
<1>2. left[w] - 1 \in Nat
  BY <1>1
<1>3. left' = [left EXCEPT ![w] = left[w] - 1]
  BY DEF Spend
<1> HIDE DEF Spend
<1> QED BY <1>2, <1>3 DEF Budget

\* Where an actor stands with an attempt, the attempt has been opened; and a
\* row that is held is open, has attempts left and is not done.
LEMMA Opened ==
    ASSUME IInv, NEW g \in Gen, NEW a \in Actor,
           at[a][g] # "idle" \/ row[g] # Unused
    PROVE  g <= last
BY DEF IInv, Good, Blank, TypeOK, Gen

\* What the fence of either actor says besides.
LEMMA Holding ==
    ASSUME IInv, NEW g \in Gen, NEW a \in Actor, Owns(a, row[g])
    PROVE  /\ row[g] \in Attempt /\ row[g].attempts < MaxAttempts
           /\ row[g].recovery # "done" /\ row[g].owner = a /\ g <= last
<1>1. row[g] \in Attempt
  BY DEF IInv, TypeOK
<1>2. row[g].open /\ row[g].owner = a /\ a # "none"
  BY DEF Owns, Actor
<1>3. row[g].attempts < MaxAttempts /\ row[g].recovery # "done"
  BY <1>2 DEF IInv, Good, Leases, Done
<1>4. g <= last
  BY <1>2, Opened DEF Unused, Fresh
<1> QED BY <1>1, <1>2, <1>3, <1>4

\* A guarded write of something weaker.
LEMMA WeakWrite ==
    ASSUME IInv, NEW g \in Gen, NEW a \in Actor, NEW ok \in BOOLEAN,
           ok => Owns(a, row[g]), NEW s, WriteIf(ok, g, s),
           \/ s \in {Failed(a, row[g]), Unsent(a, row[g]), Settled(row[g]),
                     Freed(row[g])}
           \/ \E w \in Waiting : s = Deferred(row[g], w)
    PROVE  UNCHANGED row \/ \E t : WithCreate(row[g], t) /\ Write(g, t) /\ g <= last
<1>1. CASE ok
  <2>1. WithCreate(row[g], s)
    BY <1>1, Holding, LetGo
  <2>2. Write(g, s) /\ g <= last
    BY <1>1, Holding DEF WriteIf, Write
  <2> QED BY <2>1, <2>2
<1> QED BY <1>1 DEF WriteIf

-----------------------------------------------------------------------------
(* The steps back.                                                         *)

\* A step keeps the invariant and undoes no conclusion.
Kept == IInv' /\ \A h \in Gen : Stands(h)

\* Requests that were refused or had no answer, of either actor.
LEMMA FailedRequests ==
    ASSUME IInv, NEW a \in Actor, NEW g \in Gen,
           \/ BeginRefused(a, g) \/ CreateFails(a, g)
           \/ UpdateRefused(a, g) \/ UpdateFails(a, g)
    PROVE  Kept
<1>1. left' \in Budget
  <2>1. Spend("faults") \/ UNCHANGED left
    BY DEF BeginRefused, CreateFails, UpdateRefused, UpdateFails
  <2> QED BY <2>1, SpendType DEF IInv, TypeOK
<1>2. Stop(a, g)
  BY DEF BeginRefused, CreateFails, UpdateRefused, UpdateFails
<1>3. UNCHANGED <<last, run, made, will, give, pass, app, world>>
  BY DEF BeginRefused, CreateFails, UpdateRefused, UpdateFails
<1>4. UNCHANGED row \/ \E t : WithCreate(row[g], t) /\ Write(g, t) /\ g <= last
  <2>1. CASE BeginRefused(a, g)
    <3> DEFINE ok == IF a = "cron" THEN Owns(a, row[g]) ELSE Fenced(a, row[g])
    <3>1. ok \in BOOLEAN /\ (ok => Owns(a, row[g]))
      BY DEF Fenced, Owns
    <3>2. WriteIf(ok, g, Unsent(a, row[g]))
      BY <2>1 DEF BeginRefused
    <3> HIDE DEF ok
    <3> QED BY <3>1, <3>2, WeakWrite
  <2>2. CASE CreateFails(a, g)
    BY <2>2, WeakWrite DEF CreateFails, Fenced
  <2>3. CASE UpdateRefused(a, g)
    BY <2>3, WeakWrite DEF UpdateRefused, Fenced, Waiting
  <2>4. CASE UpdateFails(a, g)
    BY <2>4, WeakWrite DEF UpdateFails, Fenced
  <2> QED BY <2>1, <2>2, <2>3, <2>4
<1>5. give' \in [Gen -> {"no", "fallback", "release", "over"}]
  BY <1>3 DEF IInv, TypeOK
<1> QED BY <1>1, <1>2, <1>3, <1>4, <1>5, StepBack DEF Kept

\* The releases of the consumer.
LEMMA Releases ==
    ASSUME IInv, NEW g \in Gen,
           ReleaseLate(g) \/ HandOffRelease(g) \/ ReleaseAbandoned(g)
    PROVE  Kept
<1>1. "consumer" \in Actor
  BY DEF Actor
<1>2. UNCHANGED <<last, run, made, will, pass, app, world, left>>
  BY DEF ReleaseLate, HandOffRelease, ReleaseAbandoned, Keeps
<1>3. give' \in [Gen -> {"no", "fallback", "release", "over"}]
  BY DEF ReleaseLate, HandOffRelease, ReleaseAbandoned, Keeps, IInv, TypeOK
<1>4. UNCHANGED at \/ Stop("consumer", g)
  BY DEF ReleaseLate, HandOffRelease, ReleaseAbandoned
<1>5. WriteIf(Fenced("consumer", row[g]), g,
              Deferred(row[g], "remote-unconfirmed"))
  BY DEF ReleaseLate, HandOffRelease, ReleaseAbandoned
<1>6. UNCHANGED row \/ \E t : WithCreate(row[g], t) /\ Write(g, t) /\ g <= last
  BY <1>1, <1>5, WeakWrite DEF Fenced, Waiting
<1>7. left' \in Budget
  BY <1>2 DEF IInv, TypeOK
<1> QED BY <1>1, <1>2, <1>3, <1>4, <1>6, <1>7, StepBack DEF Kept

\* The consumer gives the attempt up; an actor dies.
LEMMA GiveUps ==
    ASSUME IInv, NEW a \in Actor, NEW g \in Gen, GiveUp(g) \/ Die(a, g)
    PROVE  Kept
<1>1. CASE GiveUp(g)
  <2>1. "consumer" \in Actor
    BY DEF Actor
  <2>2. UNCHANGED at \/ Stop("consumer", g)
    BY <1>1 DEF GiveUp
  <2>3. /\ give' \in [Gen -> {"no", "fallback", "release", "over"}]
        /\ left' \in Budget
    BY <1>1 DEF GiveUp, IInv, TypeOK
  <2> QED BY <1>1, <2>1, <2>2, <2>3, StepBack DEF GiveUp, Kept
<1>2. CASE Die(a, g)
  <2>1. give' \in [Gen -> {"no", "fallback", "release", "over"}]
    BY <1>2 DEF Die, IInv, TypeOK
  <2>2. left' \in Budget
    BY <1>2, SpendType DEF Die, IInv, TypeOK
  <2> QED BY <1>2, <2>1, <2>2, StepBack DEF Die, Kept
<1> QED BY <1>1, <1>2

\* The releases of the cron.
LEMMA CronReleases ==
    ASSUME IInv, NEW g \in Gen,
           \/ AdoptUnproven(g) \/ Contradicts(g) \/ FetchFails(g)
           \/ OutOfBudget(g) \/ GiveBack(g)
    PROVE  Kept
<1>1. "cron" \in Actor
  BY DEF Actor
<1>2. left' \in Budget
  BY SpendType DEF AdoptUnproven, Contradicts, FetchFails, OutOfBudget, GiveBack,
                   Keeps, IInv, TypeOK
<1>3. UNCHANGED <<last, run, made, will, give, pass, app, world>>
  BY DEF AdoptUnproven, Contradicts, FetchFails, OutOfBudget, GiveBack, Keeps
<1>4. Stop("cron", g)
  BY DEF AdoptUnproven, Contradicts, FetchFails, OutOfBudget, GiveBack
<1>5. UNCHANGED row \/ \E t : WithCreate(row[g], t) /\ Write(g, t) /\ g <= last
  <2>1. CASE GiveBack(g)
    <3>1. CASE Fenced("cron", row[g])
      <4>1. row[g] \in Attempt /\ row[g].recovery # "done" /\ g <= last
        BY <1>1, <3>1, Holding DEF Fenced
      <4> QED BY <2>1, <3>1, <4>1, GivenBackType DEF GiveBack, WriteIf, Write
    <3> QED BY <2>1, <3>1 DEF GiveBack, WriteIf
  <2>2. CASE AdoptUnproven(g) \/ Contradicts(g) \/ FetchFails(g) \/ OutOfBudget(g)
    BY <1>1, <2>2, WeakWrite
       DEF AdoptUnproven, Contradicts, FetchFails, OutOfBudget, Fenced
  <2> QED BY <2>1, <2>2
<1>6. give' \in [Gen -> {"no", "fallback", "release", "over"}]
  BY <1>3 DEF IInv, TypeOK
<1> QED BY <1>1, <1>2, <1>3, <1>4, <1>5, <1>6, StepBack DEF Kept

\* Time moves one row.
LEMMA TimePasses ==
    ASSUME IInv, NEW g \in Gen, Time(g)
    PROVE  Kept
<1>1. "cron" \in Actor
  BY DEF Actor
<1>2. /\ UNCHANGED <<last, run, made, at, will, give, pass, app, world>>
      /\ give' \in [Gen -> {"no", "fallback", "release", "over"}]
  BY DEF Time, Deadline, BackoffEnds, LeaseExpires, Keeps, IInv, TypeOK
<1>3. left' \in Budget
  BY SpendType DEF Time, Deadline, BackoffEnds, LeaseExpires, Keeps, IInv, TypeOK
<1>4. row[g] \in Attempt /\ (row[g].live => row[g].owner # "none")
  BY DEF IInv, TypeOK
<1>5. /\ row[g].open /\ row[g].owner # "none" => row[g].attempts < MaxAttempts
      /\ row[g].recovery = "done" => ~row[g].open
  BY DEF IInv, Good, Leases, Done
<1>6. \E t : WithCreate(row[g], t) /\ Write(g, t) /\ g <= last
  <2>1. CASE Deadline(g)
    <3> DEFINE r == [row[g] EXCEPT !.live = FALSE]
               s == [row[g] EXCEPT !.late = TRUE]
               t == [r EXCEPT !.late = TRUE]
    <3>1. WithCreate(row[g], s)
      BY ZenonT(30), <1>4, <1>5 DEF WithCreate, Weaker, Attempt
    <3>3. t = [row[g] EXCEPT !.live = FALSE, !.late = TRUE]
      OBVIOUS
    <3>4. WithCreate(row[g], t)
      BY ZenonT(30), <1>4, <1>5, <3>3 DEF WithCreate, Weaker, Attempt
    <3>2. g <= last /\ (Write(g, s) \/ Write(g, t))
      BY <2>1 DEF Deadline
    <3> QED BY <3>1, <3>2, <3>4
  <2>2. CASE BackoffEnds(g)
    <3> DEFINE s == [row[g] EXCEPT !.next = "due"]
    <3>1. WithCreate(row[g], s)
      BY <1>4, <1>5 DEF WithCreate, Weaker, Attempt
    <3>2. g <= last
      BY <1>1, <2>2, Opened DEF BackoffEnds, Unused, Fresh
    <3> QED BY <2>2, <3>1, <3>2 DEF BackoffEnds
  <2>3. CASE LeaseExpires(g)
    <3> DEFINE s == [row[g] EXCEPT !.live = FALSE]
    <3>1. WithCreate(row[g], s)
      BY <1>4, <1>5 DEF WithCreate, Weaker, Attempt
    <3>2. g <= last
      BY <1>1, <2>3, Opened DEF LeaseExpires, Unused, Fresh
    <3> QED BY <2>3, <3>1, <3>2 DEF LeaseExpires
  <2> QED BY <2>1, <2>2, <2>3 DEF Time
<1> QED BY <1>1, <1>2, <1>3, <1>6, StepBack DEF Kept

-----------------------------------------------------------------------------
(* The steps of the cron that change every row alike.                      *)

\* A step that touches every row, each in a way that lets go of it.
LEMMA AllRows ==
    ASSUME IInv, NEW g \in Gen,
           UNCHANGED <<last, run, made, will, give, app, world>>,
           pass' \in [known : BOOLEAN, paused : BOOLEAN], left' \in Budget,
           row' \in [Gen -> Attempt],
           \A h \in Gen : row'[h] = row[h] \/ (WithCreate(row[h], row'[h]) /\ h <= last),
           UNCHANGED at \/ \E step \in Harmless : Goto("cron", g, step) /\ g <= last
    PROVE  Kept
<1> USE DEF IInv
<1>1. /\ at' \in [Actor -> [Gen -> Steps]]
      /\ \A b \in Actor, h \in Gen :
            at'[b][h] = at[b][h] \/ (at'[b][h] \in Harmless /\ h <= last)
  <2>1. Harmless \subseteq Steps /\ "cron" \in Actor
    BY DEF Harmless, Steps, Actor
  <2>2. ASSUME NEW step \in Steps, Goto("cron", g, step)
        PROVE  /\ at' \in [Actor -> [Gen -> Steps]] /\ at'["cron"][g] = step
               /\ \A b \in Actor, h \in Gen :
                     b # "cron" \/ h # g => at'[b][h] = at[b][h]
    BY <2>1, <2>2, GotoType DEF TypeOK
  <2>3. CASE UNCHANGED at
    BY <2>3 DEF TypeOK
  <2> QED BY <2>1, <2>2, <2>3
<1>2. TypeOK'
  <2>1. \A h \in Gen : row'[h].live => row'[h].owner # "none"
    BY DEF TypeOK, WithCreate, Weaker
  <2> QED BY <1>1, <2>1 DEF TypeOK, world
<1>3. ASSUME NEW h \in Gen
      PROVE  Good(h)' /\ Stands(h)
  <2>1. Blank(h)'
    BY <1>1 DEF Good, Blank, TypeOK, Gen
  <2>2. /\ \A b \in Actor : at'[b][h] \in {at[b][h]} \cup Harmless
        /\ \A b \in Actor : will'[b][h] = will[b][h]
        /\ run'[h] = run[h] /\ made'[h] = made[h] /\ pub' = pub
        /\ row'[h] = row[h] \/ Weaker(row[h], row'[h])
        /\ row'[h].create = row[h].create
    BY <1>1 DEF Harmless, world, WithCreate
  <2> QED BY <2>1, <2>2, Retreat
<1> QED BY <1>2, <1>3 DEF Kept

\* To suspend the rows of an App, for whatever reason, lets go of each.
LEMMA SuspendPairType ==
    ASSUME IInv, NEW kind \in Suspended, SuspendPair(kind)
    PROVE  /\ row' \in [Gen -> Attempt]
           /\ \A h \in Gen :
                row'[h] = row[h] \/ (WithCreate(row[h], row'[h]) /\ h <= last)
<1>1. kind \in Held /\ "cron" \in Actor
  BY DEF Held, Actor
<1>2. \A h \in Gen : row[h] \in Attempt
  BY DEF IInv, TypeOK
<1>3. ASSUME NEW h \in Gen
      PROVE  /\ row'[h] \in Attempt
             /\ row'[h] = row[h] \/ (WithCreate(row[h], row'[h]) /\ h <= last)
  <2> DEFINE s == [Freed(row[h]) EXCEPT !.recovery = kind, !.next = "none"]
  <2>1. WithCreate(row[h], s)
    BY <1>1, <1>2, HeldRowType
  <2>2. (row'[h] = s /\ row[h].open) \/ row'[h] = row[h]
    BY DEF SuspendPair
  <2>3. row[h].open => h <= last
    BY <1>1, Opened DEF Unused, Fresh
  <2> QED BY <1>2, <2>1, <2>2, <2>3 DEF WithCreate, Weaker
<1>4. row' = [h \in Gen |-> row'[h]]
  BY DEF SuspendPair
<1> QED BY <1>3, <1>4

\* The kinds that are recorded.
LEMMA SuspendedPair ==
    /\ SuspendOff => \E kind \in Suspended : SuspendPair(kind)
    /\ SuspendUnproven => /\ Spend("faults")
                          /\ \E kind \in Suspended : SuspendPair(kind)
BY DEF SuspendOff, SuspendUnproven, Suspended

\* The cron looks at a row, and fetches its credentials.
LEMMA Passes ==
    ASSUME IInv, NEW g \in Gen, Look(g) \/ Credentials(g)
    PROVE  Kept
<1>1. UNCHANGED <<last, run, made, will, give, app, world>>
  BY DEF Look, Credentials, Keeps
<1>2. /\ row' \in [Gen -> Attempt]
      /\ \A h \in Gen : row'[h] = row[h] \/ (WithCreate(row[h], row'[h]) /\ h <= last)
  <2>1. UNCHANGED row \/ \E kind \in Suspended : SuspendPair(kind)
    BY SuspendedPair DEF Look, Credentials
  <2> QED BY <2>1, SuspendPairType DEF IInv, TypeOK
<1>3. g <= last
  <2>1. "cron" \in Actor
    BY DEF Actor
  <2> QED BY <2>1, Opened DEF Look, Credentials, Due, Unused, Fresh
<1>4. UNCHANGED at \/ \E step \in Harmless : Goto("cron", g, step) /\ g <= last
  BY <1>3 DEF Look, Credentials, Stop, Harmless
<1>5. left' \in Budget
  <2>1. UNCHANGED left \/ Spend("faults")
    BY SuspendedPair DEF Look, Credentials
  <2> QED BY <2>1, SpendType DEF IInv, TypeOK
<1>6. pass' \in [known : BOOLEAN, paused : BOOLEAN]
  <2>1. row[g].linked \in BOOLEAN /\ Attributed(g) \in BOOLEAN
    BY DEF IInv, TypeOK, Attempt, Attributed
  <2>2. CASE Look(g)
    BY <2>1, <2>2 DEF Look
  <2>3. CASE Credentials(g)
    BY <2>3 DEF Credentials, IInv, TypeOK
  <2> QED BY <2>2, <2>3
<1> QED BY <1>1, <1>2, <1>4, <1>5, <1>6, AllRows

\* Only an attempt that was opened is held.
LEMMA HeldIsOpened ==
    ASSUME IInv, NEW h \in Gen, row[h].recovery \in Held
    PROVE  h <= last
<1>1. "cron" \in Actor
  BY DEF Actor
<1> QED BY <1>1, Opened DEF Unused, Fresh, Held, Suspended

\* A step that does nothing but let go of rows.
LEMMA RowsOnly ==
    ASSUME IInv, UNCHANGED <<last, run, made, at, will, give, pass, app, world>>,
           row' \in [Gen -> Attempt], left' \in Budget,
           \A h \in Gen :
             row'[h] = row[h] \/ (WithCreate(row[h], row'[h]) /\ h <= last)
    PROVE  Kept
<1>1. 1 \in Gen
  BY CheckAssumption DEF Gen
<1>2. pass' \in [known : BOOLEAN, paused : BOOLEAN]
  BY DEF IInv, TypeOK
<1> QED BY <1>1, <1>2, AllRows

\* The rows of an App that is back wait again, or are suspended anew.
LEMMA Reenabled ==
    ASSUME IInv, Reenable
    PROVE  Kept
<1>1. UNCHANGED <<last, run, made, at, will, give, pass, app, world>>
  BY DEF Reenable
<1>2. CASE /\ row' = [g \in Gen |-> IF row[g].recovery \in Held
                                    THEN [row[g] EXCEPT !.recovery = "pending"]
                                    ELSE row[g]]
           /\ UNCHANGED left
  <2>1. ASSUME NEW h \in Gen
        PROVE  /\ row'[h] \in Attempt
               /\ row'[h] = row[h] \/ (WithCreate(row[h], row'[h]) /\ h <= last)
    <3> DEFINE s == [row[h] EXCEPT !.recovery = "pending"]
    <3>1. row[h] \in Attempt /\ (row[h].live => row[h].owner # "none")
      BY DEF IInv, TypeOK
    <3>2. row[h].open /\ row[h].owner # "none" => row[h].attempts < MaxAttempts
      BY DEF IInv, Good, Leases
    <3>3. WithCreate(row[h], s)
      BY <3>1, <3>2 DEF WithCreate, Weaker, Attempt, Waiting
    <3>4. (row'[h] = s /\ row[h].recovery \in Held) \/ row'[h] = row[h]
      BY <1>2
    <3>5. row[h].recovery \in Held => h <= last
      BY HeldIsOpened
    <3> QED BY <3>1, <3>3, <3>4, <3>5 DEF WithCreate, Weaker
  <2>2. row' \in [Gen -> Attempt]
    <3>1. row' = [h \in Gen |-> row'[h]]
      BY <1>2
    <3> QED BY <2>1, <3>1
  <2>3. left' \in Budget
    BY <1>2 DEF IInv, TypeOK
  <2> QED BY <1>1, <2>1, <2>2, <2>3, RowsOnly
<1>3. CASE SuspendUnproven
  <2>1. /\ row' \in [Gen -> Attempt]
        /\ \A h \in Gen :
             row'[h] = row[h] \/ (WithCreate(row[h], row'[h]) /\ h <= last)
    BY <1>3, SuspendedPair, SuspendPairType
  <2>2. left' \in Budget
    BY <1>3, SuspendedPair, SpendType DEF IInv, TypeOK
  <2> QED BY <1>1, <2>1, <2>2, RowsOnly
<1> QED BY <1>2, <1>3 DEF Reenable

\* The operator replaces the key.
LEMMA Rekeyed ==
    ASSUME IInv, Rekey
    PROVE  Kept
<1>1. UNCHANGED <<last, run, made, at, will, give, pass, app, world>>
  BY DEF Rekey
<1>2. ASSUME NEW h \in Gen
      PROVE  /\ row'[h] \in Attempt
             /\ row'[h] = row[h] \/ (WithCreate(row[h], row'[h]) /\ h <= last)
  <2> DEFINE s == [row[h] EXCEPT !.recovery = "changed"]
  <2>1. row[h] \in Attempt /\ (row[h].live => row[h].owner # "none")
    BY DEF IInv, TypeOK
  <2>2. row[h].open /\ row[h].owner # "none" => row[h].attempts < MaxAttempts
    BY DEF IInv, Good, Leases
  <2>3. WithCreate(row[h], s)
    BY <2>1, <2>2 DEF WithCreate, Weaker, Attempt, Held, Suspended
  <2>4. (row'[h] = s /\ row[h].recovery = "mismatch") \/ row'[h] = row[h]
    BY DEF Rekey
  <2>5. row[h].recovery = "mismatch" => h <= last
    BY HeldIsOpened DEF Held, Suspended
  <2> QED BY <2>1, <2>3, <2>4, <2>5 DEF WithCreate, Weaker
<1>3. row' \in [Gen -> Attempt]
  <2>1. row' = [h \in Gen |-> row'[h]]
    BY DEF Rekey
  <2> QED BY <1>2, <2>1
<1>4. left' \in Budget
  BY SpendType DEF Rekey, IInv, TypeOK
<1> QED BY <1>1, <1>2, <1>3, <1>4, RowsOnly

\* The App is switched.
LEMMA Switched ==
    ASSUME IInv, Switch
    PROVE  Kept
<1>1. TypeOK'
  <2>1. left' \in Budget
    BY SpendType DEF Switch, IInv, TypeOK
  <2> QED BY <2>1 DEF Switch, IInv, TypeOK, world
<1>2. \A h \in Gen : Untouched(h)
  BY DEF Switch, Untouched
<1>3. last' \in Nat /\ last <= last' /\ pub' = pub
  BY DEF Switch, world, IInv, TypeOK
<1>4. \A h \in Gen : Good(h)' /\ Stands(h)
  BY <1>2, <1>3, Elsewhere DEF IInv
<1> QED BY <1>1, <1>4 DEF IInv, Kept

-----------------------------------------------------------------------------
(* The steps forward.                                                      *)

\* An actor chooses a conclusion.
LEMMA WillType ==
    ASSUME will \in [Actor -> [Gen -> Verdict]], NEW a \in Actor, NEW g \in Gen,
           NEW v \in Verdict, will' = [will EXCEPT ![a][g] = v]
    PROVE  /\ will' \in [Actor -> [Gen -> Verdict]] /\ will'[a][g] = v
           /\ \A b \in Actor, h \in Gen : b # a \/ h # g => will'[b][h] = will[b][h]
OBVIOUS

\* What an actor writes of one attempt, with the types of what it writes.
LEMMA OneAttempt ==
    ASSUME IInv, NEW a \in Actor, NEW g \in Gen,
           last' = last, app' = app, give' = give, world' = world,
           left' \in Budget, pass' = pass,
           \/ UNCHANGED row
           \/ \E s \in Attempt : (s.live => s.owner # "none") /\ Write(g, s),
           \/ UNCHANGED run
           \/ \E v \in {"open"} \cup Verdict : run' = [run EXCEPT ![g] = v],
           UNCHANGED made \/ made' = [made EXCEPT ![g] = @ + 1],
           UNCHANGED at \/ \E s \in Steps : Goto(a, g, s),
           \/ UNCHANGED will
           \/ \E v \in Verdict : will' = [will EXCEPT ![a][g] = v]
    PROVE  TypeOK' /\ \A h \in Gen \ {g} : Untouched(h)
<1> USE DEF IInv
<1>1. /\ row' \in [Gen -> Attempt] /\ \A h \in Gen \ {g} : row'[h] = row[h]
      /\ row'[g].live => row'[g].owner # "none"
  BY WriteType DEF TypeOK
<1>2. /\ at' \in [Actor -> [Gen -> Steps]]
      /\ \A b \in Actor, h \in Gen \ {g} : at'[b][h] = at[b][h]
  BY GotoType DEF TypeOK
<1>3. /\ run' \in [Gen -> {"none", "open"} \cup Verdict]
      /\ \A h \in Gen \ {g} : run'[h] = run[h]
  BY DEF TypeOK
<1>4. made' \in [Gen -> Nat] /\ \A h \in Gen \ {g} : made'[h] = made[h]
  BY DEF TypeOK
<1>5. /\ will' \in [Actor -> [Gen -> Verdict]]
      /\ \A b \in Actor, h \in Gen \ {g} : will'[b][h] = will[b][h]
  BY WillType DEF TypeOK
<1>6. \A h \in Gen : row'[h].live => row'[h].owner # "none"
  BY <1>1 DEF TypeOK
<1> QED
  BY <1>1, <1>2, <1>3, <1>4, <1>5, <1>6 DEF TypeOK, Untouched, world

\* The facts of a step that writes the row and moves its actor.
LEMMA Forward ==
    ASSUME IInv, NEW a \in Actor, NEW g \in Gen, NEW s, NEW step \in Steps,
           s \in Attempt, s.live => s.owner # "none",
           (s = row[g] /\ UNCHANGED row) \/ Write(g, s), Goto(a, g, step), Keeps,
           UNCHANGED <<run, made, pass>>,
           \/ UNCHANGED will
           \/ \E v \in Verdict : will' = [will EXCEPT ![a][g] = v],
           g <= last
    PROVE  /\ TypeOK' /\ \A h \in Gen \ {g} : Untouched(h)
           /\ row'[g] = s /\ run'[g] = run[g] /\ made'[g] = made[g]
           /\ at'[a][g] = step
           /\ \A b \in Actor \ {a} : at'[b][g] = at[b][g] /\ will'[b][g] = will[b][g]
           /\ pub' = pub /\ last' = last /\ Blank(g)'
<1>1. TypeOK' /\ \A h \in Gen \ {g} : Untouched(h)
  <2>1. left' \in Budget
    BY DEF IInv, TypeOK, Keeps
  <2>2. \/ UNCHANGED row
        \/ \E t \in Attempt : (t.live => t.owner # "none") /\ Write(g, t)
    OBVIOUS
  <2>3. /\ last' = last /\ app' = app /\ give' = give /\ world' = world
        /\ pass' = pass /\ UNCHANGED run /\ UNCHANGED made
    BY DEF Keeps
  <2> QED BY <2>1, <2>2, <2>3, OneAttempt
<1>2. row'[g] = s
  BY WriteType DEF IInv, TypeOK
<1>3. at'[a][g] = step /\ \A b \in Actor \ {a} : at'[b][g] = at[b][g]
  BY GotoType DEF IInv, TypeOK
<1>4. \A b \in Actor \ {a} : will'[b][g] = will[b][g]
  BY WillType DEF IInv, TypeOK
<1>5. pub' = pub /\ last' = last
  BY DEF Keeps, world
<1>6. Blank(g)'
  BY <1>5 DEF Blank, IInv, TypeOK, Gen
<1> QED BY <1>1, <1>2, <1>3, <1>4, <1>5, <1>6

\* What is left to show of such a step.
LEMMA Onwards ==
    ASSUME IInv, NEW g \in Gen, TypeOK', \A h \in Gen \ {g} : Untouched(h),
           Blank(g)', Once(g)', Leases(g)', Runs(g)', Done(g)', Green(g)', Stands(g),
           last' = last, pub' = pub
    PROVE  Kept
<1>1. Good(g)'
  BY DEF Good
<1>2. last <= last' /\ (pub = "proven" => pub' = "proven")
  BY DEF IInv, TypeOK
<1> QED BY <1>1, <1>2, Assemble DEF Kept

\* A row is marked: no create was ever sent for it.
LEMMA Marks ==
    ASSUME IInv, NEW a \in Actor, NEW g \in Gen, MarkSending(a, g)
    PROVE  Kept
<1> DEFINE s == [row[g] EXCEPT !.create = "sending"]
<1>1. /\ at[a][g] = "claimed" /\ Owns(a, row[g]) /\ row[g].create = "not-sent"
      /\ row[g] \in Attempt /\ row[g].live
  BY Holding DEF MarkSending, Fenced
<1>2. /\ s \in Attempt /\ s.create = "sending" /\ s.owner = row[g].owner
      /\ s.open = row[g].open /\ s.desired = row[g].desired
      /\ s.observed = row[g].observed /\ s.recovery = row[g].recovery
      /\ s.attempts = row[g].attempts /\ s.live = row[g].live
  BY <1>1 DEF Attempt
<1>3. g <= last /\ row[g].owner = a /\ a # "none"
  BY <1>1, Holding DEF Actor
<1>4. Write(g, s) /\ Goto(a, g, "marked") /\ Keeps /\ UNCHANGED <<run, made, will, pass>>
  BY DEF MarkSending
<1>5. "marked" \in Steps
  BY DEF Steps
<1> HIDE DEF s
<1>6. /\ TypeOK' /\ \A h \in Gen \ {g} : Untouched(h)
      /\ row'[g] = s /\ run'[g] = run[g] /\ made'[g] = made[g]
      /\ at'[a][g] = "marked"
      /\ \A b \in Actor \ {a} : at'[b][g] = at[b][g]
      /\ pub' = pub /\ last' = last /\ Blank(g)'
  BY <1>2, <1>3, <1>4, <1>5, Forward
<1>7. will'[a][g] = will[a][g] /\ \A b \in Actor : will'[b][g] = will[b][g]
  BY <1>4
<1>8. Once(g)'
  BY <1>1, <1>2, <1>6 DEF IInv, Good, Once, Owns, Running, Actor
<1>9. Leases(g)'
  BY <1>1, <1>2, <1>6 DEF IInv, Good, Leases, Work, Actor
<1>10. Runs(g)'
  BY <1>1, <1>2, <1>6, <1>7 DEF IInv, Good, Runs, Running, Actor
<1>11. Done(g)' /\ Green(g)' /\ Stands(g)
  BY <1>1, <1>2, <1>6, <1>7 DEF IInv, Good, Done, Green, Stands, Undecided, Actor
<1> QED
  BY <1>6, <1>8, <1>9, <1>10, <1>11, Onwards

\* A step that leaves the row alone and moves its actor.
LEMMA Walk ==
    ASSUME IInv, NEW a \in Actor, NEW g \in Gen, NEW step \in Steps,
           at[a][g] # "idle", UNCHANGED row, Goto(a, g, step), Keeps,
           UNCHANGED <<run, made, will, pass>>
    PROVE  /\ TypeOK' /\ \A h \in Gen \ {g} : Untouched(h)
           /\ row'[g] = row[g] /\ run'[g] = run[g] /\ made'[g] = made[g]
           /\ at'[a][g] = step
           /\ \A b \in Actor \ {a} : at'[b][g] = at[b][g]
           /\ \A b \in Actor : will'[b][g] = will[b][g]
           /\ pub' = pub /\ last' = last /\ Blank(g)'
<1>1. row[g] \in Attempt /\ (row[g].live => row[g].owner # "none") /\ g <= last
  BY Opened DEF IInv, TypeOK
<1> QED BY <1>1, Forward

\* Who has marked the row and still holds it sends the first create.
LEMMA SendsCreate ==
    ASSUME IInv, NEW a \in Actor, NEW g \in Gen, SendCreate(a, g)
    PROVE  Kept
<1>1. at[a][g] = "marked" /\ Owns(a, row[g])
  BY DEF SendCreate, Fenced
<1>2. /\ TypeOK' /\ \A h \in Gen \ {g} : Untouched(h)
      /\ row'[g] = row[g] /\ run'[g] = run[g] /\ made'[g] = made[g]
      /\ at'[a][g] = "creating"
      /\ \A b \in Actor \ {a} : at'[b][g] = at[b][g]
      /\ \A b \in Actor : will'[b][g] = will[b][g]
      /\ pub' = pub /\ last' = last /\ Blank(g)'
  <2>1. "creating" \in Steps
    BY DEF Steps
  <2> QED BY <1>1, <2>1, Walk DEF SendCreate
<1>3. Once(g)'
  BY <1>1, <1>2 DEF IInv, Good, Once, Owns, Running, Actor
<1>4. Leases(g)' /\ Runs(g)'
  BY <1>1, <1>2 DEF IInv, Good, Leases, Runs, Work, Running, Actor
<1>5. Done(g)' /\ Green(g)' /\ Stands(g)
  BY <1>1, <1>2 DEF IInv, Good, Done, Green, Stands, Undecided, Actor
<1> QED BY <1>2, <1>3, <1>4, <1>5, Onwards

\* The mark is undone: nothing was sent under it, and the holder is gone.
LEMMA Undispatches ==
    ASSUME IInv, NEW a \in Actor, NEW g \in Gen, Undispatched(a, g)
    PROVE  Kept
<1> DEFINE r == [row[g] EXCEPT !.create = "not-sent"]
           s == IF a = "cron" \/ r.live THEN Unsent(a, r) ELSE r
<1>1. /\ at[a][g] = "marked" /\ g <= last /\ a \in {"consumer", "cron"}
      /\ row[g] \in Attempt /\ (row[g].live => row[g].owner # "none")
  BY Opened DEF Undispatched, Actor, IInv, TypeOK
<1>2. left' \in Budget
  BY SpendType DEF Undispatched, IInv, TypeOK
<1>3. UNCHANGED <<last, run, made, will, give, pass, app, world>> /\ Stop(a, g)
  BY DEF Undispatched
<1>4. CASE ~Owns(a, row[g])
  <2>1. UNCHANGED row
    BY <1>4 DEF Undispatched, WriteIf
  <2>2. give' \in [Gen -> {"no", "fallback", "release", "over"}]
    BY <1>3 DEF IInv, TypeOK
  <2> QED BY <1>2, <1>3, <2>1, <2>2, StepBack DEF Kept
<1>5. CASE Owns(a, row[g])
  <2>1. /\ row[g].attempts < MaxAttempts /\ row[g].recovery # "done"
        /\ row[g].owner = a /\ row[g].open
    BY <1>5, Holding DEF Owns
  <2>2. /\ r \in Attempt /\ r.create = "not-sent" /\ r.open /\ r.owner = a
        /\ r.attempts = row[g].attempts /\ r.recovery = row[g].recovery
        /\ r.desired = row[g].desired /\ r.observed = row[g].observed
        /\ r.live = row[g].live
    BY <1>1, <2>1 DEF Attempt
  <2>3. Write(g, s)
    BY <1>5 DEF Undispatched, WriteIf, Write
  <2> HIDE DEF r
  <2>4. WithCreate(r, r)
    BY <1>1, <2>1, <2>2 DEF WithCreate, Weaker
  <2>5. WithCreate(r, s)
    BY <2>1, <2>2, <2>4, LetGo DEF Owns
  <2>6. Weaker(row[g], s) /\ s.create = "not-sent" /\ s \in Attempt
        /\ (s.live => s.owner # "none")
    BY <2>1, <2>2, <2>5 DEF WithCreate, Weaker
  <2> HIDE DEF s
  <2>7. /\ made[g] = 0 /\ \A b \in Actor : at[b][g] # "creating"
    BY <1>1, <1>5 DEF IInv, Good, Once
  <2>8. row'[g] = s /\ Write(g, s)
    BY <2>3, <2>6, WriteType DEF IInv, TypeOK
  <2>9. /\ at'[a][g] = "idle" /\ \A b \in Actor \ {a} : at'[b][g] = at[b][g]
        /\ "idle" \in Steps
    BY <1>3, GotoType DEF Stop, IInv, TypeOK, Steps
  <2>10. TypeOK' /\ \A h \in Gen \ {g} : Untouched(h)
    BY <1>2, <1>3, <2>6, <2>8, <2>9, OneAttempt DEF Stop
  <2>11. Blank(g)' /\ last' = last /\ pub' = pub
    BY <1>1, <1>3 DEF Blank, IInv, TypeOK, Gen, world
  <2>12. \A b \in Actor : ~(at'[b][g] = "marked" /\ Owns(b, row[g])')
    BY <2>1, <2>6, <2>8, <2>9 DEF Owns, Weaker, Actor
  <2>13. Once(g)'
    BY <1>1, <1>3, <2>6, <2>7, <2>8, <2>9, <2>12
       DEF IInv, Good, Once, Running, Actor
  <2>14. Leases(g)'
    BY <1>1, <1>3, <2>6, <2>8, <2>9 DEF IInv, Good, Leases, Weaker, Work, Actor
  <2>15. Runs(g)'
    BY <1>1, <1>3, <2>6, <2>8, <2>9 DEF IInv, Good, Runs, Weaker, Running, Actor
  <2>16. Done(g)' /\ Green(g)' /\ Stands(g)
    BY <1>1, <1>3, <2>1, <2>6, <2>8, <2>9, <2>11
       DEF IInv, Good, Done, Green, Stands, Weaker, Undecided, Actor
  <2> QED BY <2>10, <2>11, <2>13, <2>14, <2>15, <2>16, Onwards
<1> QED BY <1>4, <1>5

\* The one create of the attempt takes effect.
LEMMA CreatesLand ==
    ASSUME IInv, NEW a \in Actor, NEW g \in Gen, CreateLands(a, g)
    PROVE  Kept
<1>1. at[a][g] = "creating" /\ made[g] = 0 /\ run[g] = "none" /\ g <= last
  BY Opened DEF CreateLands, IInv, Good, Once
<1>2. /\ run' = [run EXCEPT ![g] = "open"] /\ made' = [made EXCEPT ![g] = @ + 1]
      /\ Goto(a, g, "created") /\ Keeps /\ UNCHANGED <<row, will, pass>>
  BY DEF CreateLands
<1>3. /\ at'[a][g] = "created" /\ \A b \in Actor \ {a} : at'[b][g] = at[b][g]
      /\ "created" \in Steps
  BY <1>2, GotoType DEF IInv, TypeOK, Steps
<1>4. run'[g] = "open" /\ made'[g] = 1 /\ row'[g] = row[g]
  BY <1>1, <1>2 DEF IInv, TypeOK
<1>5. TypeOK' /\ \A h \in Gen \ {g} : Untouched(h)
  <2>1. left' \in Budget
    BY <1>2 DEF Keeps, IInv, TypeOK
  <2> QED BY <1>2, <1>3, <2>1, OneAttempt DEF Keeps
<1>6. Blank(g)' /\ last' = last /\ pub' = pub
  BY <1>1, <1>2 DEF Blank, Keeps, IInv, TypeOK, Gen, world
<1>7. \A b \in Actor : at[b][g] # "updating" /\ ~(at[b][g] = "marked" /\ Owns(b, row[g]))
  BY <1>1 DEF IInv, Good, Once
<1>8. Once(g)'
  BY <1>1, <1>2, <1>3, <1>4, <1>7 DEF IInv, Good, Once, Owns, Running, Actor
<1>9. Leases(g)' /\ Runs(g)'
  BY <1>1, <1>2, <1>3, <1>4
     DEF IInv, Good, Once, Leases, Runs, Work, Running, Actor
<1>10. Done(g)' /\ Green(g)' /\ Stands(g)
  BY <1>1, <1>2, <1>3, <1>4, <1>6
     DEF IInv, Good, Done, Green, Stands, Undecided, Actor, Verdict
<1> QED BY <1>5, <1>6, <1>8, <1>9, <1>10, Onwards

\* The run is attached to the row.
LEMMA Attaches ==
    ASSUME IInv, NEW a \in Actor, NEW g \in Gen, Attach(a, g)
    PROVE  Kept
<1> DEFINE s == [row[g] EXCEPT !.create = "known"]
<1>1. CASE ~Fenced(a, row[g])
  <2>1. give' \in [Gen -> {"no", "fallback", "release", "over"}] /\ left' \in Budget
    BY DEF Attach, Keeps, IInv, TypeOK
  <2>2. UNCHANGED row /\ Stop(a, g)
    BY <1>1 DEF Attach
  <2> QED BY <2>1, <2>2, StepBack DEF Attach, Keeps, Kept
<1>2. CASE Fenced(a, row[g])
  <2>1. /\ at[a][g] = "created" /\ Owns(a, row[g]) /\ g <= last /\ row[g].owner = a
        /\ row[g] \in Attempt /\ row[g].live /\ row[g].owner # "none"
        /\ a \in {"consumer", "cron"}
    BY <1>2, Holding DEF Attach, Fenced, Actor
  <2>2. PICK step \in Steps : /\ Goto(a, g, step)
                              /\ a = "cron" => step = "fetch"
                              /\ a # "cron" => step \in {"working", "late", "idle"}
    BY <1>2 DEF Attach, Steps
  <2>3. Write(g, s) /\ Keeps /\ UNCHANGED <<run, made, will, pass>>
    BY <1>2 DEF Attach
  <2>4. /\ s \in Attempt /\ s.create = "known" /\ s.owner = row[g].owner
        /\ s.open = row[g].open /\ s.desired = row[g].desired
        /\ s.observed = row[g].observed /\ s.recovery = row[g].recovery
        /\ s.attempts = row[g].attempts /\ s.live = row[g].live
    BY <2>1 DEF Attempt
  <2> HIDE DEF s
  <2>5. /\ TypeOK' /\ \A h \in Gen \ {g} : Untouched(h)
        /\ row'[g] = s /\ run'[g] = run[g] /\ made'[g] = made[g]
        /\ at'[a][g] = step
        /\ \A b \in Actor \ {a} : at'[b][g] = at[b][g]
        /\ pub' = pub /\ last' = last /\ Blank(g)'
    BY <2>1, <2>2, <2>3, <2>4, Forward
  <2>6. \A b \in Actor : will'[b][g] = will[b][g]
    BY <2>3
  <2>7. made[g] = 1
    BY <2>1 DEF IInv, Good, Once, Running
  <2>8. Once(g)'
    BY <2>1, <2>2, <2>4, <2>5, <2>7 DEF IInv, Good, Once, Owns, Running, Actor
  <2>9. Leases(g)'
    BY <2>1, <2>2, <2>4, <2>5 DEF IInv, Good, Leases, Work, Actor
  <2>10. Runs(g)'
    BY <2>1, <2>2, <2>4, <2>5, <2>6 DEF IInv, Good, Runs, Running, Actor
  <2>11. Done(g)' /\ Green(g)' /\ Stands(g)
    BY <2>1, <2>2, <2>4, <2>5, <2>6 DEF IInv, Good, Done, Green, Stands, Undecided, Actor
  <2> QED BY <2>5, <2>8, <2>9, <2>10, <2>11, Onwards
<1> QED BY <1>1, <1>2

\* The row is linked to what an earlier round has published.
LEMMA HandsOff ==
    ASSUME IInv, NEW g \in Gen, HandOff(g)
    PROVE  Kept
<1> DEFINE s == IF Fenced("consumer", row[g]) THEN [row[g] EXCEPT !.linked = TRUE]
                                              ELSE row[g]
<1>1. /\ at["consumer"][g] = "working" /\ g <= last /\ row[g] \in Attempt
      /\ (row[g].live => row[g].owner # "none") /\ "consumer" \in Actor
      /\ "handing" \in Steps
  BY Opened DEF HandOff, IInv, TypeOK, Actor, Steps
<1>2. /\ s \in Attempt /\ s.create = row[g].create /\ s.owner = row[g].owner
      /\ s.open = row[g].open /\ s.desired = row[g].desired
      /\ s.observed = row[g].observed /\ s.recovery = row[g].recovery
      /\ s.attempts = row[g].attempts /\ s.live = row[g].live
  <2> DEFINE t == [row[g] EXCEPT !.linked = TRUE]
  <2>1. /\ t \in Attempt /\ t.create = row[g].create /\ t.owner = row[g].owner
        /\ t.open = row[g].open /\ t.desired = row[g].desired
        /\ t.observed = row[g].observed /\ t.recovery = row[g].recovery
        /\ t.attempts = row[g].attempts /\ t.live = row[g].live
    BY <1>1 DEF Attempt
  <2>2. s = t \/ s = row[g]
    OBVIOUS
  <2> QED BY <1>1, <2>1, <2>2
<1>3. /\ Goto("consumer", g, "handing") /\ Keeps /\ UNCHANGED <<run, made, will, pass>>
      /\ (s = row[g] /\ UNCHANGED row) \/ Write(g, s)
  BY DEF HandOff, WriteIf, Write
<1> HIDE DEF s
<1>4. /\ TypeOK' /\ \A h \in Gen \ {g} : Untouched(h)
      /\ row'[g] = s /\ run'[g] = run[g] /\ made'[g] = made[g]
      /\ at'["consumer"][g] = "handing"
      /\ \A b \in Actor \ {"consumer"} : at'[b][g] = at[b][g]
      /\ pub' = pub /\ last' = last /\ Blank(g)'
  BY <1>1, <1>2, <1>3, Forward
<1>5. \A b \in Actor : will'[b][g] = will[b][g]
  BY <1>3
<1>6. Once(g)'
  BY <1>1, <1>2, <1>4 DEF IInv, Good, Once, Owns, Running, Actor
<1>7. Leases(g)'
  BY <1>1, <1>2, <1>4 DEF IInv, Good, Leases, Work, Actor
<1>8. Runs(g)'
  BY <1>1, <1>2, <1>4, <1>5 DEF IInv, Good, Runs, Running, Actor
<1>9. Done(g)' /\ Green(g)' /\ Stands(g)
  BY <1>1, <1>2, <1>4, <1>5 DEF IInv, Good, Done, Green, Stands, Undecided, Actor
<1> QED BY <1>4, <1>6, <1>7, <1>8, <1>9, Onwards

\* The consumer chooses a conclusion; a success has a proof.
LEMMA Concludes ==
    ASSUME IInv, NEW g \in Gen, Conclude(g)
    PROVE  Kept
<1>1. /\ at["consumer"][g] = "working" /\ g <= last /\ row[g] \in Attempt
      /\ (row[g].live => row[g].owner # "none") /\ "consumer" \in Actor
      /\ "freezing" \in Steps /\ "idle" \in Steps
  BY Opened DEF Conclude, IInv, TypeOK, Actor, Steps
<1>2. PICK v \in Verdict, step \in {"freezing", "idle"} :
         /\ will' = [will EXCEPT !["consumer"][g] = v]
         /\ Goto("consumer", g, step)
         /\ v = "success" => pub = "proven"
  BY CheckAssumption DEF Conclude, Verdicts, Verdict
<1>3. Keeps /\ UNCHANGED <<row, run, made, pass>>
  BY DEF Conclude
<1>4. /\ TypeOK' /\ \A h \in Gen \ {g} : Untouched(h)
      /\ row'[g] = row[g] /\ run'[g] = run[g] /\ made'[g] = made[g]
      /\ at'["consumer"][g] = step
      /\ \A b \in Actor \ {"consumer"} : at'[b][g] = at[b][g] /\ will'[b][g] = will[b][g]
      /\ pub' = pub /\ last' = last /\ Blank(g)'
  BY <1>1, <1>2, <1>3, Forward
<1>5. will'["consumer"][g] = v
  BY <1>1, <1>2, WillType DEF IInv, TypeOK
<1>6. Once(g)'
  BY <1>1, <1>2, <1>4 DEF IInv, Good, Once, Owns, Running, Actor
<1>7. Leases(g)'
  BY <1>1, <1>2, <1>4 DEF IInv, Good, Leases, Work, Actor
<1>8. Runs(g)'
  BY <1>1, <1>2, <1>4 DEF IInv, Good, Runs, Running, Actor
<1>9. Done(g)' /\ Green(g)' /\ Stands(g)
  BY <1>1, <1>2, <1>4, <1>5 DEF IInv, Good, Done, Green, Stands, Undecided, Actor
<1> QED BY <1>4, <1>6, <1>7, <1>8, <1>9, Onwards

\* The consumer freezes it: it has frozen none before.
LEMMA Freezes ==
    ASSUME IInv, NEW g \in Gen, Freeze(g)
    PROVE  Kept
<1> DEFINE v == will["consumer"][g]
           b == g \in own
           s == Frozen(row[g], v, b)
<1>1. /\ at["consumer"][g] = "freezing" /\ g <= last /\ row[g] \in Attempt
      /\ (row[g].live => row[g].owner # "none") /\ "consumer" \in Actor
      /\ "frozen" \in Steps /\ "idle" \in Harmless /\ v \in Verdict
  BY Opened DEF Freeze, IInv, TypeOK, Actor, Steps, Harmless
<1>2. CASE ~Fenced("consumer", row[g])
  <2>1. give' \in [Gen -> {"no", "fallback", "release", "over"}] /\ left' \in Budget
    BY DEF Freeze, Keeps, IInv, TypeOK
  <2>2. UNCHANGED row /\ Stop("consumer", g)
    BY <1>2 DEF Freeze, WriteIf, Stop
  <2> QED BY <1>1, <2>1, <2>2, StepBack DEF Freeze, Keeps, Kept
<1>3. CASE Fenced("consumer", row[g])
  <2>1. row[g].open /\ row[g].owner = "consumer"
    BY <1>3 DEF Fenced, Owns
  <2>2. /\ s \in Attempt /\ s.create = row[g].create /\ s.owner = row[g].owner
        /\ s.open = row[g].open /\ s.desired = v
        /\ s.observed = row[g].observed /\ s.recovery = "pending"
        /\ s.attempts = row[g].attempts /\ s.live = row[g].live
    <3>1. b \in BOOLEAN
      OBVIOUS
    <3> HIDE DEF b, v
    <3> QED BY <1>1, <3>1, FrozenType
  <2>3. /\ Write(g, s) /\ Goto("consumer", g, "frozen") /\ Keeps
        /\ UNCHANGED <<run, made, will, pass>>
    BY <1>3 DEF Freeze, WriteIf, Write
  <2>4. row[g].desired # "success" /\ (v = "success" => pub = "proven")
    BY <1>1, <2>1 DEF IInv, Good, Green, Undecided
  <2> HIDE DEF s, v
  <2>5. /\ TypeOK' /\ \A h \in Gen \ {g} : Untouched(h)
        /\ row'[g] = s /\ run'[g] = run[g] /\ made'[g] = made[g]
        /\ at'["consumer"][g] = "frozen"
        /\ \A x \in Actor \ {"consumer"} : at'[x][g] = at[x][g]
        /\ pub' = pub /\ last' = last /\ Blank(g)'
    BY <1>1, <2>2, <2>3, Forward
  <2>6. \A x \in Actor : will'[x][g] = will[x][g]
    BY <2>3
  <2>7. Once(g)'
    BY <1>1, <2>1, <2>2, <2>5 DEF IInv, Good, Once, Owns, Running, Actor
  <2>8. Leases(g)'
    BY <1>1, <2>1, <2>2, <2>5 DEF IInv, Good, Leases, Work, Actor
  <2>9. Runs(g)'
    BY <1>1, <2>1, <2>2, <2>5, <2>6 DEF IInv, Good, Runs, Running, Actor
  <2>10. Done(g)' /\ Green(g)' /\ Stands(g)
    BY <1>1, <2>2, <2>4, <2>5, <2>6
       DEF IInv, Good, Done, Green, Stands, Undecided, Actor, Verdict
  <2> QED BY <2>5, <2>7, <2>8, <2>9, <2>10, Onwards
<1> QED BY <1>2, <1>3

\* A conclusion is sent to a run that is open.
LEMMA SendsUpdate ==
    ASSUME IInv, NEW a \in Actor, NEW g \in Gen, SendUpdate(a, g)
    PROVE  Kept
<1>1. /\ at[a][g] = "frozen" /\ Owns(a, row[g]) /\ row[g].owner = a
      /\ row[g].recovery # "done" /\ a \in {"consumer", "cron"}
      /\ "updating" \in Steps
  BY Holding DEF SendUpdate, Fenced, Actor, Steps
<1>2. /\ TypeOK' /\ \A h \in Gen \ {g} : Untouched(h)
      /\ row'[g] = row[g] /\ run'[g] = run[g] /\ made'[g] = made[g]
      /\ at'[a][g] = "updating"
      /\ \A b \in Actor \ {a} : at'[b][g] = at[b][g]
      /\ \A b \in Actor : will'[b][g] = will[b][g]
      /\ pub' = pub /\ last' = last /\ Blank(g)'
  BY <1>1, Walk DEF SendUpdate
<1>3. Once(g)'
  BY <1>1, <1>2 DEF IInv, Good, Once, Owns, Running, Actor
<1>4. Leases(g)'
  BY <1>1, <1>2 DEF IInv, Good, Leases, Work, Actor
<1>5. Runs(g)'
  BY <1>1, <1>2 DEF IInv, Good, Runs, Running, Actor
<1>6. Done(g)' /\ Green(g)' /\ Stands(g)
  BY <1>1, <1>2 DEF IInv, Good, Done, Green, Stands, Undecided, Actor
<1> QED BY <1>2, <1>3, <1>4, <1>5, <1>6, Onwards

\* It lands on a run that is still open, and nobody else sends one.
LEMMA UpdatesLand ==
    ASSUME IInv, NEW a \in Actor, NEW g \in Gen, UpdateLands(a, g)
    PROVE  Kept
<1> DEFINE v == will[a][g]
<1>1. /\ at[a][g] = "updating" /\ g <= last /\ v \in Verdict
      /\ "answered" \in Steps /\ a \in {"consumer", "cron"}
  BY Opened DEF UpdateLands, IInv, TypeOK, Steps, Actor
<1>2. run[g] = "open" /\ made[g] = 1
  BY <1>1 DEF IInv, Good, Runs, Once
<1>3. /\ run' = [run EXCEPT ![g] = v]
      /\ Goto(a, g, "answered") /\ Keeps /\ UNCHANGED <<row, made, will, pass>>
  BY DEF UpdateLands
<1> HIDE DEF v
<1>4. /\ at'[a][g] = "answered" /\ \A b \in Actor \ {a} : at'[b][g] = at[b][g]
      /\ run'[g] = v /\ made'[g] = made[g] /\ row'[g] = row[g]
      /\ \A b \in Actor : will'[b][g] = will[b][g]
  BY <1>1, <1>3, GotoType DEF IInv, TypeOK
<1>5. TypeOK' /\ \A h \in Gen \ {g} : Untouched(h)
  <2>1. left' \in Budget
    BY <1>3 DEF Keeps, IInv, TypeOK
  <2> QED BY <1>1, <1>3, <2>1, OneAttempt DEF Keeps
<1>6. Blank(g)' /\ last' = last /\ pub' = pub
  BY <1>1, <1>3 DEF Blank, Keeps, IInv, TypeOK, Gen, world
<1>7. will[a][g] = v /\ v # "none" /\ v # "open"
  BY <1>1 DEF v, Verdict
<1>8. Once(g)'
  BY <1>1, <1>2, <1>4, <1>7 DEF IInv, Good, Once, Owns, Running, Actor
<1>9. Leases(g)'
  BY <1>1, <1>4 DEF IInv, Good, Leases, Work, Actor
<1>10. Runs(g)'
  BY <1>1, <1>4, <1>7 DEF IInv, Good, Leases, Runs, Running, Work, Actor
<1>11. Done(g)' /\ Green(g)' /\ Stands(g)
  BY <1>1, <1>2, <1>4, <1>6, <1>7
     DEF IInv, Good, Done, Green, Stands, Undecided, Actor, Verdict
<1> QED BY <1>5, <1>6, <1>8, <1>9, <1>10, <1>11, Onwards

\* What is recorded is what the run shows.
LEMMA Observes ==
    ASSUME IInv, NEW a \in Actor, NEW g \in Gen, Observe(a, g)
    PROVE  Kept
<1> DEFINE s == Observed(row[g])
           ok == Fenced(a, row[g]) /\ row[g].desired = will[a][g]
<1>1. /\ at[a][g] = "answered" /\ g <= last /\ row[g] \in Attempt
      /\ (row[g].live => row[g].owner # "none") /\ "idle" \in Steps
      /\ a \in {"consumer", "cron"} /\ will[a][g] \in Verdict
  BY Opened DEF Observe, IInv, TypeOK, Steps, Actor
<1>2. CASE ~ok
  <2>1. give' \in [Gen -> {"no", "fallback", "release", "over"}] /\ left' \in Budget
    BY DEF Observe, Keeps, IInv, TypeOK
  <2>2. UNCHANGED row /\ Stop(a, g)
    BY <1>2 DEF Observe, WriteIf
  <2> QED BY <2>1, <2>2, StepBack DEF Observe, Keeps, Kept
<1>3. CASE ok
  <2>1. /\ row[g].owner = a /\ row[g].desired = will[a][g]
        /\ row[g].desired \in Verdict
    BY <1>1, <1>3, Holding DEF Fenced
  <2>2. /\ s \in Attempt /\ s.create = row[g].create /\ s.owner = row[g].owner
        /\ ~s.open /\ s.desired = row[g].desired
        /\ s.observed = row[g].desired /\ s.recovery = "done"
        /\ s.attempts = row[g].attempts /\ s.live = row[g].live
    BY <1>1, <2>1 DEF Observed, Attempt, Verdict
  <2>3. /\ Write(g, s) /\ Goto(a, g, "idle") /\ Keeps
        /\ UNCHANGED <<run, made, will, pass>>
    BY <1>3 DEF Observe, WriteIf, Write, Stop
  <2>4. run[g] = will[a][g] /\ \A b \in Actor : at[b][g] # "updating"
    BY <1>1, <2>1 DEF IInv, Good, Runs, Leases, Work, Actor
  <2> HIDE DEF s
  <2>5. /\ TypeOK' /\ \A h \in Gen \ {g} : Untouched(h)
        /\ row'[g] = s /\ run'[g] = run[g] /\ made'[g] = made[g]
        /\ at'[a][g] = "idle"
        /\ \A b \in Actor \ {a} : at'[b][g] = at[b][g]
        /\ pub' = pub /\ last' = last /\ Blank(g)'
    BY <1>1, <2>2, <2>3, Forward
  <2>6. \A b \in Actor : will'[b][g] = will[b][g]
    BY <2>3
  <2>7. Once(g)'
    BY <1>1, <2>1, <2>2, <2>5 DEF IInv, Good, Once, Owns, Running, Actor
  <2>8. Leases(g)'
    BY <1>1, <2>1, <2>2, <2>5 DEF IInv, Good, Leases, Work, Actor
  <2>9. Runs(g)'
    BY <1>1, <2>1, <2>2, <2>5, <2>6 DEF IInv, Good, Runs, Running, Actor
  <2>10. Done(g)'
    BY <1>1, <2>1, <2>2, <2>4, <2>5 DEF Done, Actor
  <2>11. Green(g)' /\ Stands(g)
    BY <1>1, <2>1, <2>2, <2>5, <2>6 DEF IInv, Good, Green, Stands, Undecided, Actor
  <2> QED BY <2>5, <2>7, <2>8, <2>9, <2>10, <2>11, Onwards
<1> QED BY <1>2, <1>3

\* The give-up freezes a failure where nothing was frozen.
LEMMA FallsBack ==
    ASSUME IInv, NEW g \in Gen, Fallback(g)
    PROVE  Kept
<1> DEFINE s == Frozen(row[g], "failure", FALSE)
           ok == Fenced("consumer", row[g]) /\ row[g].desired = "in_progress"
<1>1. /\ give' = [give EXCEPT ![g] = "release"]
      /\ UNCHANGED <<last, run, made, at, will, pass, app, world, left>>
      /\ give' \in [Gen -> {"no", "fallback", "release", "over"}]
      /\ left' \in Budget /\ "consumer" \in Actor
  BY DEF Fallback, IInv, TypeOK, Actor
<1>2. CASE ~ok
  <2>1. UNCHANGED row
    BY <1>2 DEF Fallback, WriteIf
  <2> QED BY <1>1, <2>1, StepBack DEF Kept
<1>3. CASE ok
  <2>1. /\ row[g] \in Attempt /\ row[g].owner = "consumer" /\ row[g].open
        /\ g <= last /\ (row[g].live => row[g].owner # "none")
        /\ row[g].desired = "in_progress"
    BY <1>1, <1>3, Holding DEF Fenced, Owns
  <2>2. /\ s \in Attempt /\ s.create = row[g].create /\ s.owner = row[g].owner
        /\ s.open = row[g].open /\ s.desired = "failure"
        /\ s.observed = row[g].observed /\ s.recovery = "pending"
        /\ s.attempts = row[g].attempts /\ s.live = row[g].live
    BY <2>1, FrozenType DEF Verdict
  <2>3. row' = [row EXCEPT ![g] = s]
    BY <1>3 DEF Fallback, WriteIf
  <2> HIDE DEF s
  <2>4. /\ row' \in [Gen -> Attempt] /\ row'[g] = s
        /\ \A h \in Gen \ {g} : row'[h] = row[h]
    BY <2>2, <2>3, WriteType DEF Write, IInv, TypeOK
  <2>5. TypeOK' /\ \A h \in Gen \ {g} : Untouched(h)
    <3>1. \A h \in Gen : row'[h].live => row'[h].owner # "none"
      BY <2>1, <2>2, <2>4 DEF IInv, TypeOK
    <3> QED BY <1>1, <2>4, <3>1 DEF IInv, TypeOK, Untouched, world
  <2>6. Blank(g)' /\ pub' = pub
    BY <1>1, <2>1 DEF Blank, IInv, TypeOK, Gen, world
  <2>7. Once(g)'
    BY <1>1, <2>1, <2>2, <2>4 DEF IInv, Good, Once, Owns, Running, Actor
  <2>8. Leases(g)' /\ Runs(g)'
    BY <1>1, <2>1, <2>2, <2>4 DEF IInv, Good, Leases, Runs, Work, Actor
  <2>9. Done(g)' /\ Green(g)' /\ Stands(g)
    BY <1>1, <2>1, <2>2, <2>4, <2>6
       DEF IInv, Good, Done, Green, Stands, Undecided, Actor, Verdict
  <2> QED BY <1>1, <2>5, <2>6, <2>7, <2>8, <2>9, Onwards
<1> QED BY <1>2, <1>3

\* The cron takes a row that is due, and leaves it if it no longer is.
LEMMA Takes ==
    ASSUME IInv, NEW g \in Gen, NEW step \in {"giveback", "decide"},
           at["cron"][g] \in Harmless, at["cron"][g] # "idle", Take(g, step), Keeps,
           UNCHANGED <<run, made, will, pass>>,
           step = "decide" => Quiet(g)
    PROVE  Kept
<1> DEFINE s == Taken(row[g])
<1>1. /\ g <= last /\ row[g] \in Attempt /\ step \in Steps /\ "cron" \in Actor
      /\ at["cron"][g] \in Harmless
  <2>1. "cron" \in Actor
    BY DEF Actor
  <2> QED BY <2>1, Opened DEF IInv, TypeOK, Steps
<1>2. CASE ~Due(row[g])
  <2>1. give' \in [Gen -> {"no", "fallback", "release", "over"}] /\ left' \in Budget
    BY DEF Keeps, IInv, TypeOK
  <2>2. UNCHANGED row /\ Stop("cron", g)
    BY <1>2 DEF Take
  <2> QED BY <1>1, <2>1, <2>2, StepBack DEF Keeps, Kept
<1>3. CASE Due(row[g])
  <2>1. /\ row[g].open /\ row[g].recovery # "done" /\ row[g].attempts < MaxAttempts
    BY <1>3 DEF Due, Waiting
  <2>2. /\ s \in Attempt /\ s.create = row[g].create /\ s.owner = "cron"
        /\ s.open = row[g].open /\ s.desired = row[g].desired
        /\ s.observed = row[g].observed /\ s.recovery = row[g].recovery
        /\ s.attempts = row[g].attempts /\ s.live
    BY <1>1 DEF Taken, Attempt, Actor
  <2>3. Write(g, s) /\ Goto("cron", g, step)
    BY <1>3 DEF Take
  <2> HIDE DEF s
  <2>4. /\ TypeOK' /\ \A h \in Gen \ {g} : Untouched(h)
        /\ row'[g] = s /\ run'[g] = run[g] /\ made'[g] = made[g]
        /\ at'["cron"][g] = step
        /\ \A b \in Actor \ {"cron"} : at'[b][g] = at[b][g]
        /\ pub' = pub /\ last' = last /\ Blank(g)'
    BY <1>1, <2>2, <2>3, Forward
  <2>5. \A b \in Actor : will'[b][g] = will[b][g]
    OBVIOUS
  <2>6. Once(g)'
    BY <1>1, <2>2, <2>4 DEF IInv, Good, Once, Owns, Running, Actor
  <2>7. Leases(g)'
    BY <1>1, <2>1, <2>2, <2>4 DEF IInv, Good, Leases, Work, Actor, Quiet
  <2>8. Runs(g)'
    BY <1>1, <2>2, <2>4, <2>5 DEF IInv, Good, Runs, Running, Actor
  <2>9. Done(g)' /\ Green(g)' /\ Stands(g)
    BY <1>1, <2>1, <2>2, <2>4, <2>5
       DEF IInv, Good, Done, Green, Stands, Undecided, Actor
  <2> QED BY <2>4, <2>6, <2>7, <2>8, <2>9, Onwards
<1> QED BY <1>2, <1>3

\* The two claims of the cron.
LEMMA Claims ==
    ASSUME IInv, NEW g \in Gen, ClaimToWait(g) \/ ClaimRecovery(g)
    PROVE  Kept
<1>1. CASE ClaimToWait(g)
  BY <1>1, Takes DEF ClaimToWait, Harmless
<1>2. CASE ClaimRecovery(g)
  BY <1>2, Takes DEF ClaimRecovery, Harmless
<1> QED BY <1>1, <1>2

\* The cron keeps what was frozen, or finds a proof.
LEMMA Decides ==
    ASSUME IInv, NEW g \in Gen, Decide(g)
    PROVE  Kept
<1>1. /\ at["cron"][g] = "decide" /\ g <= last /\ row[g] \in Attempt
      /\ (row[g].live => row[g].owner # "none") /\ "cron" \in Actor
      /\ "fetch" \in Steps /\ "adopt" \in Steps
  <2>1. "cron" \in Actor
    BY DEF Actor
  <2> QED BY <2>1, Opened DEF Decide, IInv, TypeOK, Steps
<1>2. Keeps /\ UNCHANGED <<run, made, pass>>
  BY DEF Decide
<1>3. CASE ~Fenced("cron", row[g])
  <2>1. give' \in [Gen -> {"no", "fallback", "release", "over"}] /\ left' \in Budget
    BY <1>2 DEF Keeps, IInv, TypeOK
  <2>2. UNCHANGED row /\ UNCHANGED will /\ Stop("cron", g)
    BY <1>3 DEF Decide
  <2> QED BY <1>1, <1>2, <2>1, <2>2, StepBack DEF Keeps, Kept
<1>4. CASE Fenced("cron", row[g])
  <2> DEFINE r == row[g]
             p == Proof(r)
             step == IF r.create = "known" THEN "fetch" ELSE "adopt"
             Sent(v) == IF MayFreeze(r, v, p) THEN Frozen(r, v, p) ELSE r
  <2>1. r.owner = "cron" /\ r.open /\ r.recovery # "done" /\ p \in BOOLEAN
    BY <1>1, <1>4, Holding DEF Fenced, Owns, Proof
  <2>2. PICK v \in Verdict :
           /\ v \in IF p THEN Gate ELSE IF r.desired = "in_progress"
                                       THEN {"failure"} ELSE {r.desired}
           /\ Write(g, Sent(v))
           /\ will' = [will EXCEPT !["cron"][g] = Sent(v).desired]
           /\ Goto("cron", g, step)
    <3> DEFINE want == IF p THEN Gate ELSE IF r.desired = "in_progress"
                                           THEN {"failure"} ELSE {r.desired}
    <3>1. want \subseteq Verdict
      BY <1>1, CheckAssumption DEF Attempt, Verdict
    <3>2. \E v \in want : /\ Write(g, Sent(v))
                          /\ will' = [will EXCEPT !["cron"][g] = Sent(v).desired]
                          /\ Goto("cron", g, step)
      BY <1>4 DEF Decide
    <3> QED BY <3>1, <3>2
  <2> DEFINE s == Sent(v)
  <2>3. /\ s \in Attempt /\ s.create = r.create /\ s.owner = r.owner
        /\ s.open = r.open /\ s.observed = r.observed /\ s.attempts = r.attempts
        /\ s.live = r.live /\ s.recovery # "done" /\ s.desired \in {v, r.desired}
    <3> HIDE DEF p
    <3>1. CASE MayFreeze(r, v, p)
      <4>1. s = Frozen(r, v, p) /\ v \in Verdict
        BY <2>2, <3>1
      <4> HIDE DEF s, r
      <4>2. r \in Attempt /\ p \in BOOLEAN
        BY <1>1, <2>1 DEF r
      <4> QED BY <4>1, <4>2, FrozenType
    <3>2. CASE ~MayFreeze(r, v, p)
      <4>1. s = r
        BY <3>2
      <4> HIDE DEF s
      <4> QED BY <1>1, <2>1, <4>1
    <3> QED BY <3>1, <3>2
  <2>4. s.desired \in Verdict
    <3> HIDE DEF p
    <3>1. CASE MayFreeze(r, v, p)
      BY <1>1, <2>1, <3>1, FrozenType
    <3>2. CASE ~MayFreeze(r, v, p)
      BY <1>1, <2>1, <3>2 DEF MayFreeze, Attempt
    <3> QED BY <3>1, <3>2
  <2>5. r.desired = "success" => s.desired = "success"
    <3> HIDE DEF p
    <3>1. CASE MayFreeze(r, v, p)
      BY <1>1, <2>1, <3>1, FrozenType DEF MayFreeze
    <3>2. CASE ~MayFreeze(r, v, p)
      BY <3>2
    <3> QED BY <3>1, <3>2
  <2>6. s.desired = "success" => pub = "proven"
    <3>1. r.desired = "success" => pub = "proven"
      BY DEF IInv, Good, Green
    <3>2. v = "success" => p \/ r.desired = "success"
      BY <2>2
    <3> QED BY <2>3, <3>1, <3>2 DEF Proof
  <2>7. Write(g, s) /\ Goto("cron", g, step) /\ step \in {"fetch", "adopt"}
        /\ \E w \in Verdict : will' = [will EXCEPT !["cron"][g] = w]
    BY <2>2, <2>4
  <2>8. step = "fetch" => r.create = "known"
    OBVIOUS
  <2>9. will'["cron"][g] = s.desired
    BY <1>1, <2>2, <2>4, WillType DEF IInv, TypeOK
  <2> HIDE DEF s, step, p, Sent
  <2>10. /\ TypeOK' /\ \A h \in Gen \ {g} : Untouched(h)
         /\ row'[g] = s /\ run'[g] = run[g] /\ made'[g] = made[g]
         /\ at'["cron"][g] = step
         /\ \A b \in Actor \ {"cron"} : at'[b][g] = at[b][g] /\ will'[b][g] = will[b][g]
         /\ pub' = pub /\ last' = last /\ Blank(g)'
    BY <1>1, <1>2, <2>1, <2>3, <2>7, Forward
  <2>11. Once(g)'
    BY <1>1, <2>1, <2>3, <2>7, <2>8, <2>10 DEF IInv, Good, Once, Owns, Running, Actor
  <2>12. Leases(g)'
    BY <1>1, <2>1, <2>3, <2>7, <2>10 DEF IInv, Good, Leases, Work, Actor
  <2>13. Runs(g)'
    BY <1>1, <2>1, <2>3, <2>7, <2>10 DEF IInv, Good, Runs, Running, Actor
  <2>14. Done(g)'
    BY <2>3, <2>10 DEF Done
  <2>15. Green(g)' /\ Stands(g)
    BY <1>1, <2>1, <2>3, <2>5, <2>6, <2>7, <2>9, <2>10
       DEF IInv, Good, Green, Stands, Undecided, Actor
  <2> QED BY <2>10, <2>11, <2>12, <2>13, <2>14, <2>15, Onwards
<1> QED BY <1>3, <1>4

\* The cron attaches the run it finds, or sends the create nobody has sent.
LEMMA Adopts ==
    ASSUME IInv, NEW g \in Gen, AdoptFound(g) \/ AdoptAbsent(g)
    PROVE  Kept
<1>1. /\ at["cron"][g] = "adopt" /\ g <= last /\ row[g] \in Attempt
      /\ (row[g].live => row[g].owner # "none") /\ "cron" \in Actor
      /\ Keeps /\ UNCHANGED <<run, made, will, pass>>
  <2>1. "cron" \in Actor
    BY DEF Actor
  <2> QED BY <2>1, Opened DEF AdoptFound, AdoptAbsent, IInv, TypeOK
<1>2. /\ give' \in [Gen -> {"no", "fallback", "release", "over"}] /\ left' \in Budget
      /\ UNCHANGED <<last, run, made, will, pass, app, world>>
  BY <1>1 DEF Keeps, IInv, TypeOK
<1>3. CASE /\ Stop("cron", g)
           /\ \/ UNCHANGED row
              \/ \E s : WithCreate(row[g], s) /\ Write(g, s) /\ g <= last
  BY <1>1, <1>2, <1>3, StepBack DEF Kept
<1>4. CASE /\ AdoptFound(g) /\ row[g].create # "not-sent"
           /\ Fenced("cron", row[g])
  <2> DEFINE s == [row[g] EXCEPT !.create = "known"]
  <2>1. made[g] = 1 /\ row[g].owner = "cron" /\ row[g].open
    BY <1>1, <1>4, Holding DEF AdoptFound, IInv, Good, Once, Fenced, Owns
  <2>2. /\ s \in Attempt /\ s.create = "known" /\ s.owner = row[g].owner
        /\ s.open = row[g].open /\ s.desired = row[g].desired
        /\ s.observed = row[g].observed /\ s.recovery = row[g].recovery
        /\ s.attempts = row[g].attempts /\ s.live = row[g].live
    BY <1>1 DEF Attempt
  <2>3. Write(g, s) /\ Goto("cron", g, "fetch") /\ "fetch" \in Steps
    BY <1>4 DEF AdoptFound, WriteIf, Write, Steps
  <2> HIDE DEF s
  <2>4. /\ TypeOK' /\ \A h \in Gen \ {g} : Untouched(h)
        /\ row'[g] = s /\ run'[g] = run[g] /\ made'[g] = made[g]
        /\ at'["cron"][g] = "fetch"
        /\ \A b \in Actor \ {"cron"} : at'[b][g] = at[b][g]
        /\ pub' = pub /\ last' = last /\ Blank(g)'
    BY <1>1, <2>2, <2>3, Forward
  <2>5. \A b \in Actor : will'[b][g] = will[b][g]
    BY <1>1
  <2>6. Once(g)'
    BY <1>1, <2>1, <2>2, <2>4 DEF IInv, Good, Once, Owns, Running, Actor
  <2>7. Leases(g)'
    BY <1>1, <2>1, <2>2, <2>4 DEF IInv, Good, Leases, Work, Actor
  <2>8. Runs(g)'
    BY <1>1, <2>1, <2>2, <2>4, <2>5 DEF IInv, Good, Runs, Running, Actor
  <2>9. Done(g)' /\ Green(g)' /\ Stands(g)
    BY <1>1, <2>1, <2>2, <2>4, <2>5
       DEF IInv, Good, Done, Green, Stands, Undecided, Actor
  <2> QED BY <2>4, <2>6, <2>7, <2>8, <2>9, Onwards
<1>5. CASE AdoptAbsent(g) /\ Goto("cron", g, "claimed") /\ UNCHANGED row
  <2>1. /\ TypeOK' /\ \A h \in Gen \ {g} : Untouched(h)
        /\ row'[g] = row[g] /\ run'[g] = run[g] /\ made'[g] = made[g]
        /\ at'["cron"][g] = "claimed"
        /\ \A b \in Actor \ {"cron"} : at'[b][g] = at[b][g]
        /\ \A b \in Actor : will'[b][g] = will[b][g]
        /\ pub' = pub /\ last' = last /\ Blank(g)'
    <3>1. "claimed" \in Steps
      BY DEF Steps
    <3> QED BY <1>1, <1>5, <3>1, Walk
  <2>2. Once(g)'
    BY <1>1, <2>1 DEF IInv, Good, Once, Owns, Running, Actor
  <2>3. Leases(g)' /\ Runs(g)'
    BY <1>1, <2>1 DEF IInv, Good, Leases, Runs, Work, Running, Actor
  <2>4. Done(g)' /\ Green(g)' /\ Stands(g)
    BY <1>1, <2>1 DEF IInv, Good, Done, Green, Stands, Undecided, Actor
  <2> QED BY <2>1, <2>2, <2>3, <2>4, Onwards
<1>6. CASE AdoptFound(g)
  <2>1. CASE row[g].create = "not-sent"
    <3>1. Stop("cron", g) /\ WriteIf(Fenced("cron", row[g]), g, Settled(row[g]))
      BY <1>6, <2>1 DEF AdoptFound
    <3> QED BY <1>1, <1>3, <3>1, WeakWrite DEF Fenced
  <2>2. CASE row[g].create # "not-sent" /\ ~Fenced("cron", row[g])
    BY <1>3, <1>6, <2>2 DEF AdoptFound, WriteIf, Stop
  <2> QED BY <1>4, <1>6, <2>1, <2>2
<1>7. CASE AdoptAbsent(g)
  <2>1. CASE row[g].create # "not-sent"
    <3>1. Stop("cron", g) /\ WriteIf(Fenced("cron", row[g]), g, Settled(row[g]))
      BY <1>7, <2>1 DEF AdoptAbsent
    <3> QED BY <1>1, <1>3, <3>1, WeakWrite DEF Fenced
  <2>2. CASE row[g].create = "not-sent" /\ pass.paused
    <3> DEFINE s == [Freed(row[g]) EXCEPT !.recovery = "held", !.next = "none"]
    <3>1. Stop("cron", g) /\ WriteIf(Fenced("cron", row[g]), g, s)
      BY <1>7, <2>2 DEF AdoptAbsent
    <3>2. WithCreate(row[g], s)
      BY <1>1, HeldRowType DEF Held, Suspended
    <3> QED BY <1>1, <1>3, <3>1, <3>2 DEF WriteIf, Write
  <2>3. CASE row[g].create = "not-sent" /\ ~pass.paused
    BY <1>5, <1>7, <2>3 DEF AdoptAbsent
  <2> QED BY <2>1, <2>2, <2>3
<1> QED BY <1>6, <1>7

\* The cron reads what the run shows.
LEMMA Fetches ==
    ASSUME IInv, NEW g \in Gen, Fetch(g)
    PROVE  Kept
<1>1. PICK step \in {"frozen", "answered"} :
         /\ Goto("cron", g, step)
         /\ step = "frozen" => run[g] = "open"
         /\ step = "answered" => run[g] = will["cron"][g]
  BY DEF Fetch
<1>2. /\ at["cron"][g] = "fetch" /\ "cron" \in Actor /\ step \in Steps
  BY DEF Fetch, Actor, Steps
<1>3. /\ TypeOK' /\ \A h \in Gen \ {g} : Untouched(h)
      /\ row'[g] = row[g] /\ run'[g] = run[g] /\ made'[g] = made[g]
      /\ at'["cron"][g] = step
      /\ \A b \in Actor \ {"cron"} : at'[b][g] = at[b][g]
      /\ \A b \in Actor : will'[b][g] = will[b][g]
      /\ pub' = pub /\ last' = last /\ Blank(g)'
  BY <1>1, <1>2, Walk DEF Fetch
<1>4. Once(g)'
  BY <1>1, <1>2, <1>3 DEF IInv, Good, Once, Owns, Running, Actor
<1>5. Leases(g)' /\ Runs(g)'
  BY <1>1, <1>2, <1>3 DEF IInv, Good, Leases, Runs, Work, Running, Actor
<1>6. Done(g)' /\ Green(g)' /\ Stands(g)
  BY <1>1, <1>2, <1>3 DEF IInv, Good, Done, Green, Stands, Undecided, Actor
<1> QED BY <1>3, <1>4, <1>5, <1>6, Onwards

\* An operator reopens an attempt: nobody holds it.
LEMMA Retries ==
    ASSUME IInv, NEW g \in Gen, Retry(g)
    PROVE  Kept
<1> DEFINE s == [Freed(row[g]) EXCEPT !.open = TRUE, !.recovery = "pending",
                                      !.attempts = 0, !.next = "none"]
<1>1. /\ g <= last /\ row[g].observed = "unknown" /\ row[g] \in Attempt
      /\ at["consumer"][g] # "updating" /\ "consumer" \in Actor
  BY DEF Retry, Quiet, IInv, TypeOK, Actor
<1>2. left' \in Budget
  BY SpendType DEF Retry, IInv, TypeOK
<1>3. /\ s \in Attempt /\ s.create = row[g].create /\ s.owner = "none"
      /\ s.desired = row[g].desired /\ s.observed = row[g].observed
      /\ s.recovery = "pending" /\ ~s.live
  <2>1. 0 \in 0..MaxAttempts /\ "pending" \in Waiting
    BY CheckAssumption DEF Waiting
  <2>2. s = [row[g] EXCEPT !.owner = "none", !.live = FALSE, !.open = TRUE,
                           !.recovery = "pending", !.attempts = 0, !.next = "none"]
    BY <1>1 DEF Freed
  <2> QED BY <1>1, <2>1, <2>2 DEF Attempt
<1>4. Write(g, s) /\ UNCHANGED <<last, run, made, at, will, give, pass, app, world>>
  BY DEF Retry
<1> HIDE DEF s
<1>5. TypeOK' /\ \A h \in Gen \ {g} : Untouched(h)
  BY <1>1, <1>2, <1>3, <1>4, OneAttempt
<1>6. /\ row'[g] = s /\ last' = last /\ pub' = pub
      /\ UNCHANGED <<run, made, at, will>>
  BY <1>3, <1>4, WriteType DEF IInv, TypeOK, world
<1>7. Blank(g)'
  BY <1>1, <1>6 DEF Blank, IInv, TypeOK, Gen
<1>8. Once(g)'
  BY <1>3, <1>6 DEF IInv, Good, Once, Owns, Actor
<1>9. Leases(g)' /\ Runs(g)'
  BY <1>3, <1>6 DEF IInv, Good, Leases, Runs
<1>10. Done(g)' /\ Green(g)' /\ Stands(g)
  BY <1>3, <1>6 DEF IInv, Good, Done, Green, Stands
<1> QED BY <1>5, <1>6, <1>7, <1>8, <1>9, <1>10, Onwards

\* A consumer opens the next attempt.
LEMMA Opens ==
    ASSUME IInv, Claim
    PROVE  Kept
<1>0. PICK g \in Gen : g = last + 1
  BY CheckAssumption DEF Claim, Gen, IInv, TypeOK
<1>1. /\ last \in Nat /\ last' = g /\ g > last
      /\ last' \in 0..MaxGen /\ left' \in Budget
  BY <1>0, SpendType, CheckAssumption DEF Claim, Gen, IInv, TypeOK
<1>2. /\ Write(g, Fresh) /\ Goto("consumer", g, "claimed")
      /\ UNCHANGED <<run, made, will, give, pass, app, world>>
  BY <1>0 DEF Claim
<1>3. /\ row[g] = Unused /\ run[g] = "none" /\ made[g] = 0
      /\ \A a \in Actor : at[a][g] = "idle"
  BY <1>1 DEF IInv, Good, Blank
<1>4. /\ Fresh \in Attempt /\ Fresh.open /\ Fresh.create = "not-sent"
      /\ Fresh.owner = "consumer" /\ Fresh.desired = "in_progress"
      /\ Fresh.recovery = "pending" /\ Fresh.attempts = 0 /\ Fresh.observed = "unknown"
      /\ Unused.desired = "in_progress"
      /\ "consumer" \in Actor /\ "claimed" \in Steps
  BY CheckAssumption DEF Fresh, Unused, Attempt, Actor, Waiting, Steps
<1>5. /\ row' \in [Gen -> Attempt] /\ row'[g] = Fresh
      /\ \A h \in Gen \ {g} : row'[h] = row[h]
  BY <1>1, <1>2, <1>4, WriteType DEF IInv, TypeOK
<1>6. /\ at' \in [Actor -> [Gen -> Steps]] /\ at'["consumer"][g] = "claimed"
      /\ \A b \in Actor, h \in Gen : b # "consumer" \/ h # g => at'[b][h] = at[b][h]
  BY <1>1, <1>2, <1>4, GotoType DEF IInv, TypeOK
<1>7. TypeOK' /\ \A h \in Gen \ {g} : Untouched(h)
  <2>1. \A h \in Gen : row'[h].live => row'[h].owner # "none"
    BY <1>4, <1>5 DEF IInv, TypeOK
  <2> QED BY <1>1, <1>2, <1>5, <1>6, <2>1 DEF IInv, TypeOK, Untouched, world
<1>8. Blank(g)'
  BY <1>1 DEF Blank
<1>9. at'["cron"][g] = "idle" /\ "cron" \in Actor
  BY <1>1, <1>3, <1>6 DEF Actor
<1>10. Once(g)'
  BY <1>2, <1>3, <1>4, <1>5, <1>6, <1>9 DEF Once, Running, Actor
<1>11. Leases(g)' /\ Runs(g)'
  BY <1>2, <1>3, <1>4, <1>5, <1>6, <1>9, CheckAssumption
     DEF Leases, Runs, Running, Work, Actor
<1>12. Done(g)' /\ Green(g)' /\ Stands(g)
  <2>1. \A a \in Actor : will'[a][g] = "success" => pub = "proven"
    BY <1>1, <1>2 DEF IInv, Good, Green
  <2> QED BY <1>2, <1>3, <1>4, <1>5, <2>1 DEF Done, Green, Stands, Verdict, world
<1>13. last <= last' /\ (pub = "proven" => pub' = "proven")
  BY <1>1, <1>2 DEF world
<1>14. Good(g)'
  BY <1>8, <1>10, <1>11, <1>12 DEF Good
<1> QED BY <1>1, <1>7, <1>12, <1>13, <1>14, Assemble DEF Kept

\* The publication moves on; a proof is never taken back.
LEMMA Publishes ==
    ASSUME IInv, Prove \/ \E g \in Gen : Stage(g)
    PROVE  Kept
<1>1. /\ UNCHANGED <<last, row, run, made, at, will, give, pass, app, left>>
      /\ pub' \in {"pending", "proven"} /\ written' = last /\ own' \subseteq Gen
      /\ pub # "proven"
  BY DEF Prove, Stage, IInv, TypeOK
<1>2. TypeOK'
  BY <1>1 DEF IInv, TypeOK
<1>3. \A h \in Gen : Untouched(h)
  BY <1>1 DEF Untouched
<1>4. last' \in Nat /\ last <= last'
  BY <1>1 DEF IInv, TypeOK
<1>5. \A h \in Gen : Good(h)' /\ Stands(h)
  BY <1>1, <1>3, <1>4, Elsewhere DEF IInv
<1> QED BY <1>2, <1>5 DEF IInv, Kept

-----------------------------------------------------------------------------
(* The invariant, and what follows from it.                                *)

\* The invariant holds initially ...
LEMMA InitIInv ==
    ASSUME Init
    PROVE  IInv
<1>1. Unused \in Attempt /\ ~Unused.live /\ ~Unused.open /\ Unused.owner = "none"
      /\ Unused.create = "not-sent" /\ Unused.desired = "in_progress"
      /\ Unused.recovery = "pending"
  <2>1. Fresh \in Attempt
    BY CheckAssumption DEF Fresh, Attempt, Actor, Waiting
  <2> QED BY <2>1 DEF Unused, Fresh, Attempt
<1>2. TypeOK
  BY <1>1, CheckAssumption DEF Init, TypeOK, Steps, Verdict
<1>3. ASSUME NEW g \in Gen PROVE Good(g)
  <2>1. /\ row[g] = Unused /\ run[g] = "none" /\ made[g] = 0
        /\ \A a \in Actor : at[a][g] = "idle" /\ will[a][g] = "failure"
    BY DEF Init
  <2>2. "consumer" \in Actor /\ "cron" \in Actor
    BY DEF Actor
  <2> QED BY <1>1, <2>1, <2>2
          DEF Good, Blank, Once, Leases, Runs, Done, Green, Owns, Running, Work
<1> QED BY <1>2, <1>3 DEF IInv

\* ... and is kept by every step, which undoes no conclusion.
LEMMA NextIInv ==
    ASSUME IInv, Next
    PROVE  Kept
<1>1. CASE Claim \/ Prove \/ Reenable \/ Switch \/ Rekey
  BY <1>1, Opens, Publishes, Reenabled, Switched, Rekeyed
<1>2. ASSUME NEW g \in Gen, NEW a \in Actor, Sends(a, g)
      PROVE  Kept
  BY <1>2, FailedRequests, Marks, SendsCreate, Undispatches, CreatesLand, Attaches,
     SendsUpdate, UpdatesLand, Observes DEF Sends
<1>3. ASSUME NEW g \in Gen, Consumer(g) PROVE Kept
  <2>1. "consumer" \in Actor
    BY DEF Actor
  <2> QED BY <1>2, <1>3, <2>1, Releases, Publishes, HandsOff, Concludes, Freezes
          DEF Consumer
<1>4. ASSUME NEW g \in Gen, Cron(g) PROVE Kept
  <2>1. "cron" \in Actor
    BY DEF Actor
  <2> QED BY <1>2, <1>4, <2>1, Passes, Claims, CronReleases, Decides, Adopts, Fetches
          DEF Cron
<1>5. ASSUME NEW g \in Gen,
             \/ GiveUp(g) \/ Abandon(g) \/ Time(g) \/ Retry(g)
             \/ \E a \in Actor : Die(a, g)
      PROVE  Kept
  <2>1. "consumer" \in Actor
    BY DEF Actor
  <2> QED BY <1>5, <2>1, GiveUps, FallsBack, Releases, TimePasses, Retries DEF Abandon
<1> QED BY <1>1, <1>3, <1>4, <1>5 DEF Next

\* The inductive invariant holds, for any number of attempts and any budget.
THEOREM CheckInvariant == Spec => []IInv
<1>1. Init => IInv
  BY InitIInv
<1>2. IInv /\ [Next]_vars => IInv'
  <2>1. IInv /\ Next => IInv'
    BY NextIInv DEF Kept
  <2>2. IInv /\ UNCHANGED vars => IInv'
    <3>1. ASSUME IInv, UNCHANGED vars PROVE IInv'
      <4>1. TypeOK'
        BY <3>1 DEF IInv, TypeOK, vars, world
      <4>2. \A h \in Gen : Untouched(h)
        BY <3>1 DEF vars, Untouched
      <4>3. last' \in Nat /\ last <= last' /\ pub' = pub
        BY <3>1 DEF IInv, TypeOK, vars, world
      <4>4. \A h \in Gen : Good(h)'
        BY <3>1, <4>2, <4>3, Elsewhere DEF IInv
      <4> QED BY <4>1, <4>4 DEF IInv
    <3> QED BY <3>1
  <2> QED BY <2>1, <2>2
<1> QED BY <1>1, <1>2, PTL DEF Spec

\* Every state has its types: the attempts of a row never pass the cap, and a
\* live lease has a holder.
THEOREM CheckTypes == Spec => []TypeOK
<1>1. IInv => TypeOK
  BY DEF IInv
<1> QED BY <1>1, CheckInvariant, PTL

\* However often answers are lost, leases end too soon, holders die or operators
\* retry, an attempt creates at most one Check Run.
THEOREM OneCheckPerAttempt == Spec => []OneRunPerAttempt
<1>1. IInv => OneRunPerAttempt
  BY DEF IInv, Good, Once, OneRunPerAttempt
<1> QED BY <1>1, CheckInvariant, PTL

\* An attempt recorded as done says what GitHub shows, and goes on doing so.
THEOREM DoneMeansShown == Spec => []DoneIsShown
<1>1. IInv => DoneIsShown
  BY DEF IInv, Good, Done, DoneIsShown
<1> QED BY <1>1, CheckInvariant, PTL

\* No attempt intends or shows a success whose publication is not proven.
THEOREM GreenMeansProven == Spec => []GreenIsEarned
<1>1. IInv => GreenIsEarned
  BY DEF IInv, Good, Green, GreenIsEarned
<1> QED BY <1>1, CheckInvariant, PTL

\* No step replaces what GitHub shows as concluded, or takes a frozen success
\* back, whichever of the three writers acts.
THEOREM NoConclusionIsUndone == Spec => ConclusionsStand
<1>1. IInv /\ [Next]_vars =>
        [\A g \in Gen :
           /\ run[g] \in Verdict => run'[g] = run[g]
           /\ row[g].desired = "success" => row'[g].desired = "success"]_vars
  BY NextIInv DEF Kept, Stands
<1> QED BY <1>1, CheckInvariant, PTL DEF Spec, ConclusionsStand

=============================================================================
