----------------------------- MODULE StoreProofs -----------------------------
(***************************************************************************)
(* Proofs about the lanes of MCStores.  A lane is proved as if it were     *)
(* alone; a behaviour of MCStores is one of each of its lanes, so that     *)
(* what is proved of a lane holds of MCStores.                             *)
(*                                                                         *)
(* Runner (U), HeadLane (H), Resolutions (R) and Findings (F) are proved   *)
(* here, for any values of their constants, each with an inductive         *)
(* invariant: RunInv, HeadInv, ResInv, FindInv.  Workspaces, AppConfig and *)
(* CommentClaims have proofs of their own, for any values too, which are   *)
(* taken over for the instances of MCStores.                               *)
(***************************************************************************)
EXTENDS MCStores, WorkspaceProofs, WellFoundedInduction, TLAPS

-----------------------------------------------------------------------------
(* Runner.                                                                 *)

\* Nothing runs before the dispatch, nothing but the recheck after the
\* judgement, and nothing at all after the last wait for it.
RunPhases ==
    /\ proc = "starting" => turn = "idle" /\ recheck = "none"
    /\ ~deep => turn = "idle"
    /\ proc # "reviewing" \/ deep => \A s \in Seat : seat[s] # "running"
    /\ proc = "reviewing" => IF deep THEN turn # "idle"
                                     ELSE \A s \in Seat : seat[s] # "idle"
    /\ proc \in {"reporting", "writing", "ended"} => recheck # "running"
    /\ proc = "ended" => exit # "none"

\* What has a cap ends before the guard, so that the guard finds only what
\* has none.
RunTimes ==
    /\ \A s \in Seat : seat[s] = "running" => now <= seatEnd /\ seatEnd < Guard
    /\ turn = "waiting" => now <= turnEnd /\ turnEnd < Guard
    /\ recheck = "running" => now <= recheckEnd /\ recheckEnd < Guard
    /\ exit = "124" => now = Guard /\ proc # "ended"
    /\ now = Guard => \/ proc \in {"starting", "ended"}
                      \/ proc = "reviewing" /\ turn = "prompting"

\* An envelope is drawn up by the judgement, of what does not change any more.
RunVerdict ==
    /\ out # "none" => /\ proc \notin {"starting", "reviewing", "failing"}
                       /\ deep => turn = "settled"
    /\ U!EnvelopeIsHonest

RunInv == U!TypeOK /\ RunPhases /\ RunTimes /\ RunVerdict

\* Every cap ends within the guard, and before it if there is time left.
LEMMA CapsEnd ==
    ASSUME U!Sane, U!TypeOK, now < Guard
    PROVE  /\ U!SeatCap \in Nat /\ now + U!SeatCap \in 0..Guard
           /\ U!Left(Tail) \in Nat /\ now + U!Left(Tail) \in 0..Guard
           /\ U!RecheckBudget \in Nat /\ now + U!RecheckBudget \in 0..Guard
           /\ now + U!SeatCap < Guard /\ now + U!Left(Tail) < Guard
           /\ now + U!RecheckBudget < Guard
<1>1. /\ now \in Nat /\ Guard \in Nat /\ Tail \in Nat \ {0} /\ Soft \in Nat
      /\ Floor \in Nat /\ Tail < Guard
  BY DEF U!Sane, U!TypeOK
<1>2. U!Left(Tail) \in Nat /\ now + U!Left(Tail) < Guard
  BY <1>1 DEF U!Left
<1>3. U!SeatCap \in Nat /\ U!SeatCap <= U!Left(Tail)
  BY <1>1, <1>2 DEF U!SeatCap, U!Least
<1>4. U!RecheckBudget \in Nat /\ U!RecheckBudget <= U!Left(Tail)
  BY <1>1, <1>2 DEF U!RecheckBudget, U!Least
<1> QED BY <1>1, <1>2, <1>3, <1>4

\* RunInv is inductive.
LEMMA RunInit == U!Sane /\ U!Init => RunInv
<1> SUFFICES ASSUME U!Sane, U!Init PROVE RunInv
  OBVIOUS
<1>1. 0 \in 0..Guard /\ 0 # Guard /\ Guard \in Nat
  BY DEF U!Sane
<1>2. U!TypeOK
  BY <1>1 DEF U!Init, U!TypeOK
<1>3. RunPhases /\ RunVerdict
  BY DEF U!Init, RunPhases, RunVerdict, U!EnvelopeIsHonest
<1>4. RunTimes
  BY <1>1 DEF U!Init, RunTimes
<1> QED BY <1>2, <1>3, <1>4 DEF RunInv

\* The dispatch.
LEMMA DispatchKeeps ==
    ASSUME U!Sane, RunInv, U!Dispatch, now < Guard
    PROVE  RunInv'
<1>1. now \in Nat /\ Guard \in Nat
  BY DEF RunInv, U!TypeOK, U!Sane
<1>2. /\ recheck' \in {"none", "skipped", "running"} /\ recheckEnd' \in 0..Guard
      /\ recheck' = "running" => now <= recheckEnd' /\ recheckEnd' < Guard
  BY <1>1, CapsEnd DEF U!Dispatch, U!StartRecheck, RunInv
<1>3. /\ seatEnd' \in 0..Guard
      /\ seat' \in [Seat -> {"idle", "running"} \cup U!Clean \cup U!Capped \cup U!Lost]
      /\ \A s \in Seat : seat'[s] = "running" => now <= seatEnd' /\ seatEnd' < Guard
  BY <1>1, CapsEnd DEF U!Dispatch, RunInv, U!TypeOK, RunPhases
<1>4. /\ turn' \in {"idle", "prompting"} /\ turn' = IF deep THEN "prompting" ELSE "idle"
      /\ IF deep THEN \A s \in Seat : seat'[s] # "running"
                 ELSE \A s \in Seat : seat'[s] # "idle"
  BY DEF U!Dispatch, RunInv, RunPhases
<1>5. proc' = "reviewing" /\ UNCHANGED <<now, deep, heard, turnEnd, hurried, out, exit>>
  BY DEF U!Dispatch
<1>6. U!TypeOK'
  BY <1>2, <1>3, <1>4, <1>5 DEF RunInv, U!TypeOK
<1>7. RunPhases'
  BY <1>4, <1>5 DEF RunPhases
<1>8. RunTimes'
  BY <1>1, <1>2, <1>3, <1>4, <1>5 DEF RunTimes, RunInv, U!Dispatch
<1>9. RunVerdict'
  <2>1. out = "none"
    BY DEF RunInv, RunVerdict, U!Dispatch
  <2> QED BY <1>5, <2>1 DEF RunVerdict, U!EnvelopeIsHonest
<1> QED BY <1>6, <1>7, <1>8, <1>9 DEF RunInv

\* A seat of a fan-out ends.
LEMMA SeatEndsKeeps ==
    ASSUME U!Sane, RunInv, NEW s \in Seat, U!SeatEnds(s)
    PROVE  RunInv'
<1>1. /\ seat[s] = "running" /\ proc = "reviewing" /\ ~deep /\ out = "none"
      /\ seat' \in [Seat -> {"idle", "running"} \cup U!Clean \cup U!Capped \cup U!Lost]
      /\ \A t \in Seat : /\ seat'[t] = "running" => seat[t] = "running"
                         /\ seat'[t] = "idle" => seat[t] = "idle"
  BY DEF RunInv, U!TypeOK, RunPhases, RunVerdict, U!SeatEnds, U!Clean, U!Capped, U!Lost
<1>2. UNCHANGED <<now, deep, proc, seatEnd, turn, heard, turnEnd, recheck,
                  recheckEnd, hurried, out, exit>>
  BY DEF U!SeatEnds, U!main, U!side
<1>3. U!TypeOK'
  BY <1>1, <1>2 DEF RunInv, U!TypeOK
<1>4. RunPhases' /\ RunTimes'
  BY <1>1, <1>2 DEF RunInv, RunPhases, RunTimes
<1>5. RunVerdict'
  BY <1>1, <1>2 DEF RunVerdict, U!EnvelopeIsHonest
<1> QED BY <1>3, <1>4, <1>5 DEF RunInv

\* The judgement of a wave: it has settled, and the envelope tells its seats.
LEMMA JudgeKeeps ==
    ASSUME U!Sane, RunInv, U!Judge, now < Guard
    PROVE  RunInv'
<1> DEFINE fatal == /\ \E s \in Seat : seat[s] \in U!Usable
                    /\ \E s \in Seat : seat[s] \in U!Lost
<1>1. /\ proc = "reviewing" /\ ~deep /\ \A s \in Seat : seat[s] # "running"
      /\ UNCHANGED <<now, deep, seat, seatEnd, turn, heard, turnEnd, recheck,
                     recheckEnd, exit>>
  BY DEF U!Judge, U!WaveSettled, U!main
<1>2. /\ proc' = IF fatal THEN "failing" ELSE "rechecking"
      /\ out' = IF fatal THEN "none"
                ELSE IF U!Stopped = {} THEN "clean" ELSE "incomplete"
      /\ hurried' \in BOOLEAN
  BY DEF U!Judge, U!Hurry
<1> HIDE DEF fatal
<1>3. U!TypeOK'
  BY <1>1, <1>2 DEF RunInv, U!TypeOK
<1>4. RunPhases' /\ RunTimes'
  BY <1>1, <1>2 DEF RunInv, RunPhases, RunTimes, U!TypeOK, U!Sane
<1>5. U!EnvelopeIsHonest'
  <2>1. \A s \in Seat : seat[s] \in U!Clean \cup U!Capped \cup U!Lost
    BY <1>1 DEF RunInv, U!TypeOK, RunPhases
  <2>2. CASE out' = "clean"
    BY <1>1, <1>2, <2>1, <2>2 DEF U!EnvelopeIsHonest, U!Stopped
  <2>3. CASE out' = "incomplete"
    <3>1. ~fatal
      BY <1>2, <2>3
    <3> QED BY <1>1, <2>1, <2>3, <3>1 DEF fatal, U!EnvelopeIsHonest
  <2>4. CASE out' \notin {"clean", "incomplete"}
    BY <2>4 DEF U!EnvelopeIsHonest
  <2> QED BY <2>2, <2>3, <2>4
<1>6. RunVerdict'
  BY <1>1, <1>2, <1>5 DEF RunVerdict
<1> QED BY <1>3, <1>4, <1>6 DEF RunInv

\* The parent turn of a deep review: what it says, how it returns, and how the
\* wait for it ends.
LEMMA TurnKeeps ==
    ASSUME U!Sane, RunInv, U!Hears \/ U!PromptSettles \/ U!WaitEnds, now < Guard
    PROVE  RunInv'
<1>1. now \in Nat /\ Guard \in Nat
  BY DEF RunInv, U!TypeOK, U!Sane
<1>2. UNCHANGED <<now, deep, proc, seat, seatEnd, recheck, recheckEnd, hurried, out, exit>>
  BY DEF U!Hears, U!PromptSettles, U!WaitEnds, U!side
<1>3. heard' \in [parked : BOOLEAN, ended : BOOLEAN, yield : {"none", "good", "bad"}]
  BY DEF RunInv, U!TypeOK, U!Hears, U!PromptSettles, U!WaitEnds
<1>4. /\ turnEnd' \in 0..Guard /\ turn' \in {"idle", "prompting", "waiting", "settled"}
      /\ turn' = "waiting" => now <= turnEnd' /\ turnEnd' < Guard
      /\ turn # "idle" => turn' # "idle"
      /\ turn # "settled" \/ UNCHANGED <<turn, heard>>
  BY <1>1, CapsEnd DEF RunInv, U!TypeOK, RunTimes, U!Hears, U!Listening,
                       U!PromptSettles, U!WaitEnds
<1>5. U!TypeOK'
  BY <1>2, <1>3, <1>4 DEF RunInv, U!TypeOK
<1>6. RunPhases'
  <2>1. proc # "starting" /\ deep
    BY DEF RunInv, RunPhases, U!Hears, U!Listening, U!PromptSettles, U!WaitEnds
  <2> QED BY <1>2, <1>4, <2>1 DEF RunInv, RunPhases
<1>7. RunTimes'
  BY <1>1, <1>2, <1>4 DEF RunInv, RunTimes
<1>8. RunVerdict'
  BY <1>2, <1>4 DEF RunInv, RunVerdict, U!EnvelopeIsHonest
<1> QED BY <1>5, <1>6, <1>7, <1>8 DEF RunInv

\* The judgement of a parent turn.
LEMMA JudgeTurnKeeps ==
    ASSUME U!Sane, RunInv, U!JudgeTurn, now < Guard
    PROVE  RunInv'
<1>1. /\ proc = "reviewing" /\ turn = "settled" /\ now \in Nat /\ Guard \in Nat
      /\ UNCHANGED <<now, deep, seat, seatEnd, turn, heard, turnEnd, recheck,
                     recheckEnd, exit>>
  BY DEF U!JudgeTurn, U!main, RunInv, U!TypeOK, U!Sane
<1>2. /\ proc' \in {"failing", "rechecking"} /\ out' \in {"none", "clean", "incomplete"}
      /\ hurried' \in BOOLEAN
      /\ proc' = "failing" => out' = "none"
      /\ out' = "clean" => heard.yield = "good"
      /\ out' = "incomplete" => heard.yield = "none" /\ heard.ended
  BY DEF U!JudgeTurn, U!Hurry, RunInv, U!TypeOK
<1>3. deep
  BY <1>1 DEF RunInv, RunPhases
<1>4. U!TypeOK'
  BY <1>1, <1>2 DEF RunInv, U!TypeOK
<1>5. RunPhases' /\ RunTimes'
  BY <1>1, <1>2, <1>3 DEF RunInv, RunPhases, RunTimes
<1>6. RunVerdict'
  BY <1>1, <1>2, <1>3 DEF RunVerdict, U!EnvelopeIsHonest
<1> QED BY <1>4, <1>5, <1>6 DEF RunInv

\* The recheck ends, the review fails, and what comes after the judgement.
LEMMA AfterwardsKeeps ==
    ASSUME U!Sane, RunInv, now < Guard,
           \/ U!StartFails \/ U!RecheckEnds \/ U!Fail
           \/ U!StartReport \/ U!ReportEnds \/ U!Write
    PROVE  RunInv'
<1>1. /\ now \in Nat /\ Guard \in Nat
      /\ UNCHANGED <<now, deep, seat, seatEnd, turn, heard, turnEnd, recheckEnd, hurried>>
  BY DEF U!StartFails, U!RecheckEnds, U!Fail, U!StartReport, U!ReportEnds, U!Write,
         U!main, U!side, RunInv, U!TypeOK, U!Sane
<1>2. recheck' # "running" \/ UNCHANGED recheck
  BY DEF U!StartFails, U!RecheckEnds, U!Fail, U!StartReport, U!ReportEnds, U!Write, U!side
<1>3. out' = "none" \/ UNCHANGED out
  BY DEF U!StartFails, U!RecheckEnds, U!Fail, U!StartReport, U!ReportEnds, U!Write
<1>4. U!TypeOK'
  BY <1>1, <1>3 DEF RunInv, U!TypeOK, U!StartFails, U!RecheckEnds, U!Fail,
                    U!StartReport, U!ReportEnds, U!Write, U!side
<1>5. RunPhases'
  BY <1>1, <1>2 DEF RunInv, RunPhases, U!StartFails, U!RecheckEnds, U!Fail,
                    U!StartReport, U!ReportEnds, U!Write, U!side
<1>6. RunTimes'
  BY <1>1, <1>2 DEF RunInv, RunTimes, U!StartFails, U!RecheckEnds, U!Fail,
                    U!StartReport, U!ReportEnds, U!Write, U!side
<1>7. RunVerdict'
  BY <1>1, <1>3 DEF RunInv, RunVerdict, U!EnvelopeIsHonest, U!StartFails, U!RecheckEnds,
                    U!Fail, U!StartReport, U!ReportEnds, U!Write
<1> QED BY <1>4, <1>5, <1>6, <1>7 DEF RunInv

\* Time passes: the guard's hour comes only for what has no cap of its own.
LEMMA TickKeeps ==
    ASSUME U!Sane, RunInv, U!Tick
    PROVE  RunInv'
<1>1. /\ now \in Nat /\ Guard \in Nat /\ Margin \in Nat \ {0}
      /\ now < Guard /\ now' = now + 1
      /\ seatEnd \in Nat /\ turnEnd \in Nat /\ recheckEnd \in Nat
      /\ UNCHANGED <<deep, proc, seat, seatEnd, turn, heard, turnEnd, recheck,
                     recheckEnd, hurried, out, exit>>
  BY DEF U!Tick, U!main, U!side, RunInv, U!TypeOK, U!Sane
<1>2. U!TypeOK'
  BY <1>1 DEF RunInv, U!TypeOK
<1>3. RunPhases' /\ RunVerdict'
  BY <1>1 DEF RunInv, RunPhases, RunVerdict, U!EnvelopeIsHonest
<1>4. /\ \A s \in Seat : seat[s] = "running" => now' <= seatEnd
      /\ turn = "waiting" => now' <= turnEnd
      /\ recheck = "running" => now' <= recheckEnd
  BY <1>1 DEF U!Tick, U!MayPass
<1>5. now' = Guard => proc = "starting" \/ (proc = "reviewing" /\ turn = "prompting")
  <2> SUFFICES ASSUME now' = Guard
               PROVE  proc = "starting" \/ (proc = "reviewing" /\ turn = "prompting")
    OBVIOUS
  <2>1. /\ \A s \in Seat : seat[s] # "running"
        /\ turn # "waiting" /\ recheck # "running"
    BY <1>1, <1>4 DEF RunInv, RunTimes
  <2>2. proc # "reporting"
    BY <1>1 DEF U!Tick, U!MayPass, U!Left
  <2>3. proc \in {"starting", "reviewing"}
    BY <2>1, <2>2 DEF U!Tick, U!MayPass
  <2>4. proc = "reviewing" => deep /\ turn # "settled"
    BY <2>1 DEF U!Tick, U!MayPass, U!WaveSettled
  <2> QED BY <2>1, <2>3, <2>4 DEF RunInv, U!TypeOK, RunPhases
<1>6. exit # "124"
  BY <1>1 DEF RunInv, RunTimes
<1>7. RunTimes'
  BY <1>1, <1>4, <1>5, <1>6 DEF RunInv, RunTimes
<1> QED BY <1>2, <1>3, <1>7 DEF RunInv

\* The guard that kills leaves what the process knew.
LEMMA KillKeeps == ASSUME U!Sane, RunInv, U!Kill PROVE RunInv'
<1>1. /\ now = Guard /\ exit' = "124" /\ out' = "none" /\ exit = "none"
      /\ UNCHANGED <<now, deep, proc, seat, seatEnd, turn, heard, turnEnd, recheck,
                     recheckEnd, hurried>>
  BY DEF U!Kill, U!main, U!side
<1> QED BY <1>1 DEF RunInv, U!TypeOK, RunPhases, RunTimes, RunVerdict, U!EnvelopeIsHonest

\* Every step of a run keeps RunInv.
LEMMA RunNext == U!Sane /\ RunInv /\ [U!Next]_uvars => RunInv'
<1> SUFFICES ASSUME U!Sane, RunInv, [U!Next]_uvars PROVE RunInv'
  OBVIOUS
<1>1. CASE UNCHANGED uvars
  BY <1>1 DEF uvars, RunInv, U!TypeOK, RunPhases, RunTimes, RunVerdict, U!EnvelopeIsHonest
<1> QED
  BY <1>1, DispatchKeeps, SeatEndsKeeps, JudgeKeeps, TurnKeeps, JudgeTurnKeeps,
     AfterwardsKeeps, TickKeeps, KillKeeps DEF U!Next

\* Every behaviour of MCStores is one of its lane of runs.
LEMMA RunsAlone == LanesSpec => U!Init /\ [][U!Next]_uvars
<1>1. LanesInit => U!Init
  BY DEF LanesInit
<1>2. [LanesNext]_allvars => [U!Next]_uvars
  BY DEF LanesNext, allvars, uvars
<1> QED BY <1>1, <1>2, PTL DEF LanesSpec

LEMMA RunInvHolds == LanesSpec => []RunInv
<1>1. U!Sane
  BY LanesAreSane
<1> QED BY <1>1, RunsAlone, RunInit, RunNext, PTL

\* The types of a run hold for any seats, guard, clocks, tails and floor.
THEOREM RunType == LanesSpec => []U!TypeOK
<1>1. RunInv => U!TypeOK
  BY DEF RunInv
<1> QED BY <1>1, RunInvHolds, PTL

\* What the envelope says of its seats, or of its parent turn, is true:
\* whichever seats are capped, fail or vanish, and whenever.
THEOREM EnvelopeIsHonestHolds == LanesSpec => []EnvelopeIsHonest
<1>1. RunInv => EnvelopeIsHonest
  BY DEF RunInv, RunVerdict, EnvelopeIsHonest
<1> QED BY <1>1, RunInvHolds, PTL

\* For any budgets whose tail and margin are not zero and fit under the guard,
\* the guard kills no process that has a review to print.
THEOREM GuardKillsNoReviewHolds == LanesSpec => []GuardKillsNoReview
<1>1. RunInv => GuardKillsNoReview
  BY DEF RunInv, RunTimes, RunPhases, GuardKillsNoReview, U!GuardKillsNoReview
<1> QED BY <1>1, RunInvHolds, PTL

\* Nothing runs in the sessions that are disposed.
THEOREM TeardownIsLastHolds == LanesSpec => []TeardownIsLast
<1>1. RunInv => TeardownIsLast
  BY DEF RunInv, RunPhases, TeardownIsLast, U!TeardownIsLast
<1> QED BY <1>1, RunInvHolds, PTL

-----------------------------------------------------------------------------
(* HeadLane.                                                               *)

\* Before the first delivery the row is not there.
HeadLedger ==
    /\ arrived = {} => ledger = [state |-> "none", seen |-> 0, sha |-> NoSha, at |-> 0]
    /\ H!LedgerIsNewest

\* A claim that is proof of a job has one behind it.
HeadProofs == \A s \in Sha : kvc[s] \in H!Proof => \E d \in H!Sent : ShaOf[d] = s

\* Another commit is newer than the job's own.
HeadNewer(e, s) ==
    /\ s # ShaOf[e]
    /\ \E b \in Event : StampOf[b] > StampOf[e] /\ ShaOf[b] = s

\* A job that looks for proof has seen a newer commit, one that is superseded
\* a newer commit with a job.
HeadJobs ==
    /\ \A e \in Event : deliv[e] = "stamp" => job[e] # "none"
    /\ \A e \in Event : job[e] = "proof" => HeadNewer(e, saw[e])
    /\ \A e \in Event : outcome[e] = "superseded" =>
                          \E d \in H!Sent : HeadNewer(e, ShaOf[d])

\* One of the jobs that were sent is for the newest delivery.
HeadLast ==
    H!Sent # {} => \E e \in H!Sent : \A d \in H!Sent : StampOf[d] <= StampOf[e]

HeadInv == H!TypeOK /\ HeadLedger /\ HeadProofs /\ HeadJobs /\ HeadLast

\* HeadInv is inductive.
LEMMA HeadInit == H!Sane /\ H!Init => HeadInv
<1> SUFFICES ASSUME H!Sane, H!Init PROVE HeadInv
  OBVIOUS
<1>1. H!TypeOK
  BY DEF H!Sane, H!Init, H!TypeOK, H!Claims, H!Proof, H!Abandon
<1>2. HeadLedger
  BY DEF H!Init, HeadLedger, H!LedgerIsNewest
<1>3. HeadProofs /\ HeadJobs /\ HeadLast
  BY DEF H!Init, HeadProofs, HeadJobs, HeadLast, H!Sent, H!Proof
<1> QED BY <1>1, <1>2, <1>3 DEF HeadInv

\* A failure is counted at most once.
LEMMA HeadFaults ==
    ASSUME H!Sane, H!TypeOK, H!Fault \/ UNCHANGED hfaults
    PROVE  hfaults' \in 0..MaxFaults
BY DEF H!Sane, H!TypeOK, H!Fault

\* The types, of the webhook's steps and of the job's.
LEMMA HeadWebhookType ==
    ASSUME H!Sane, H!TypeOK, NEW e \in Event,
           \/ H!Deliver(e) \/ H!PreCheck(e) \/ H!Send(e) \/ H!SendFails(e) \/ H!Stamp(e)
    PROVE  H!TypeOK'
<1>1. hfaults' \in 0..MaxFaults
  BY HeadFaults DEF H!Deliver, H!PreCheck, H!Send, H!SendFails, H!Stamp
<1>2. ledger' \in [state : {"none", "open", "closed", "merged"}, seen : Nat,
                   sha : Sha \cup {NoSha}, at : Nat]
  BY DEF H!Sane, H!TypeOK, H!Deliver, H!Upsert, H!PreCheck, H!Send, H!SendFails, H!Stamp
<1>3. kvc' \in [Sha -> H!Claims]
  BY DEF H!TypeOK, H!Deliver, H!PreCheck, H!Send, H!SendFails, H!Stamp, H!Claims, H!Proof
<1>4. /\ deliv' \in [Event -> {"due", "check", "send", "stamp", "ended"}]
      /\ arrived' \subseteq Event
      /\ job' \in [Event -> {"none", "queued", "proof", "running", "abandon",
                             "put", "acked"}]
      /\ \A d \in Event : job'[d] \in {"abandon", "put"} => job[d] \in {"abandon", "put"}
  BY DEF H!TypeOK, H!Deliver, H!PreCheck, H!Send, H!SendFails, H!Stamp, H!Hook, H!Job
<1>5. UNCHANGED <<saw, outcome, reviewed>>
  BY DEF H!Deliver, H!PreCheck, H!Send, H!SendFails, H!Stamp
<1> QED BY <1>1, <1>2, <1>3, <1>4, <1>5 DEF H!TypeOK

\* The steps of a job keep the types.
LEMMA HeadJobType ==
    ASSUME H!Sane, H!TypeOK, NEW e \in Event,
           \/ H!Paused(e) \/ H!ReadLedger(e) \/ H!ReadProof(e) \/ H!Review(e)
           \/ H!Loses(e) \/ H!AbandonRead(e) \/ H!AbandonPut(e)
    PROVE  H!TypeOK'
<1>1. hfaults' \in 0..MaxFaults
  BY HeadFaults DEF H!Paused, H!ReadLedger, H!ReadProof, H!Review, H!Loses,
                    H!AbandonRead, H!AbandonPut
<1>2. UNCHANGED <<ledger, deliv, arrived>>
  BY DEF H!Paused, H!ReadLedger, H!ReadProof, H!Review, H!Loses, H!AbandonRead, H!AbandonPut
<1>3. kvc' \in [Sha -> H!Claims]
  BY DEF H!TypeOK, H!Paused, H!ReadLedger, H!ReadProof, H!Review, H!Loses, H!AbandonRead,
         H!AbandonPut, H!Claims, H!Proof
<1>4. /\ saw' \in [Event -> Sha \cup {NoSha}] /\ reviewed' \subseteq Sha
      /\ outcome' \in [Event -> {"none", "reviewed", "known"} \cup H!Abandon]
      /\ job' \in [Event -> {"none", "queued", "proof", "running", "abandon",
                             "put", "acked"}]
  BY DEF H!Sane, H!TypeOK, H!Paused, H!ReadLedger, H!ReadProof, H!Review, H!Loses,
         H!AbandonRead, H!AbandonPut, H!GivesUp, H!Job, H!Abandon
<1>5. ASSUME NEW d \in Event, job'[d] \in {"abandon", "put"}
      PROVE  outcome'[d] \in H!Abandon
  BY <1>5 DEF H!TypeOK, H!Paused, H!ReadLedger, H!ReadProof, H!Review, H!Loses,
              H!AbandonRead, H!AbandonPut, H!GivesUp, H!Job, H!Abandon
<1> QED BY <1>1, <1>2, <1>3, <1>4, <1>5 DEF H!TypeOK

\* A claim that lapses is well typed and no proof.
LEMMA LapseKeeps == ASSUME H!Sane, HeadInv, NEW s \in Sha, H!Lapse(s) PROVE HeadInv'
<1>1. /\ kvc' = [kvc EXCEPT ![s] = "none"]
      /\ UNCHANGED <<ledger, deliv, job, saw, outcome, reviewed, arrived, hfaults>>
  BY DEF H!Lapse
<1>2. H!TypeOK'
  BY <1>1 DEF HeadInv, H!TypeOK, H!Claims
<1>3. HeadProofs'
  BY <1>1 DEF HeadInv, HeadProofs, H!TypeOK, H!Proof, H!Sent
<1>4. HeadLedger' /\ HeadJobs' /\ HeadLast'
  BY <1>1 DEF HeadInv, HeadLedger, H!LedgerIsNewest, H!Newest, HeadJobs, HeadLast, H!Sent
<1> QED BY <1>2, <1>3, <1>4 DEF HeadInv

\* The upsert keeps the row of the newest delivery, whichever arrives.
LEMMA UpsertKeeps ==
    ASSUME H!Sane, HeadInv, NEW e \in Event,
           ledger' = H!Upsert(e, ledger), arrived' = arrived \cup {e}
    PROVE  HeadLedger'
<1>1. /\ StampOf \in [Event -> Nat \ {0}] /\ arrived \subseteq Event
      /\ ledger \in [state : {"none", "open", "closed", "merged"}, seen : Nat,
                     sha : Sha \cup {NoSha}, at : Nat]
  BY DEF HeadInv, H!TypeOK, H!Sane
<1>2. /\ ledger'.state = IF ledger.state = "merged" \/ StampOf[e] < ledger.seen
                         THEN ledger.state ELSE StateOf[e]
      /\ ledger'.seen = IF StampOf[e] < ledger.seen THEN ledger.seen ELSE StampOf[e]
      /\ ledger'.sha = IF StampOf[e] >= ledger.at THEN ShaOf[e] ELSE ledger.sha
      /\ ledger'.at = IF StampOf[e] >= ledger.at THEN StampOf[e] ELSE ledger.at
  BY DEF H!Upsert
<1> DEFINE RowOf(n) ==
      /\ \A d \in arrived' : StampOf[d] <= StampOf[n]
      /\ ledger'.seen = StampOf[n] /\ ledger'.at = StampOf[n]
      /\ ledger'.sha = ShaOf[n]
      /\ \/ ledger'.state = StateOf[n]
         \/ ledger'.state = "merged" /\ \E d \in arrived' : StateOf[d] = "merged"
<1>3. CASE arrived = {}
  <2>1. ledger = [state |-> "none", seen |-> 0, sha |-> NoSha, at |-> 0]
    BY <1>3 DEF HeadInv, HeadLedger
  <2>2. arrived' = {e}
    BY <1>3
  <2> QED BY <1>1, <1>2, <2>1, <2>2 DEF HeadLedger, H!LedgerIsNewest, H!Newest
<1>4. CASE arrived # {}
  <2>1. PICK n \in arrived :
          /\ \A d \in arrived : StampOf[d] <= StampOf[n]
          /\ ledger.seen = StampOf[n] /\ ledger.at = StampOf[n]
          /\ ledger.sha = ShaOf[n]
          /\ \/ ledger.state = StateOf[n]
             \/ ledger.state = "merged" /\ \E d \in arrived : StateOf[d] = "merged"
    BY <1>4 DEF HeadInv, HeadLedger, H!LedgerIsNewest, H!Newest
  <2>2. n \in Event /\ StampOf[n] \in Nat /\ StampOf[e] \in Nat
    BY <1>1
  <2>3. CASE StampOf[e] < StampOf[n]
    <3>1. RowOf(n)
      BY <1>1, <1>2, <2>1, <2>2, <2>3
    <3> QED BY <2>1, <3>1 DEF HeadLedger, H!LedgerIsNewest, H!Newest
  <2>4. CASE ~(StampOf[e] < StampOf[n])
    <3>1. \A d \in arrived' : StampOf[d] <= StampOf[e]
      BY <1>1, <2>1, <2>2, <2>4
    <3>2. RowOf(e)
      BY <1>1, <1>2, <2>1, <2>2, <2>4, <3>1
    <3> QED BY <3>2 DEF HeadLedger, H!LedgerIsNewest, H!Newest
  <2> QED BY <2>3, <2>4
<1> QED BY <1>3, <1>4

\* Each part of HeadInv is preserved: the ledger, the newest job, the jobs.
LEMMA HeadLedgerNext == H!Sane /\ HeadInv /\ [H!Next]_hvars => HeadLedger'
<1> SUFFICES ASSUME H!Sane, HeadInv, [H!Next]_hvars PROVE HeadLedger'
  OBVIOUS
<1>1. \/ UNCHANGED <<ledger, arrived>>
      \/ \E e \in Event : ledger' = H!Upsert(e, ledger) /\ arrived' = arrived \cup {e}
  BY DEF hvars, H!Next, H!Deliver, H!PreCheck, H!Send, H!SendFails, H!Stamp, H!Paused,
         H!ReadLedger, H!ReadProof, H!Review, H!Loses, H!AbandonRead, H!AbandonPut, H!Lapse
<1>2. CASE UNCHANGED <<ledger, arrived>>
  BY <1>2 DEF HeadInv, HeadLedger, H!LedgerIsNewest, H!Newest
<1> QED BY <1>1, <1>2, UpsertKeeps

\* Jobs are sent one at a time and stay sent.
LEMMA SentGrows ==
    ASSUME HeadInv, [H!Next]_hvars
    PROVE  \/ H!Sent' = H!Sent
           \/ \E e \in Event : H!Sent' = H!Sent \cup {e}
<1>1. ASSUME NEW e \in Event, NEW where \in {"queued", "proof", "running", "abandon", "put", "acked"},
             H!Job(e, where)
      PROVE  H!Sent' = H!Sent \cup {e}
  BY <1>1 DEF HeadInv, H!TypeOK, H!Job, H!Sent
<1>2. \/ UNCHANGED job
      \/ \E e \in Event, where \in {"queued", "proof", "running", "abandon", "put", "acked"} :
           H!Job(e, where)
  BY DEF hvars, H!Next, H!Deliver, H!PreCheck, H!Send, H!SendFails, H!Stamp, H!Paused,
         H!ReadLedger, H!ReadProof, H!Review, H!Loses, H!AbandonRead, H!AbandonPut, H!Lapse,
         H!GivesUp
<1>3. UNCHANGED job => H!Sent' = H!Sent
  BY DEF H!Sent
<1> QED BY <1>1, <1>2, <1>3

LEMMA HeadLastNext == H!Sane /\ HeadInv /\ [H!Next]_hvars => HeadLast'
<1> SUFFICES ASSUME H!Sane, HeadInv, [H!Next]_hvars PROVE HeadLast'
  OBVIOUS
<1>1. \A d \in Event : StampOf[d] \in Nat
  BY DEF H!Sane
<1>2. CASE H!Sent' = H!Sent
  BY <1>2 DEF HeadInv, HeadLast
<1>3. ASSUME NEW e \in Event, H!Sent' = H!Sent \cup {e} PROVE HeadLast'
  <2>1. CASE H!Sent = {}
    BY <1>1, <1>3, <2>1 DEF HeadLast
  <2>2. ASSUME NEW m \in H!Sent, \A d \in H!Sent : StampOf[d] <= StampOf[m]
        PROVE  HeadLast'
    <3>1. m \in Event /\ H!Sent \subseteq Event
      BY DEF H!Sent
    <3>2. CASE StampOf[e] <= StampOf[m]
      BY <1>1, <1>3, <2>2, <3>1, <3>2 DEF HeadLast
    <3>3. CASE StampOf[m] <= StampOf[e]
      <4>1. \A d \in H!Sent \cup {e} : StampOf[d] <= StampOf[e]
        BY <1>1, <2>2, <3>1, <3>3
      <4> QED BY <1>3, <4>1 DEF HeadLast
    <3> QED BY <1>1, <3>1, <3>2, <3>3
  <2> QED BY <2>1, <2>2 DEF HeadInv, HeadLast
<1> QED BY <1>2, <1>3, SentGrows

\* Only a job stamps or reviews its commit.
LEMMA HeadProofsNext == H!Sane /\ HeadInv /\ [H!Next]_hvars => HeadProofs'
<1> SUFFICES ASSUME H!Sane, HeadInv, [H!Next]_hvars PROVE HeadProofs'
  OBVIOUS
<1>1. H!Sent \subseteq H!Sent'
  BY SentGrows
<1>2. ASSUME NEW s \in Sha, kvc'[s] \in H!Proof, kvc'[s] # kvc[s]
      PROVE  \E d \in H!Sent : ShaOf[d] = s
  <2>1. ASSUME NEW e \in Event, H!Stamp(e) PROVE ShaOf[e] = s /\ e \in H!Sent
    BY <1>2, <2>1 DEF HeadInv, H!TypeOK, H!Sane, HeadJobs, H!Stamp, H!Sent
  <2>2. ASSUME NEW e \in Event, H!Review(e) PROVE ShaOf[e] = s /\ e \in H!Sent
    BY <1>2, <2>2 DEF HeadInv, H!TypeOK, H!Sane, H!Review, H!Sent
  <2>3. ASSUME NEW e \in Event, H!AbandonPut(e) PROVE FALSE
    BY <1>2, <2>3 DEF HeadInv, H!TypeOK, H!Sane, H!AbandonPut, H!Abandon, H!Proof
  <2>4. ASSUME NEW c \in Sha, H!Lapse(c) PROVE FALSE
    BY <1>2, <2>4 DEF HeadInv, H!TypeOK, H!Lapse, H!Proof
  <2>5. \/ \E e \in Event : H!Stamp(e) \/ H!Review(e) \/ H!AbandonPut(e)
        \/ \E c \in Sha : H!Lapse(c)
    BY <1>2 DEF hvars, H!Next, H!Deliver, H!PreCheck, H!Send, H!SendFails, H!Paused,
                H!ReadLedger, H!ReadProof, H!Loses, H!AbandonRead
  <2> QED BY <2>1, <2>2, <2>3, <2>4, <2>5
<1>3. ASSUME NEW s \in Sha, kvc'[s] \in H!Proof PROVE \E d \in H!Sent' : ShaOf[d] = s
  BY <1>1, <1>2, <1>3 DEF HeadInv, HeadProofs
<1> QED BY <1>3 DEF HeadProofs

\* What the ledger shows a job that it has overtaken is a newer commit.
LEMMA OvertakenByNewer ==
    ASSUME H!Sane, HeadInv, NEW e \in Event, H!Overtaken(e)
    PROVE  HeadNewer(e, ledger.sha)
<1>1. StampOf[e] \in Nat /\ ledger.at > StampOf[e] /\ ledger.sha # ShaOf[e]
  BY DEF H!Sane, H!Overtaken
<1>2. arrived # {}
  BY <1>1 DEF HeadInv, HeadLedger
<1>3. PICK b \in arrived : ledger.at = StampOf[b] /\ ledger.sha = ShaOf[b]
  BY <1>2 DEF HeadInv, HeadLedger, H!LedgerIsNewest, H!Newest
<1> QED BY <1>1, <1>3 DEF HeadInv, H!TypeOK, HeadNewer

LEMMA HeadJobsNext == H!Sane /\ HeadInv /\ [H!Next]_hvars => HeadJobs'
<1> SUFFICES ASSUME H!Sane, HeadInv, [H!Next]_hvars PROVE HeadJobs'
  OBVIOUS
<1>1. H!Sent \subseteq H!Sent'
  BY SentGrows
<1>2. ASSUME NEW e \in Event, deliv'[e] = "stamp" PROVE job'[e] # "none"
  <2>1. CASE deliv[e] = "stamp"
    BY <1>1, <2>1 DEF HeadInv, HeadJobs, H!Sent
  <2>2. CASE deliv[e] # "stamp"
    <3>1. H!Send(e)
      BY <1>2, <2>2 DEF hvars, HeadInv, H!TypeOK, H!Next, H!Deliver, H!PreCheck, H!Send,
           H!SendFails, H!Stamp, H!Hook, H!Paused, H!ReadLedger, H!ReadProof, H!Review,
           H!Loses, H!AbandonRead, H!AbandonPut, H!Lapse
    <3> QED BY <3>1 DEF HeadInv, H!TypeOK, H!Send, H!Job
  <2> QED BY <2>1, <2>2
<1>3. ASSUME NEW e \in Event, job'[e] = "proof" PROVE HeadNewer(e, saw'[e])
  <2>1. CASE H!ReadLedger(e)
    <3>1. H!Overtaken(e) /\ saw'[e] = ledger.sha
      BY <1>3, <2>1 DEF HeadInv, H!TypeOK, H!ReadLedger, H!Job
    <3> QED BY <3>1, OvertakenByNewer
  <2>2. CASE ~H!ReadLedger(e)
    <3>1. job[e] = "proof" /\ saw'[e] = saw[e]
      BY <1>3, <2>2 DEF hvars, HeadInv, H!TypeOK, H!Next, H!Deliver, H!PreCheck, H!Send,
           H!SendFails, H!Stamp, H!Job, H!GivesUp, H!Paused, H!ReadLedger, H!ReadProof,
           H!Review, H!Loses, H!AbandonRead, H!AbandonPut, H!Lapse
    <3> QED BY <3>1 DEF HeadInv, HeadJobs
  <2> QED BY <2>1, <2>2
<1>4. ASSUME NEW e \in Event, outcome'[e] = "superseded"
      PROVE  \E d \in H!Sent' : HeadNewer(e, ShaOf[d])
  <2>1. CASE outcome[e] = "superseded"
    BY <1>1, <2>1 DEF HeadInv, HeadJobs
  <2>2. CASE outcome[e] # "superseded"
    <3>1. H!ReadProof(e) /\ H!HasJob(e)
      BY <1>4, <2>2 DEF hvars, HeadInv, H!TypeOK, H!Next, H!Deliver, H!PreCheck, H!Send,
           H!SendFails, H!Stamp, H!GivesUp, H!Paused, H!ReadLedger, H!ReadProof,
           H!Review, H!Loses, H!AbandonRead, H!AbandonPut, H!Lapse
    <3>2. HeadNewer(e, saw[e]) /\ saw[e] \in Sha
      BY <3>1 DEF HeadInv, HeadJobs, H!ReadProof, HeadNewer, H!Sane
    <3>3. PICK d \in H!Sent : ShaOf[d] = saw[e]
      BY <3>1, <3>2 DEF HeadInv, HeadProofs, H!HasJob
    <3> QED BY <1>1, <3>2, <3>3
  <2> QED BY <2>1, <2>2
<1> QED BY <1>2, <1>3, <1>4 DEF HeadJobs, HeadNewer

LEMMA HeadNext == H!Sane /\ HeadInv /\ [H!Next]_hvars => HeadInv'
<1> SUFFICES ASSUME H!Sane, HeadInv, [H!Next]_hvars PROVE HeadInv'
  OBVIOUS
<1>1. H!TypeOK'
  <2>1. CASE UNCHANGED hvars
    BY <2>1 DEF hvars, HeadInv, H!TypeOK
  <2> QED BY <2>1, HeadWebhookType, HeadJobType, LapseKeeps DEF HeadInv, H!Next
<1> QED BY <1>1, HeadLedgerNext, HeadProofsNext, HeadJobsNext, HeadLastNext DEF HeadInv

\* Every behaviour of MCStores is one of its lane of heads.
LEMMA HeadsAlone == LanesSpec => H!Init /\ [][H!Next]_hvars
<1>1. LanesInit => H!Init
  BY DEF LanesInit
<1>2. [LanesNext]_allvars => [H!Next]_hvars
  BY DEF LanesNext, allvars, hvars
<1> QED BY <1>1, <1>2, PTL DEF LanesSpec

LEMMA HeadInvHolds == LanesSpec => []HeadInv
<1>1. H!Sane
  BY LanesAreSane
<1> QED BY <1>1, HeadsAlone, HeadInit, HeadNext, PTL

\* The types of the head's lane hold for any deliveries, commits and faults.
THEOREM HeadType == LanesSpec => []H!TypeOK
<1>1. HeadInv => H!TypeOK
  BY DEF HeadInv
<1> QED BY <1>1, HeadInvHolds, PTL

\* The ledger's row is that of the newest delivery, in whatever order and
\* however often the deliveries arrive.
THEOREM LedgerIsNewestHolds == LanesSpec => []LedgerIsNewest
<1>1. HeadInv => LedgerIsNewest
  BY DEF HeadInv, HeadLedger, LedgerIsNewest
<1> QED BY <1>1, HeadInvHolds, PTL

\* The newest job that was sent is overtaken by no commit that has a job, as
\* long as no push brings back a commit.
LEMMA NewestIsNotSkipped == H!Sane /\ HeadInv => OneIsNotSkipped
<1> SUFFICES ASSUME H!Sane, HeadInv, H!Sent # {}, ~H!HeadCameBack,
                    \A e \in H!Sent : outcome[e] = "superseded"
             PROVE  FALSE
  BY DEF OneIsNotSkipped, H!OneIsNotSkipped
<1>1. PICK e \in H!Sent : \A d \in H!Sent : StampOf[d] <= StampOf[e]
  BY DEF HeadInv, HeadLast
<1>2. e \in Event /\ H!Sent \subseteq Event
  BY DEF H!Sent
<1>3. PICK d \in H!Sent : HeadNewer(e, ShaOf[d])
  BY <1>2 DEF HeadInv, HeadJobs
<1>4. PICK b \in Event : StampOf[b] > StampOf[e] /\ ShaOf[b] = ShaOf[d]
  BY <1>3 DEF HeadNewer
<1>5. StampOf[d] \in Nat /\ StampOf[e] \in Nat /\ StampOf[b] \in Nat
  BY <1>2 DEF H!Sane
<1>6. StampOf[d] < StampOf[b] /\ StampOf[e] \in StampOf[d]..StampOf[b]
  BY <1>1, <1>4, <1>5
<1>7. ShaOf[e] # ShaOf[d]
  BY <1>3 DEF HeadNewer
<1> QED BY <1>2, <1>4, <1>6, <1>7 DEF H!HeadCameBack

\* Jobs never skip each other away, for any deliveries, commits and faults.
THEOREM OneIsNotSkippedHolds == LanesSpec => []OneIsNotSkipped
<1>1. H!Sane
  BY LanesAreSane
<1> QED BY <1>1, NewestIsNotSkipped, HeadInvHolds, PTL

-----------------------------------------------------------------------------
(* Resolutions.                                                            *)

\* The rows of review_threads, each with a lease that has a holder.
States == R!Queued \cup R!Suspended \cup {"needs-recheck", "local-error", "resolved",
                                          "abandoned"}

AnyRow == [state : States, verified : BOOLEAN, verdict : R!Verdict,
           owner : R!Actor \cup {"dead", "none"}, live : BOOLEAN,
           attempts : 0..MaxAttempts, later : BOOLEAN, superseded : BOOLEAN,
           late : BOOLEAN]

ResRows == {r \in AnyRow : r.live => r.owner # "none"}

\* No verdict has seen more than was said.  The cron's is the row's or an
\* older one; the consumer's is the row's or about to become it.
ResVerdicts ==
    /\ \A a \in R!Actor : carry[a].talk <= talk
    /\ row.verdict.talk <= talk /\ thread.at <= talk
    /\ carry["cron"].talk <= row.verdict.talk
    /\ IF rat["consumer"] \in {"reviewing", "enqueue"}
       THEN row.verdict.talk <= carry["consumer"].talk
       ELSE rat["consumer"] # "idle" => carry["consumer"].talk <= row.verdict.talk

\* What is to be recorded as resolved is resolved, and no thread is resolved
\* twice; an adopted one was resolved within what its verdict has seen.
ResThreads ==
    /\ row.state = "resolved" => thread.resolved
    /\ \A a \in R!Actor : rat[a] \in {"mutated", "adopt"} => thread.resolved
    /\ \A a \in R!Actor : rat[a] = "adopt" => thread.at <= carry[a].talk

ResInv == R!TypeOK /\ ResVerdicts /\ ResThreads /\ R!LateChangeIsTold

LEMMA RowsAreRows ==
    R!TypeOK <=>
      /\ row \in ResRows
      /\ addressed \in BOOLEAN
      /\ thread \in [resolved : BOOLEAN, ours : BOOLEAN, at : 0..MaxTalk]
      /\ talk \in 0..MaxTalk /\ issue \in 0..MaxIssue
      /\ rat \in [R!Actor -> {"idle", "reviewing", "enqueue", "claim", "claimed",
                              "capture", "issue", "adopt", "ready", "mutating",
                              "mutated", "needs-recheck", "failed"}]
      /\ carry \in [R!Actor -> R!Verdict]
      /\ spent \in 0..MaxAttempts
      /\ reviews \in 0..MaxReviews /\ rfaults \in 0..MaxFaults
BY DEF R!TypeOK, ResRows, AnyRow, States

\* What is talked about is counted in naturals.
LEMMA TalkType ==
    ASSUME R!Sane, R!TypeOK
    PROVE  /\ talk \in Nat /\ issue \in Nat /\ thread.at \in Nat
           /\ row.verdict \in R!Verdict /\ row.verdict.talk \in Nat
           /\ \A a \in R!Actor : carry[a] \in R!Verdict /\ carry[a].talk \in Nat
<1>1. \A v \in R!Verdict : v.talk \in Nat
  BY DEF R!Sane, R!Verdict
<1> QED BY <1>1 DEF R!Sane, R!TypeOK

\* A row that is freed, released or given its outcome is a row with the same
\* verdict.
LEMMA RowWrites ==
    ASSUME R!TypeOK, NEW a \in R!Actor, NEW s \in States, NEW l \in BOOLEAN
    PROVE  /\ R!Freed(row) \in ResRows /\ R!Freed(row).verdict = row.verdict
           /\ R!Freed(row).state = row.state /\ R!Freed(row).late = row.late
           /\ [R!Freed(row) EXCEPT !.state = s, !.late = l, !.later = FALSE] \in ResRows
           /\ R!Released(a) \in {row, R!Freed(row)}
           /\ \/ R!Persisted(a, s, l) = row
              \/ /\ R!Persisted(a, s, l) \in ResRows
                 /\ R!Persisted(a, s, l).verdict = row.verdict
                 /\ R!Persisted(a, s, l).state = s
                 /\ R!Persisted(a, s, l).late = l
<1>1. row \in AnyRow
  BY RowsAreRows DEF ResRows
<1>2. PICK freed : freed = R!Freed(row)
  OBVIOUS
<1>3. /\ freed \in AnyRow /\ freed.live = FALSE /\ freed.verdict = row.verdict
      /\ freed.state = row.state /\ freed.late = row.late
  BY <1>1, <1>2 DEF R!Freed, AnyRow
<1>4. PICK g : g = [freed EXCEPT !.state = s, !.late = l, !.later = FALSE]
  OBVIOUS
<1>5. /\ g \in AnyRow /\ g.live = FALSE /\ g.verdict = freed.verdict
      /\ g.state = s /\ g.late = l
  BY <1>3, <1>4 DEF AnyRow
<1>6. R!Persisted(a, s, l) \in {row, g} /\ R!Released(a) \in {row, freed}
  BY <1>2, <1>4 DEF R!Persisted, R!Released
<1> QED BY <1>2, <1>3, <1>4, <1>5, <1>6 DEF ResRows

\* ResInv holds at the beginning.
LEMMA ResInit == R!Sane /\ R!Init => ResInv
<1> SUFFICES ASSUME R!Sane, R!Init PROVE ResInv
  OBVIOUS
<1>1. R!Zero \in R!Verdict /\ R!Zero.talk = 0
  BY DEF R!Sane, R!Zero, R!Verdict
<1>2. row \in ResRows
  BY <1>1 DEF R!Sane, R!Init, ResRows, AnyRow, States, R!Queued
<1>3. /\ addressed \in BOOLEAN
      /\ thread \in [resolved : BOOLEAN, ours : BOOLEAN, at : 0..MaxTalk]
      /\ talk \in 0..MaxTalk /\ issue \in 0..MaxIssue
      /\ carry \in [R!Actor -> R!Verdict]
      /\ spent \in 0..MaxAttempts
      /\ reviews \in 0..MaxReviews /\ rfaults \in 0..MaxFaults
  <2>1. /\ 0 \in 0..MaxTalk /\ 0 \in 0..MaxIssue /\ 0 \in 0..MaxAttempts
        /\ 0 \in 0..MaxReviews /\ 0 \in 0..MaxFaults
    BY DEF R!Sane
  <2>2. thread \in [resolved : BOOLEAN, ours : BOOLEAN, at : 0..MaxTalk]
    BY <2>1 DEF R!Init
  <2>3. carry \in [R!Actor -> R!Verdict]
    BY <1>1 DEF R!Init
  <2> QED BY <2>1, <2>2, <2>3 DEF R!Init
<1>4. R!TypeOK
  BY <1>2, <1>3, RowsAreRows DEF R!Init
<1>5. ResVerdicts /\ ResThreads /\ R!LateChangeIsTold
  BY <1>1 DEF R!Init, ResVerdicts, ResThreads, R!LateChangeIsTold, R!Actor
<1> QED BY <1>4, <1>5 DEF ResInv

\* The faults are bounded.
LEMMA ResFaults ==
    ASSUME R!Sane, R!TypeOK, R!Fault \/ UNCHANGED rfaults
    PROVE  rfaults' \in 0..MaxFaults
BY DEF R!Sane, R!TypeOK, R!Fault

\* Where the actors stand, as far as it matters who has which verdict.
Before == {"reviewing", "enqueue"}

\* A step that captures no verdict and stores none, and resolves the thread at
\* most once: what it records as resolved was resolved within its verdict or
\* says that it was not.
LEMMA RowMoves ==
    ASSUME R!Sane, ResInv, UNCHANGED <<talk, carry>>, row'.verdict = row.verdict,
           \/ thread' = thread
           \/ ~thread.resolved /\ thread'.resolved /\ thread'.at = talk,
           row'.state = "resolved" =>
             \/ row.state = "resolved" /\ row'.late = row.late
             \/ /\ thread.resolved
                /\ row'.late \/ thread.at <= row.verdict.talk,
           \A b \in R!Actor :
             rat'[b] = rat[b] \/
               /\ rat'[b] \in {"mutated", "adopt"} => thread'.resolved
               /\ rat'[b] = "adopt" => thread.resolved /\ thread.at <= carry[b].talk,
           \/ rat'["consumer"] \in {"idle", rat["consumer"]}
           \/ /\ rat["consumer"] # "idle"
              /\ rat'["consumer"] \in Before <=> rat["consumer"] \in Before
    PROVE  ResVerdicts' /\ ResThreads' /\ R!LateChangeIsTold'
<1>1. thread'.at <= talk
  BY TalkType DEF ResInv, ResVerdicts
<1>2. ResVerdicts'
  BY <1>1 DEF ResInv, ResVerdicts, Before
<1>3. ResThreads'
  BY DEF ResInv, ResThreads
<1>4. R!LateChangeIsTold'
  BY DEF ResInv, ResThreads, R!LateChangeIsTold
<1> QED BY <1>2, <1>3, <1>4

\* The type of the state after a step of an actor, whatever it does to the row.
LEMMA ActorType ==
    ASSUME R!Sane, R!TypeOK, row' \in ResRows, addressed' \in BOOLEAN,
           thread' = thread \/ R!Resolve, UNCHANGED <<talk, issue>>,
           NEW a \in R!Actor,
           NEW w \in {"idle", "reviewing", "enqueue", "claim", "claimed", "capture",
                      "issue", "adopt", "ready", "mutating", "mutated",
                      "needs-recheck", "failed"},
           rat' = [rat EXCEPT ![a] = w], carry' \in [R!Actor -> R!Verdict],
           spent' \in 0..MaxAttempts, reviews' \in 0..MaxReviews,
           R!Fault \/ UNCHANGED rfaults
    PROVE  R!TypeOK'
<1>1. rfaults' \in 0..MaxFaults
  BY ResFaults
<1>2. thread' \in [resolved : BOOLEAN, ours : BOOLEAN, at : 0..MaxTalk]
  <2>1. talk \in 0..MaxTalk
    BY DEF R!TypeOK
  <2>2. [resolved |-> TRUE, ours |-> TRUE, at |-> talk]
          \in [resolved : BOOLEAN, ours : BOOLEAN, at : 0..MaxTalk]
    BY <2>1
  <2>3. thread' \in {thread, [resolved |-> TRUE, ours |-> TRUE, at |-> talk]}
    BY DEF R!Resolve
  <2> QED BY <2>2, <2>3 DEF R!TypeOK
<1>3. rat' \in [R!Actor -> {"idle", "reviewing", "enqueue", "claim", "claimed",
                           "capture", "issue", "adopt", "ready", "mutating",
                           "mutated", "needs-recheck", "failed"}]
  BY DEF R!TypeOK
<1>4. talk' \in 0..MaxTalk /\ issue' \in 0..MaxIssue
  BY DEF R!TypeOK
<1> QED BY <1>1, <1>2, <1>3, <1>4 DEF R!TypeOK, ResRows, AnyRow, States

Stands == {"idle", "reviewing", "enqueue", "claim", "claimed", "capture", "issue",
           "adopt", "ready", "mutating", "mutated", "needs-recheck", "failed"}

\* The verdict of an actor that tries the row is not newer than the row's.
LEMMA TriesTheRows ==
    ASSUME R!Sane, ResInv, NEW a \in R!Actor, rat[a] \notin Before \cup {"idle"}
    PROVE  carry[a].talk <= row.verdict.talk
BY DEF ResInv, ResVerdicts, Before, R!Actor

\* A step of one actor that captures no verdict and stores none.
LEMMA ActorMoves ==
    ASSUME R!Sane, ResInv, NEW a \in R!Actor, NEW w \in Stands,
           rat[a] # "idle", w = "idle" \/ (w \in Before <=> rat[a] \in Before),
           rat' = [rat EXCEPT ![a] = w],
           addressed' \in BOOLEAN, UNCHANGED <<talk, issue, carry, spent, reviews>>,
           R!Fault \/ UNCHANGED rfaults,
           row' \in ResRows, row'.verdict = row.verdict,
           thread' = thread \/ R!Resolve,
           row'.state = "resolved" =>
             \/ row.state = "resolved" /\ row'.late = row.late
             \/ /\ thread.resolved
                /\ row'.late \/ thread.at <= row.verdict.talk,
           w \in {"mutated", "adopt"} => thread'.resolved,
           w = "adopt" => thread.resolved /\ thread.at <= carry[a].talk
    PROVE  ResInv'
<1>1. R!TypeOK'
  <2>1. carry' \in [R!Actor -> R!Verdict] /\ spent' \in 0..MaxAttempts
        /\ reviews' \in 0..MaxReviews
    BY DEF ResInv, R!TypeOK
  <2>2. w \in {"idle", "reviewing", "enqueue", "claim", "claimed", "capture",
               "issue", "adopt", "ready", "mutating", "mutated", "needs-recheck",
               "failed"}
    BY DEF Stands
  <2> QED BY <2>1, <2>2, ActorType DEF ResInv
<1>2. \/ thread' = thread
      \/ ~thread.resolved /\ thread'.resolved /\ thread'.at = talk
  BY DEF R!Resolve
<1>3. rat \in [R!Actor -> Stands]
  BY DEF ResInv, R!TypeOK, Stands
<1>4. \A b \in R!Actor :
        rat'[b] = rat[b] \/
          /\ rat'[b] \in {"mutated", "adopt"} => thread'.resolved
          /\ rat'[b] = "adopt" => thread.resolved /\ thread.at <= carry[b].talk
  BY <1>3
<1>5. \/ rat'["consumer"] \in {"idle", rat["consumer"]}
      \/ /\ rat["consumer"] # "idle"
         /\ rat'["consumer"] \in Before <=> rat["consumer"] \in Before
  BY <1>3 DEF R!Actor
<1>6. ResVerdicts' /\ ResThreads' /\ R!LateChangeIsTold'
  BY <1>2, <1>4, <1>5, RowMoves
<1> QED BY <1>1, <1>6 DEF ResInv

\* The claim takes a row that waits and is free.
LEMMA ResClaim ==
    ASSUME R!Sane, ResInv, NEW a \in R!Actor, R!Claim(a) PROVE ResInv'
<1>1. PICK w \in Stands : rat' = [rat EXCEPT ![a] = w] /\ w \notin Before
                          /\ w \notin {"mutated", "adopt"}
  BY DEF R!Claim, R!Goto, R!Answers, Stands, Before
<1>2. row' \in ResRows /\ row'.verdict = row.verdict
      /\ row'.state = row.state /\ row'.late = row.late
  <2>1. row \in AnyRow /\ row \in ResRows
    BY RowsAreRows DEF ResInv, ResRows
  <2>2. row.attempts \in 0..MaxAttempts /\ MaxAttempts \in Nat
    BY <2>1 DEF AnyRow, R!Sane
  <2>3. PICK n : n = IF row.attempts < MaxAttempts THEN row.attempts + 1 ELSE row.attempts
    OBVIOUS
  <2>4. n \in 0..MaxAttempts
    BY <2>2, <2>3
  <2>5. PICK r : r = [row EXCEPT !.owner = a, !.live = TRUE, !.attempts = n]
    OBVIOUS
  <2>6. row' \in {row, r}
    BY <2>3, <2>5 DEF R!Claim
  <2>7. a # "none"
    BY DEF R!Actor
  <2>8. r \in AnyRow /\ r.owner # "none" /\ r.verdict = row.verdict
        /\ r.state = row.state /\ r.late = row.late
    BY <2>1, <2>4, <2>5, <2>7 DEF AnyRow
  <2> QED BY <2>1, <2>6, <2>8 DEF ResRows
<1>3. rat[a] = "claim" /\ addressed' \in BOOLEAN /\ thread' = thread
      /\ UNCHANGED <<talk, issue, carry, spent, reviews, rfaults>>
  BY DEF R!Claim, R!people, ResInv, R!TypeOK
<1> QED BY <1>1, <1>2, <1>3, ActorMoves DEF Before

\* What an attempt that ends writes: nothing, a free row or its outcome.
LEMMA ResGivesUp ==
    ASSUME R!Sane, ResInv, NEW a \in R!Actor, NEW w \in Stands,
           rat[a] \notin Before \cup {"idle"},
           w \notin Before \cup {"mutated", "adopt"}, rat' = [rat EXCEPT ![a] = w],
           NEW s \in States, NEW l \in BOOLEAN,
           row' \in {row, R!Released(a), R!Persisted(a, s, l)},
           s = "resolved" => /\ thread.resolved
                             /\ l \/ thread.at <= row.verdict.talk,
           thread' = thread \/ R!Resolve,
           UNCHANGED <<addressed, talk, issue, carry, spent, reviews>>,
           R!Fault \/ UNCHANGED rfaults
    PROVE  ResInv'
<1>1. row \in ResRows
  BY RowsAreRows DEF ResInv
<1>2. /\ R!Freed(row) \in ResRows /\ R!Freed(row).verdict = row.verdict
      /\ R!Freed(row).state = row.state /\ R!Freed(row).late = row.late
      /\ R!Released(a) \in {row, R!Freed(row)}
      /\ \/ R!Persisted(a, s, l) = row
         \/ /\ R!Persisted(a, s, l) \in ResRows
            /\ R!Persisted(a, s, l).verdict = row.verdict
            /\ R!Persisted(a, s, l).state = s
            /\ R!Persisted(a, s, l).late = l
  <2>1. R!TypeOK
    BY DEF ResInv
  <2> QED BY ONLY <2>1, a \in R!Actor, s \in States, l \in BOOLEAN, RowWrites, Zenon
<1>3. /\ row' \in ResRows /\ row'.verdict = row.verdict
      /\ \/ row'.state = row.state /\ row'.late = row.late
         \/ row'.state = s /\ row'.late = l
  <2>1. CASE row' = row
    BY <1>1, <2>1
  <2>2. CASE row' = R!Freed(row)
    BY <1>2, <2>2
  <2>3. CASE row' = R!Persisted(a, s, l) /\ row' # row
    BY <1>2, <2>3
  <2> QED BY <1>2, <2>1, <2>2, <2>3
<1>4. row'.state = "resolved" =>
        \/ row.state = "resolved" /\ row'.late = row.late
        \/ thread.resolved /\ (row'.late \/ thread.at <= row.verdict.talk)
  BY <1>3
<1>5. addressed' \in BOOLEAN
  BY DEF ResInv, R!TypeOK
<1>6. w \notin {"mutated", "adopt"} /\ rat[a] # "idle"
      /\ (w \in Before <=> rat[a] \in Before)
  OBVIOUS
<1> QED BY <1>3, <1>4, <1>5, <1>6, ActorMoves

\* An actor that goes on has written nothing.
LEMMA ResGoesOn ==
    ASSUME R!Sane, ResInv, NEW a \in R!Actor, NEW w \in Stands,
           rat[a] \notin Before \cup {"idle"}, w \notin Before,
           rat' = [rat EXCEPT ![a] = w], thread' = thread \/ R!Resolve,
           w \in {"mutated", "adopt"} => thread'.resolved,
           w = "adopt" => thread.resolved /\ thread.at <= carry[a].talk,
           UNCHANGED <<row, addressed, talk, issue, carry, spent, reviews>>,
           R!Fault \/ UNCHANGED rfaults
    PROVE  ResInv'
<1>1. row' \in ResRows /\ row'.verdict = row.verdict /\ row'.state = row.state
      /\ row'.late = row.late
  BY RowsAreRows DEF ResInv
<1>2. addressed' \in BOOLEAN
  BY DEF ResInv, R!TypeOK
<1> QED BY <1>1, <1>2, ActorMoves

\* The fences: superseded, addressed, the thread's talk, the pull request's.
LEMMA ResFences ==
    ASSUME R!Sane, ResInv, NEW a \in R!Actor,
           R!Reload(a) \/ R!Capture(a) \/ R!CheckIssue(a) \/ R!Recheck(a)
    PROVE  ResInv'
<1> DEFINE Away == IF a = "cron" THEN "needs-recheck" ELSE "idle"
           Lost == IF a = "cron" THEN "failed" ELSE "idle"
<1>1. Away \in Stands /\ Lost \in Stands /\ {"capture", "issue", "adopt", "ready",
        "mutating", "idle"} \subseteq Stands
  BY DEF Stands
<1>2. /\ Away \notin Before \cup {"mutated", "adopt"}
      /\ Lost \notin Before \cup {"mutated", "adopt"}
      /\ "idle" \notin Before \cup {"mutated", "adopt"}
      /\ {"capture", "issue", "adopt", "ready", "mutating"} \cap Before = {}
  BY DEF Before
<1>3. {"abandoned", "resolved"} \subseteq States /\ FALSE \in BOOLEAN
  BY DEF States
<1> HIDE DEF Away, Lost
<1>4. CASE R!Reload(a)
  <2>1. rat[a] \notin Before \cup {"idle"}
        /\ UNCHANGED <<addressed, thread, talk, issue, carry, spent, reviews, rfaults>>
    BY <1>4 DEF R!Reload, R!people, Before
  <2>2. CASE row' = R!Persisted(a, "abandoned", FALSE) /\ R!Goto(a, "idle")
    BY <1>1, <1>2, <1>3, <2>1, <2>2, ResGivesUp DEF R!Goto
  <2>3. CASE row' = R!Released(a) /\ R!Answers(a, "needs-recheck")
    <3>1. rat' = [rat EXCEPT ![a] = Away]
      BY <2>3 DEF R!Answers, R!Goto, Away
    <3> QED BY <1>1, <1>2, <1>3, <2>1, <2>3, <3>1, ResGivesUp
  <2>4. CASE UNCHANGED row /\ R!Goto(a, "capture")
    BY <1>1, <1>2, <2>1, <2>4, ResGoesOn DEF R!Goto
  <2> QED BY <1>4, <2>2, <2>3, <2>4 DEF R!Reload
<1>5. CASE R!Capture(a)
  <2>1. rat[a] \notin Before \cup {"idle"}
        /\ UNCHANGED <<addressed, thread, talk, issue, carry, spent, reviews, rfaults>>
    BY <1>5 DEF R!Capture, R!people, Before
  <2>2. CASE talk # carry[a].talk
    <3>1. row' = R!Released(a) /\ rat' = [rat EXCEPT ![a] = Away]
      BY <1>5, <2>2 DEF R!Capture, R!Answers, R!Goto, Away
    <3> QED BY <1>1, <1>2, <1>3, <2>1, <3>1, ResGivesUp
  <2>3. CASE talk = carry[a].talk
    <3>1. PICK w \in {"issue", "adopt"} :
            /\ row' = row /\ rat' = [rat EXCEPT ![a] = w]
            /\ w = "adopt" => thread.resolved
      BY <1>5, <2>3 DEF R!Capture, R!Goto
    <3>2. thread.at <= carry[a].talk
      BY <2>3 DEF ResInv, ResVerdicts
    <3>3. w \in Stands /\ w \notin Before /\ (w \in {"mutated", "adopt"} => thread'.resolved)
      BY <1>1, <1>2, <2>1, <3>1
    <3> QED BY <2>1, <3>1, <3>2, <3>3, ResGoesOn
  <2> QED BY <2>2, <2>3
<1>6. CASE R!CheckIssue(a)
  <2>1. rat[a] \notin Before \cup {"idle"}
        /\ UNCHANGED <<addressed, thread, talk, issue, carry, spent, reviews, rfaults>>
    BY <1>6 DEF R!CheckIssue, R!people, Before
  <2>2. CASE issue # carry[a].issue
    <3>1. row' = R!Released(a) /\ rat' = [rat EXCEPT ![a] = Away]
      BY <1>6, <2>2 DEF R!CheckIssue, R!Answers, R!Goto, Away
    <3> QED BY <1>1, <1>2, <1>3, <2>1, <3>1, ResGivesUp
  <2>3. CASE issue = carry[a].issue /\ rat[a] = "adopt"
    <3>1. row' = R!Persisted(a, "resolved", FALSE) /\ rat' = [rat EXCEPT ![a] = "idle"]
      BY <1>6, <2>3 DEF R!CheckIssue, R!Goto
    <3>2. thread.resolved /\ thread.at <= carry[a].talk
      BY <2>3 DEF ResInv, ResThreads
    <3>3. thread.at <= row.verdict.talk
      BY <2>1, <3>2, TriesTheRows, TalkType DEF ResInv
    <3> QED BY <1>1, <1>2, <1>3, <2>1, <3>1, <3>2, <3>3, ResGivesUp
  <2>4. CASE issue = carry[a].issue /\ rat[a] # "adopt"
    <3>1. row' = row /\ rat' = [rat EXCEPT ![a] = "ready"]
      BY <1>6, <2>4 DEF R!CheckIssue, R!Goto
    <3>2. "ready" \in Stands /\ "ready" \notin Before
      BY DEF Stands, Before
    <3> QED BY <2>1, <3>1, <3>2, ResGoesOn
  <2> QED BY <2>2, <2>3, <2>4
<1>7. CASE R!Recheck(a)
  <2>1. rat[a] \notin Before \cup {"idle"}
        /\ UNCHANGED <<row, addressed, thread, talk, issue, carry, spent, reviews, rfaults>>
    BY <1>7 DEF R!Recheck, R!people, Before
  <2>2. PICK w \in {"mutating", Lost} : rat' = [rat EXCEPT ![a] = w]
    BY <1>7 DEF R!Recheck, R!Answers, R!Goto, Lost
  <2>3. w \in Stands /\ w \notin Before /\ w \notin {"mutated", "adopt"}
    BY <1>1, <1>2, <2>2
  <2> QED BY <2>1, <2>2, <2>3, ResGoesOn
<1> QED BY <1>4, <1>5, <1>6, <1>7

\* The mutation, what it finds afterwards, and what fails or ends an attempt.
LEMMA ResMutates ==
    ASSUME R!Sane, ResInv, NEW a \in R!Actor,
           \/ R!Mutate(a) \/ R!Fails(a) \/ R!Foreign(a) \/ R!Observe(a)
           \/ R!Incomplete(a)
    PROVE  ResInv'
<1> DEFINE Lost == IF a = "cron" THEN "failed" ELSE "idle"
           Away == IF a = "cron" THEN "needs-recheck" ELSE "idle"
<1>1. /\ {Away, Lost, "idle", "mutated"} \subseteq Stands
      /\ {Away, Lost, "idle"} \cap (Before \cup {"mutated", "adopt"}) = {}
      /\ "mutated" \notin Before
  BY DEF Stands, Before
<1>2. {"retry", "abandoned", "resolved"} \subseteq States /\ {TRUE, FALSE} \subseteq BOOLEAN
  BY DEF States, R!Queued
<1> HIDE DEF Away, Lost
<1>3. CASE R!Mutate(a)
  <2>1. /\ rat[a] \notin Before \cup {"idle"} /\ rat' = [rat EXCEPT ![a] = "mutated"]
        /\ UNCHANGED <<row, addressed, talk, issue, carry, spent, reviews, rfaults>>
        /\ R!Resolve
    BY <1>3 DEF R!Mutate, R!Goto, R!people, Before
  <2>2. thread'.resolved
    BY <2>1 DEF R!Resolve
  <2> QED BY <1>1, <2>1, <2>2, ResGoesOn
<1>4. CASE R!Fails(a)
  <2>1. /\ rat[a] \notin Before \cup {"idle"} /\ rat' = [rat EXCEPT ![a] = Lost]
        /\ UNCHANGED <<addressed, talk, issue, carry, spent, reviews>>
        /\ R!Fault /\ (thread' = thread \/ R!Resolve)
        /\ row' = R!Persisted(a, "retry", FALSE)
    BY <1>4 DEF R!Fails, R!Answers, R!Goto, R!people, Before, Lost
  <2> QED BY <1>1, <1>2, <2>1, ResGivesUp
<1>5. CASE R!Foreign(a)
  <2>1. /\ rat[a] \notin Before \cup {"idle"} /\ rat' = [rat EXCEPT ![a] = "idle"]
        /\ UNCHANGED <<addressed, thread, talk, issue, carry, spent, reviews>>
        /\ R!Fault /\ row' = R!Persisted(a, "abandoned", FALSE)
    BY <1>5 DEF R!Foreign, R!Goto, R!people, Before
  <2> QED BY <1>1, <1>2, <2>1, ResGivesUp
<1>6. CASE R!Observe(a)
  <2>1. /\ rat[a] = "mutated" /\ rat[a] \notin Before \cup {"idle"}
        /\ rat' = [rat EXCEPT ![a] = "idle"]
        /\ UNCHANGED <<addressed, thread, talk, issue, carry, spent, reviews>>
        /\ R!Fault \/ UNCHANGED rfaults
    BY <1>6 DEF R!Observe, R!Goto, R!people, Before
  <2>2. PICK l \in BOOLEAN : /\ row' = R!Persisted(a, "resolved", l)
                             /\ l \/ talk = carry[a].talk
    BY <1>6 DEF R!Observe
  <2>3. thread.resolved /\ thread.at <= talk
    BY <2>1 DEF ResInv, ResThreads, ResVerdicts
  <2>4. l \/ thread.at <= row.verdict.talk
    BY <2>1, <2>2, <2>3, TriesTheRows, TalkType DEF ResInv
  <2> QED BY <1>1, <1>2, <2>1, <2>2, <2>3, <2>4, ResGivesUp
<1>7. CASE R!Incomplete(a)
  <2>1. /\ rat[a] \notin Before \cup {"idle"} /\ rat' = [rat EXCEPT ![a] = Away]
        /\ UNCHANGED <<addressed, thread, talk, issue, carry, spent, reviews>>
        /\ R!Fault /\ row' = R!Released(a)
    BY <1>7 DEF R!Incomplete, R!Answers, R!Goto, R!people, Before, Away
  <2> QED BY <1>1, <1>2, <2>1, ResGivesUp
<1> QED BY <1>3, <1>4, <1>5, <1>6, <1>7

\* The verdict is applied; the row is superseded or stays.
LEMMA ResVerify == R!Sane /\ ResInv /\ R!Verify => ResInv'
<1> SUFFICES ASSUME R!Sane, ResInv, R!Verify PROVE ResInv'
  OBVIOUS
<1>1. PICK w \in {"idle", "enqueue"} : rat' = [rat EXCEPT !["consumer"] = w]
  BY DEF R!Verify, R!Goto
<1>2. /\ rat["consumer"] = "reviewing" /\ addressed' \in BOOLEAN
      /\ UNCHANGED <<thread, talk, issue, carry, spent, reviews, rfaults>>
      /\ row' \in {row, [row EXCEPT !.superseded = TRUE]}
  BY DEF R!Verify, R!people, ResInv, R!TypeOK
<1>3. row' \in ResRows /\ row'.verdict = row.verdict /\ row'.state = row.state
      /\ row'.late = row.late
  <2>1. row \in ResRows
    BY RowsAreRows DEF ResInv
  <2> QED BY <1>2, <2>1 DEF ResRows, AnyRow
<1>4. /\ "consumer" \in R!Actor /\ w \in Stands /\ w \notin {"mutated", "adopt"}
      /\ w = "idle" \/ (w \in Before <=> rat["consumer"] \in Before)
      /\ rat["consumer"] # "idle"
  BY <1>2 DEF R!Actor, Stands, Before
<1> QED BY <1>1, <1>2, <1>3, <1>4, ActorMoves

\* What the cron writes when it gives up, and what a death leaves behind.
LEMMA ResEnds ==
    ASSUME R!Sane, ResInv,
           R!Suspend \/ R!Settle \/ \E a \in R!Actor : R!Die(a)
    PROVE  ResInv'
<1>1. row \in ResRows /\ row \in AnyRow
  BY RowsAreRows DEF ResInv, ResRows
<1>2. PICK f0 : f0 = R!Freed(row)
  OBVIOUS
<1>3. f0 \in AnyRow /\ f0.live = FALSE /\ f0.verdict = row.verdict
      /\ f0.late = row.late /\ f0.state = row.state
  BY <1>1, <1>2 DEF R!Freed, AnyRow
<1>4. ASSUME NEW s \in R!Suspended \cup {"needs-recheck", "local-error"}
      PROVE  /\ [f0 EXCEPT !.state = s] \in ResRows
             /\ [f0 EXCEPT !.state = s].verdict = row.verdict
             /\ [f0 EXCEPT !.state = s].state # "resolved"
             /\ [f0 EXCEPT !.state = s, !.later = FALSE] \in ResRows
             /\ [f0 EXCEPT !.state = s, !.later = FALSE].verdict = row.verdict
             /\ [f0 EXCEPT !.state = s, !.later = FALSE].state # "resolved"
  BY <1>3 DEF ResRows, AnyRow, States, R!Suspended
<1>5. /\ [f0 EXCEPT !.later = TRUE] \in ResRows
      /\ [f0 EXCEPT !.later = TRUE].verdict = row.verdict
      /\ [f0 EXCEPT !.later = TRUE].state = row.state
      /\ [f0 EXCEPT !.later = TRUE].late = row.late
  BY <1>3 DEF ResRows, AnyRow
<1>6. /\ [row EXCEPT !.owner = "dead"] \in ResRows
      /\ [row EXCEPT !.owner = "dead"].verdict = row.verdict
      /\ [row EXCEPT !.owner = "dead"].state = row.state
      /\ [row EXCEPT !.owner = "dead"].late = row.late
  BY <1>1 DEF ResRows, AnyRow
<1>7. PICK a \in R!Actor :
        /\ rat[a] # "idle" /\ rat' = [rat EXCEPT ![a] = "idle"]
        /\ UNCHANGED <<addressed, thread, talk, issue, carry, spent, reviews>>
        /\ R!Fault \/ UNCHANGED rfaults
  BY DEF R!Suspend, R!Settle, R!Die, R!Goto, R!people, R!Actor
<1>8. /\ row' \in ResRows /\ row'.verdict = row.verdict
      /\ row'.state = "resolved" => row.state = "resolved" /\ row'.late = row.late
  <2>1. CASE R!Suspend
    <3>1. \/ row' = row
          \/ \E s \in R!Suspended : row' = [f0 EXCEPT !.state = s]
      BY <1>2, <2>1 DEF R!Suspend
    <3> QED BY <1>1, <1>4, <3>1
  <2>2. CASE R!Settle
    <3>1. \/ row' = row
          \/ \E s \in {"needs-recheck", "local-error"} :
               row' = [f0 EXCEPT !.state = s, !.later = FALSE]
          \/ row' = [f0 EXCEPT !.later = TRUE]
      BY <1>2, <2>2 DEF R!Settle
    <3>2. CASE row' = row
      BY <1>1, <3>2
    <3>3. CASE \E s \in {"needs-recheck", "local-error"} :
                 row' = [f0 EXCEPT !.state = s, !.later = FALSE]
      <4>1. PICK s \in {"needs-recheck", "local-error"} :
               row' = [f0 EXCEPT !.state = s, !.later = FALSE]
        BY <3>3
      <4> QED BY <1>4, <4>1
    <3>4. CASE row' = [f0 EXCEPT !.later = TRUE]
      BY <1>5, <3>4
    <3> QED BY <3>1, <3>2, <3>3, <3>4
  <2>3. CASE \E b \in R!Actor : R!Die(b)
    <3>1. row' \in {row, [row EXCEPT !.owner = "dead"]}
      BY <2>3 DEF R!Die
    <3> QED BY <1>1, <1>6, <3>1
  <2> QED BY <2>1, <2>2, <2>3
<1>9. "idle" \in Stands /\ addressed' \in BOOLEAN
  BY <1>7 DEF Stands, ResInv, R!TypeOK
<1> QED BY <1>7, <1>8, <1>9, ActorMoves

\* A verdict is captured from what is said, stored, and read by the cron.
LEMMA ResCaptures == R!Sane /\ ResInv /\ (R!Review \/ R!Enqueue \/ R!Select) => ResInv'
<1> SUFFICES ASSUME R!Sane, ResInv, R!Review \/ R!Enqueue \/ R!Select PROVE ResInv'
  OBVIOUS
<1>1. /\ talk \in Nat /\ issue \in Nat /\ thread.at \in Nat
      /\ row.verdict \in R!Verdict /\ row.verdict.talk \in Nat
      /\ \A a \in R!Actor : carry[a] \in R!Verdict /\ carry[a].talk \in Nat
  BY TalkType DEF ResInv
<1>2. row \in ResRows /\ row \in AnyRow
  BY RowsAreRows DEF ResInv, ResRows
<1>3. /\ thread' = thread \/ R!Resolve
      /\ UNCHANGED <<addressed, thread, talk, issue, rfaults>>
      /\ addressed' \in BOOLEAN
  BY DEF R!Review, R!Enqueue, R!Select, R!people, ResInv, R!TypeOK
<1>4. "consumer" \in R!Actor /\ "cron" \in R!Actor /\ "consumer" # "cron"
      /\ R!Actor = {"consumer", "cron"}
  BY DEF R!Actor
<1>5. CASE R!Review
  <2>1. PICK v : v = [talk |-> talk, issue |-> issue]
    OBVIOUS
  <2>2. v \in R!Verdict /\ v.talk = talk
    BY <2>1 DEF R!Verdict, ResInv, R!TypeOK
  <2>3. /\ carry' = [carry EXCEPT !["consumer"] = v] /\ row' = row
        /\ rat' = [rat EXCEPT !["consumer"] = "reviewing"]
        /\ spent' = spent /\ reviews' = reviews + 1 /\ reviews < MaxReviews
    BY <1>5, <2>1 DEF R!Review, R!Goto
  <2>4. /\ carry' \in [R!Actor -> R!Verdict] /\ spent' \in 0..MaxAttempts
        /\ reviews' \in 0..MaxReviews
    <3>1. /\ carry \in [R!Actor -> R!Verdict] /\ spent \in 0..MaxAttempts
          /\ reviews \in 0..MaxReviews /\ MaxReviews \in Nat
      BY DEF ResInv, R!TypeOK, R!Sane
    <3>2. carry' \in [R!Actor -> R!Verdict]
      BY <2>2, <2>3, <3>1
    <3> QED BY <2>3, <3>1, <3>2
  <2>5. R!TypeOK'
    BY <1>2, <1>3, <1>4, <2>3, <2>4, ActorType DEF ResInv
  <2>6. ResVerdicts'
    BY <1>1, <1>3, <1>4, <2>2, <2>3 DEF ResInv, ResVerdicts, R!TypeOK
  <2>7. ResThreads' /\ R!LateChangeIsTold'
    BY <1>3, <1>4, <2>3 DEF ResInv, ResThreads, R!LateChangeIsTold, R!TypeOK
  <2> QED BY <2>5, <2>6, <2>7 DEF ResInv
<1>6. CASE R!Enqueue
  <2>1. PICK r : r = [row EXCEPT !.state = "pending", !.verified = TRUE,
                                 !.verdict = carry["consumer"], !.attempts = 0,
                                 !.later = FALSE]
    OBVIOUS
  <2>2. 0 \in 0..MaxAttempts
    BY DEF R!Sane
  <2>3. /\ r \in ResRows /\ r.state = "pending" /\ r.verdict = carry["consumer"]
    BY <1>1, <1>2, <1>4, <2>1, <2>2 DEF ResRows, AnyRow, States, R!Queued
  <2>4. PICK w \in {"claim", "idle"} : rat' = [rat EXCEPT !["consumer"] = w]
    BY <1>6 DEF R!Enqueue, R!Goto
  <2>5. /\ rat["consumer"] = "enqueue" /\ row' = r
        /\ UNCHANGED <<carry, spent, reviews>>
    BY <1>6, <2>1 DEF R!Enqueue
  <2>6. R!TypeOK'
    <3>1. carry' \in [R!Actor -> R!Verdict] /\ spent' \in 0..MaxAttempts
          /\ reviews' \in 0..MaxReviews
      BY <2>5 DEF ResInv, R!TypeOK
    <3> QED BY <1>3, <1>4, <2>3, <2>4, <2>5, <3>1, ActorType DEF ResInv
  <2>7. ResVerdicts'
    BY <1>1, <1>3, <1>4, <2>3, <2>4, <2>5 DEF ResInv, ResVerdicts, R!TypeOK
  <2>8. ResThreads' /\ R!LateChangeIsTold'
    BY <1>3, <1>4, <2>3, <2>4, <2>5 DEF ResInv, ResThreads, R!LateChangeIsTold, R!TypeOK
  <2> QED BY <2>6, <2>7, <2>8 DEF ResInv
<1>7. CASE R!Select
  <2>1. /\ carry' = [carry EXCEPT !["cron"] = row.verdict] /\ row' = row
        /\ rat' = [rat EXCEPT !["cron"] = "claim"]
        /\ spent' = row.attempts /\ reviews' = reviews
    BY <1>7 DEF R!Select, R!Goto
  <2>2. /\ carry' \in [R!Actor -> R!Verdict] /\ spent' \in 0..MaxAttempts
        /\ reviews' \in 0..MaxReviews
    BY <1>1, <1>2, <2>1 DEF ResInv, R!TypeOK, AnyRow
  <2>3. R!TypeOK'
    BY <1>2, <1>3, <1>4, <2>1, <2>2, ActorType DEF ResInv
  <2>4. ResVerdicts'
    BY <1>1, <1>3, <1>4, <2>1 DEF ResInv, ResVerdicts, R!TypeOK
  <2>5. ResThreads' /\ R!LateChangeIsTold'
    BY <1>3, <1>4, <2>1 DEF ResInv, ResThreads, R!LateChangeIsTold, R!TypeOK
  <2> QED BY <2>3, <2>4, <2>5 DEF ResInv
<1> QED BY <1>5, <1>6, <1>7

\* Leases and backoffs end, a key is replaced, settled rows are taken up
\* again; nothing else.
LEMMA ResClock ==
    ASSUME R!Sane, ResInv, R!Reenable \/ R!Rekey \/ R!Expire \/ R!Due \/ R!Retry
    PROVE  ResInv'
<1>1. row \in ResRows /\ row \in AnyRow /\ 0 \in 0..MaxAttempts
  BY RowsAreRows DEF ResInv, ResRows, R!Sane
<1>2. PICK f0 : f0 = R!Freed(row)
  OBVIOUS
<1>3. f0 \in AnyRow /\ f0.live = FALSE /\ f0.verdict = row.verdict
  BY <1>1, <1>2 DEF R!Freed, AnyRow
<1>4. /\ row' \in ResRows /\ row'.verdict = row.verdict
      /\ row'.state = "resolved" => row.state = "resolved" /\ row'.late = row.late
  <2>1. CASE R!Reenable
    <3>1. row' \in {[f0 EXCEPT !.state = "retry", !.later = FALSE],
                    [f0 EXCEPT !.state = "mismatch"]}
      BY <1>2, <2>1 DEF R!Reenable
    <3> QED BY <1>3, <3>1 DEF ResRows, AnyRow, States, R!Queued, R!Suspended
  <2>2. CASE R!Expire
    BY <1>1, <2>2 DEF R!Expire, ResRows, AnyRow
  <2>3. CASE R!Due
    BY <1>1, <2>3 DEF R!Due, ResRows, AnyRow
  <2>4. CASE R!Retry
    BY <1>1, <2>4 DEF R!Retry, ResRows, AnyRow, States, R!Queued
  <2>5. CASE R!Rekey
    BY <1>1, <2>5 DEF R!Rekey, ResRows, AnyRow, States, R!Suspended
  <2> QED BY <2>1, <2>2, <2>3, <2>4, <2>5
<1>5. /\ UNCHANGED <<addressed, thread, talk, issue, rat, carry, spent, reviews>>
      /\ R!Fault \/ UNCHANGED rfaults
  BY DEF R!Reenable, R!Rekey, R!Expire, R!Due, R!Retry, R!people
<1>6. rfaults' \in 0..MaxFaults
  BY <1>5, ResFaults DEF ResInv
<1>7. R!TypeOK'
  BY <1>4, <1>5, <1>6 DEF ResInv, R!TypeOK, ResRows, AnyRow, States
<1>8. ResVerdicts' /\ ResThreads' /\ R!LateChangeIsTold'
  BY <1>4, <1>5 DEF ResInv, ResVerdicts, ResThreads, R!LateChangeIsTold
<1> QED BY <1>7, <1>8 DEF ResInv

\* People push, reply, comment and resolve.
LEMMA ResPeople ==
    ASSUME R!Sane, ResInv, R!Talk \/ R!Comment \/ R!HumanResolves
    PROVE  ResInv'
<1>1. /\ talk \in Nat /\ issue \in Nat /\ thread.at \in Nat
      /\ row.verdict.talk \in Nat /\ \A a \in R!Actor : carry[a].talk \in Nat
  BY TalkType DEF ResInv
<1>2. CASE R!Talk \/ R!Comment
  <2>1. /\ UNCHANGED <<row, addressed, thread, rat, carry, spent, reviews, rfaults>>
        /\ talk' \in {talk, talk + 1} /\ talk' \in 0..MaxTalk /\ issue' \in 0..MaxIssue
    BY <1>1, <1>2 DEF R!Talk, R!Comment, R!Sane, ResInv, R!TypeOK
  <2>2. R!TypeOK'
    BY <2>1 DEF ResInv, R!TypeOK
  <2>3. talk <= talk'
    BY <1>1, <2>1
  <2>4. \A n \in Nat : n <= talk => n <= talk'
    BY <1>1, <2>1
  <2>5. ResVerdicts'
    BY <1>1, <2>1, <2>4 DEF ResInv, ResVerdicts
  <2>6. ResThreads' /\ R!LateChangeIsTold'
    BY <2>1 DEF ResInv, ResThreads, R!LateChangeIsTold
  <2> QED BY <2>2, <2>5, <2>6 DEF ResInv
<1>3. CASE R!HumanResolves
  <2>1. PICK t : t = [resolved |-> TRUE, ours |-> FALSE, at |-> talk]
    OBVIOUS
  <2>2. /\ t \in [resolved : BOOLEAN, ours : BOOLEAN, at : 0..MaxTalk]
        /\ t.resolved = TRUE /\ t.ours = FALSE /\ t.at = talk
    BY <2>1 DEF ResInv, R!TypeOK
  <2>3. /\ thread' = t /\ ~thread.resolved
        /\ UNCHANGED <<row, addressed, talk, issue, rat, carry, spent, reviews, rfaults>>
    BY <1>3, <2>1 DEF R!HumanResolves, R!people
  <2>4. R!TypeOK'
    BY <2>2, <2>3 DEF ResInv, R!TypeOK
  <2>5. ResVerdicts'
    BY <1>1, <2>2, <2>3 DEF ResInv, ResVerdicts
  <2>6. ResThreads' /\ R!LateChangeIsTold'
    BY <2>2, <2>3 DEF ResInv, ResThreads, R!LateChangeIsTold
  <2> QED BY <2>4, <2>5, <2>6 DEF ResInv
<1> QED BY <1>2, <1>3

\* Every step keeps ResInv.
LEMMA ResNext == R!Sane /\ ResInv /\ [R!Next]_rvars => ResInv'
<1> SUFFICES ASSUME R!Sane, ResInv, [R!Next]_rvars PROVE ResInv'
  OBVIOUS
<1>1. ASSUME NEW a \in R!Actor, R!Resolver(a) PROVE ResInv'
  BY <1>1, ResClaim, ResFences, ResMutates DEF R!Resolver
<1>2. CASE R!Consumer
  BY <1>1, <1>2, ResVerify, ResCaptures DEF R!Consumer, R!Actor
<1>3. CASE R!Cron
  BY <1>1, <1>3, ResEnds, ResCaptures DEF R!Cron, R!Actor
<1>4. CASE UNCHANGED rvars
  BY <1>4 DEF rvars, ResInv, R!TypeOK, ResVerdicts, ResThreads, R!LateChangeIsTold
<1> QED BY <1>2, <1>3, <1>4, ResCaptures, ResEnds, ResClock, ResPeople DEF R!Next

\* Every behaviour of MCStores is one of its lane of resolutions.
LEMMA ResolutionsAlone == LanesSpec => R!Init /\ [][R!Next]_rvars
<1>1. LanesInit => R!Init
  BY DEF LanesInit
<1>2. [LanesNext]_allvars => [R!Next]_rvars
  BY DEF LanesNext, allvars, rvars
<1> QED BY <1>1, <1>2, PTL DEF LanesSpec

LEMMA ResInvHolds == LanesSpec => []ResInv
<1>1. R!Sane
  BY LanesAreSane
<1> QED BY <1>1, ResolutionsAlone, ResInit, ResNext, PTL

\* The types of the queue of resolutions hold for any talk, rounds, attempts
\* and faults.
THEOREM ResolutionType == LanesSpec => []R!TypeOK
<1>1. ResInv => R!TypeOK
  BY DEF ResInv
<1> QED BY <1>1, ResInvHolds, PTL

\* A thread that the App resolved, and recorded as resolved without a late
\* change, had no push and no reply that the row's verdict has not seen:
\* whichever actor resolved it, died, lost its lease or was overtaken.
THEOREM LateChangeIsToldHolds == LanesSpec => []LateChangeIsTold
<1>1. ResInv => LateChangeIsTold
  BY DEF ResInv, LateChangeIsTold
<1> QED BY <1>1, ResInvHolds, PTL

-----------------------------------------------------------------------------
(* Workspaces: lane "members" is the module extended, lane "plans" an      *)
(* instance.  What WorkspaceProofs proves of any instance is taken over.   *)

\* The instance V, with its proofs.
VP == INSTANCE WorkspaceProofs WITH
       Ws <- {wx, wy}, User <- {uo, ua},
       Kinds <- {"create", "accept", "found", "plan"},
       Seats <- [p \in {"free", "paid"} |-> 2],
       MaxInvites <- 1, MaxClock <- 0, InviteTtl <- 1,
       ws <- pws, member <- pmember, invite <- pinvite, req <- preq,
       clock <- pclock

\* Both instances mean the same by the requests and what they ask for.
LEMMA PlanRequests ==
    ASSUME NEW w, NEW u
    PROVE  /\ V!AskCreate(w, u) => VP!AskCreate(w, u)
           /\ V!AskAccept(w, u) => VP!AskAccept(w, u)
           /\ V!AskRemove(w, u) => VP!AskRemove(w, u)
           /\ V!AskRole(w, u) => VP!AskRole(w, u)
           /\ V!AskFound(w, u) => VP!AskFound(w, u)
           /\ V!Revoke(w, u) => VP!Revoke(w, u)
<1> USE DEF V!Ask, VP!Ask, V!Asked, VP!Asked, V!Live, VP!Live,
            V!PlanOf, VP!PlanOf, V!MembersOf, VP!MembersOf, V!OwnersOf, VP!OwnersOf,
            V!PendingAt, VP!PendingAt, V!Ended, VP!Ended, V!FreeHomes, VP!FreeHomes,
            V!Idle, VP!Idle
<1>1. V!AskCreate(w, u) => VP!AskCreate(w, u)
  BY DEF V!AskCreate, VP!AskCreate, V!SeatLeft, VP!SeatLeft, V!SeatsAt, VP!SeatsAt,
         V!Cardinality, VP!Cardinality
<1>2. V!AskAccept(w, u) => VP!AskAccept(w, u)
  BY DEF V!AskAccept, VP!AskAccept
<1>3. V!AskRemove(w, u) => VP!AskRemove(w, u)
  BY DEF V!AskRemove, VP!AskRemove
<1>4. V!AskRole(w, u) => VP!AskRole(w, u)
  BY DEF V!AskRole, VP!AskRole
<1>5. V!AskFound(w, u) => VP!AskFound(w, u)
  BY DEF V!AskFound, VP!AskFound
<1>6. V!Revoke(w, u) => VP!Revoke(w, u)
  BY DEF V!Revoke, VP!Revoke
<1> QED BY <1>1, <1>2, <1>3, <1>4, <1>5, <1>6

\* Both mean the same by the batches.
LEMMA PlanBatches ==
    ASSUME NEW r
    PROVE  /\ V!Resolve(r) => VP!Resolve(r)
           /\ V!Create(r) => VP!Create(r)
           /\ V!Accept(r) => VP!Accept(r)
           /\ V!Remove(r) => VP!Remove(r)
           /\ V!SetRole(r) => VP!SetRole(r)
           /\ V!Found(r) => VP!Found(r)
           /\ V!SetPlan(r) => VP!SetPlan(r)
<1> USE DEF V!Answer, VP!Answer, V!Of, VP!Of, V!Live, VP!Live, V!Idle, VP!Idle,
            V!PlanOf, VP!PlanOf, V!MembersOf, VP!MembersOf, V!OwnersOf, VP!OwnersOf,
            V!PendingAt, VP!PendingAt, V!There, VP!There,
            V!FreeHomes, VP!FreeHomes, V!Cardinality, VP!Cardinality
<1>1. V!Resolve(r) => VP!Resolve(r)
  BY DEF V!Resolve, VP!Resolve
<1>2. V!Create(r) => VP!Create(r)
  BY Zenon DEF V!Create, VP!Create, V!SeatLeft, VP!SeatLeft, V!SeatsAt, VP!SeatsAt,
         V!Flipped, VP!Flipped, V!Ended, VP!Ended
<1>3. V!Accept(r) => VP!Accept(r)
  BY Zenon DEF V!Accept, VP!Accept, V!Flipped, VP!Flipped, V!Ended, VP!Ended
<1>4. V!Remove(r) => VP!Remove(r)
  BY DEF V!Remove, VP!Remove, V!MayLeave, VP!MayLeave
<1>5. V!SetRole(r) => VP!SetRole(r)
  BY DEF V!SetRole, VP!SetRole, V!MayLeave, VP!MayLeave
<1>6. V!Found(r) => VP!Found(r)
  BY DEF V!Found, VP!Found, V!FreeSlot, VP!FreeSlot
<1>7. V!SetPlan(r) => VP!SetPlan(r)
  BY DEF V!SetPlan, VP!SetPlan
<1> QED BY <1>1, <1>2, <1>3, <1>4, <1>5, <1>6, <1>7

\* A step of the one is a step of the other.
LEMMA PlanSteps == [V!Next]_pvars => [VP!Next]_(VP!vars)
<1> SUFFICES ASSUME V!Next PROVE VP!Next
  BY DEF pvars, VP!vars
<1>1. ASSUME NEW w \in {wx, wy}, V!Retire(w) PROVE VP!Retire(w)
  BY <1>1 DEF V!Retire, VP!Retire, V!Live, VP!Live, V!Revoked, VP!Revoked,
              V!Ended, VP!Ended
<1>2. ASSUME NEW w \in {wx, wy}, NEW p \in {"free", "paid"}, V!AskPlan(w, p)
      PROVE  VP!AskPlan(w, p)
  BY <1>2 DEF V!AskPlan, VP!AskPlan, V!Live, VP!Live, V!PlanOf, VP!PlanOf,
              V!Ask, VP!Ask, V!Asked, VP!Asked, V!Idle, VP!Idle
<1>3. CASE V!Sweep
  BY <1>3 DEF V!Sweep, VP!Sweep, VP!Next, V!Flipped, VP!Flipped, V!Ended, VP!Ended
<1>4. CASE V!Tick
  BY <1>4 DEF V!Tick, VP!Tick, VP!Next
<1>5. CASE \E w \in {wx, wy}, u \in {uo, ua} :
             \/ V!AskCreate(w, u) \/ V!AskAccept(w, u) \/ V!AskRemove(w, u)
             \/ V!AskRole(w, u) \/ V!AskFound(w, u) \/ V!Revoke(w, u)
  <2>1. PICK w \in {wx, wy}, u \in {uo, ua} :
             \/ V!AskCreate(w, u) \/ V!AskAccept(w, u) \/ V!AskRemove(w, u)
             \/ V!AskRole(w, u) \/ V!AskFound(w, u) \/ V!Revoke(w, u)
    BY <1>5
  <2> QED BY <2>1, PlanRequests DEF VP!Next
<1>6. ASSUME NEW r \in Request,
             \/ V!Resolve(r) \/ V!Create(r) \/ V!Accept(r) \/ V!Remove(r)
             \/ V!SetRole(r) \/ V!Found(r) \/ V!SetPlan(r)
      PROVE  VP!Next
  BY <1>6, PlanBatches DEF VP!Next
<1> QED BY <1>1, <1>2, <1>3, <1>4, <1>5, <1>6 DEF V!Next, VP!Next

\* What is proved of the one is assumed, begins and is stated alike.
LEMMA PlansAgree ==
    /\ V!Sane => VP!Sane
    /\ V!Init => VP!Init
    /\ VP!TypeOK => V!TypeOK
<1>1. V!Sane => VP!Sane
  BY DEF V!Sane, VP!Sane, V!IsFiniteSet, VP!IsFiniteSet, V!AllKinds, VP!AllKinds
<1>2. V!Init => VP!Init
  BY DEF V!Init, VP!Init, V!Idle, VP!Idle
<1>3. VP!TypeOK => V!TypeOK
  BY DEF V!TypeOK, VP!TypeOK, V!Idle, VP!Idle, V!Req, VP!Req, V!Invite, VP!Invite,
         V!Roles, VP!Roles, V!AllKinds, VP!AllKinds
<1> QED BY <1>1, <1>2, <1>3

\* What is said of the free workspaces is said alike.
LEMMA PlanHomes == VP!TakesOneHome => V!TakesOneHome
<1>1. \A u \in {uo, ua} :
        /\ V!Cardinality(V!FreeHomes(u)) = VP!Cardinality(VP!FreeHomes(u))
        /\ V!Cardinality(V!FreeHomes(u))' = VP!Cardinality(VP!FreeHomes(u))'
  BY DEF V!Cardinality, VP!Cardinality, V!FreeHomes, VP!FreeHomes, V!Live, VP!Live,
         V!PlanOf, VP!PlanOf
<1>2. \A w \in {wx, wy} : V!PlanOf(w) = VP!PlanOf(w) /\ V!PlanOf(w)' = VP!PlanOf(w)'
  BY DEF V!PlanOf, VP!PlanOf
<1> QED BY <1>1, <1>2 DEF V!TakesOneHome, VP!TakesOneHome

\* A behaviour of MCStores is one of its lane of seats, and one of its lane of
\* plans.
LEMMA SeatsAlone == LanesSpec => Spec
<1>1. LanesInit => Init
  BY DEF LanesInit
<1>2. [LanesNext]_allvars => [Next]_vars
  BY DEF LanesNext, allvars
<1> QED BY <1>1, <1>2, PTL DEF LanesSpec, Spec

LEMMA PlansAlone == LanesSpec => VP!Init /\ [][VP!Next]_(VP!vars)
<1>1. LanesInit => VP!Init
  BY PlansAgree DEF LanesInit
<1>2. [LanesNext]_allvars => [VP!Next]_(VP!vars)
  <2>1. [LanesNext]_allvars => [V!Next]_pvars
    BY DEF LanesNext, allvars, pvars
  <2> QED BY <2>1, PlanSteps
<1> QED BY <1>1, <1>2, PTL DEF LanesSpec

\* The invariant of the seats holds in the lane of plans.
LEMMA PlanInvHolds == LanesSpec => []VP!SeatInv
<1>1. VP!Sane
  BY LanesAreSane, PlansAgree
<1>2. VP!Init => VP!SeatInv
  BY <1>1, VP!SeatInvInit
<1>3. VP!SeatInv /\ [VP!Next]_(VP!vars) => VP!SeatInv'
  BY <1>1, VP!SeatInvStep
<1> QED BY <1>2, <1>3, PlansAlone, PTL

\* No race takes a second free workspace.
THEOREM LanesOneHomeAlways == LanesSpec => LanesOneHome
<1>1. VP!Sane
  BY LanesAreSane, PlansAgree
<1>2. VP!SeatInv /\ [VP!Next]_(VP!vars) => [V!TakesOneHome]_(V!vars)
  BY <1>1, VP!HomeStep, PlanHomes DEF V!vars, VP!vars
<1> QED BY <1>2, PlansAlone, PlanInvHolds, PTL DEF LanesOneHome, V!OneFreeHome

-----------------------------------------------------------------------------
(* AppConfig: what AppConfigProofs proves of any instance, for the steps of *)
(* two lanes.                                                               *)

\* A step of the lane of keys or of the lane of chains is one of an App that
\* is used for both.
LEMMA ConfigAlone == LanesSpec => A!Init /\ [][A!Next]_(A!vars)
<1>1. LanesInit => A!Init
  BY DEF LanesInit
<1>2. [LanesNext]_allvars => [A!Next]_(A!vars)
  BY DEF LanesNext, allvars, avars, A!vars, A!Next
<1> QED BY <1>1, <1>2, PTL DEF LanesSpec

\* The invariant of the configuration holds in both of its lanes.
LEMMA ConfigInvHolds == LanesSpec => []A!IInv
<1>1. A!Sane
  BY LanesAreSane
<1>2. A!Init => A!IInv
  BY <1>1, A!InitHolds
<1>3. A!IInv /\ [A!Next]_(A!vars) => A!IInv'
  BY <1>1, A!NextKeeps
<1> QED BY <1>2, <1>3, ConfigAlone, PTL

\* Every stored key is used where it was verified, in both lanes.
THEOREM LanesKeysAtTheirEndpoint == LanesSpec => []KeysAtTheirEndpoint
<1>1. A!IInv => KeysAtTheirEndpoint
  BY DEF A!IInv, KeysAtTheirEndpoint
<1> QED BY <1>1, ConfigInvHolds, PTL

\* No race takes a place that is not there, in both lanes.
THEOREM LanesPoolsFit == LanesSpec => []PoolsFit
<1>1. A!IInv => PoolsFit
  BY DEF A!IInv, PoolsFit
<1> QED BY <1>1, ConfigInvHolds, PTL

-----------------------------------------------------------------------------
(* CommentClaims: what CommentProofs proves of any instance.                *)

\* A behaviour of MCStores is one of its lane of claims.
LEMMA ClaimsAlone == LanesSpec => C!Init /\ [][C!Next]_(C!vars)
<1>1. LanesInit => C!Init
  BY DEF LanesInit
<1>2. [LanesNext]_allvars => [C!Next]_(C!vars)
  BY DEF LanesNext, allvars, cvars, C!vars
<1> QED BY <1>1, <1>2, PTL DEF LanesSpec

\* The types of the lane of claims hold, with any faults of a send.
LEMMA ClaimTypes == LanesSpec => []C!TypeOK
<1>1. C!ClaimsAssumption
  BY LanesAreSane
<1>2. C!Init => C!TypeOK
  BY <1>1, C!InitTypeC
<1>3. C!TypeOK /\ [C!Next]_(C!vars) => C!TypeOK'
  BY <1>1, C!NextTypeC
<1> QED BY <1>2, <1>3, ClaimsAlone, PTL

-----------------------------------------------------------------------------
(* Findings.                                                               *)

\* The consumer has begun a round and has not staged it yet.
InRound ==
    \/ fat["consumer"] \in {"context", "reviewing"}
    \/ fat["consumer"] = "applying" /\ on["consumer"] # last

FindStands ==
    /\ \A a \in F!Actor : fat[a] # "idle" => on[a] \in 1..last
    /\ fat["consumer"] \in {"context", "reviewing", "sending", "sent", "found"} =>
         on["consumer"] = last

\* A row that is staged is never staged again, and one that is applied is
\* nobody's any more.
FindJournal ==
    \A n \in F!Pub :
      /\ pub[n].phase \in {"none", "applied"} => pub[n].owner = "none"
      /\ pub[n].phase = "none" => pub[n].closes = {}
      /\ (n > last \/ (InRound /\ n = last)) => pub[n].phase = "none"

\* What was confirmed when the round began is applied or still to be applied,
\* or the round is told; so that a row that closes has all of it applied.
FindContext ==
    /\ fat["consumer"] = "reviewing" => ctodo = {}
    /\ InRound /\ ~told => \A m \in before[last] : m \in ctodo \/ pub[m].phase = "applied"
    /\ \A n \in F!Pub : pub[n].closes # {} =>
         \A m \in before[n] : pub[m].phase = "applied"

FindInv == F!TypeOK /\ FindStands /\ FindJournal /\ FindContext

\* The rows of the journal.
Staged == {p \in F!Journal : p.lines \subseteq p.seen /\ (p.live => p.owner # "none")}

\* A set of natural numbers has a least one: "the oldest first" chooses one.
LEMMA LeastOf ==
    ASSUME NEW S, S \subseteq Nat, S # {}
    PROVE  \E n \in S : \A m \in S : n <= m
<1> DEFINE Below == {p \in Nat \X Nat : p[1] < p[2]}
<1>1. IsWellFoundedOn(Below, Nat)
  BY NatLessThanWellFounded DEF OpToRel
<1>2. PICK n \in S : \A m \in S : ~ (<<m, n>> \in Below)
  BY <1>1, WFMin, Zenon
<1>3. \A m \in S : m \in Nat /\ n \in Nat /\ ~ (m < n)
  BY <1>2
<1> QED BY <1>3

\* The oldest of the journals that wait is one of them.
LEMMA OldestIsOne == F!TypeOK /\ ctodo # {} => F!Oldest \in ctodo
<1> SUFFICES ASSUME F!TypeOK, ctodo # {} PROVE F!Oldest \in ctodo
  OBVIOUS
<1>1. ctodo \subseteq Nat
  BY DEF F!TypeOK, F!Pub
<1> QED BY <1>1, LeastOf DEF F!Oldest

\* What the statements make of a row is a row, with the payload it had.
LEMMA JournalWrites ==
    ASSUME F!Sane, NEW p \in Staged, NEW a \in F!Actor
    PROVE  /\ F!Free(p) \in Staged /\ F!Free(p).phase = p.phase
           /\ F!Free(p).closes = p.closes /\ F!Free(p).owner = "none"
           /\ [F!Free(p) EXCEPT !.phase = "applied"] \in Staged
           /\ F!Claimed(a, p) \in Staged /\ F!Claimed(a, p).phase = p.phase
           /\ F!Claimed(a, p).closes = p.closes
           /\ F!Orphaned(a, p) \in Staged /\ F!Orphaned(a, p).phase = p.phase
           /\ F!Orphaned(a, p).closes = p.closes
           /\ p.owner = "none" => F!Orphaned(a, p).owner = "none"
           /\ F!Settled(p) \in Staged /\ F!Settled(p).phase = p.phase
           /\ F!Settled(p).closes = p.closes
           /\ p.owner = "none" => F!Settled(p).owner = "none"
           /\ p.owner = a => [p EXCEPT !.phase = "confirmed"] \in Staged
           /\ [p EXCEPT !.live = FALSE] \in Staged
<1> USE DEF Staged, F!Journal, F!Actor
<1>1. PICK g : g = F!Free(p)
  OBVIOUS
<1>2. /\ g \in Staged /\ g.phase = p.phase /\ g.closes = p.closes
      /\ g.owner = "none" /\ [g EXCEPT !.phase = "applied"] \in Staged
      /\ [g EXCEPT !.recovery = "local-error"] \in Staged
  BY <1>1 DEF F!Free
<1>3. /\ F!Claimed(a, p) \in Staged /\ F!Claimed(a, p).phase = p.phase
      /\ F!Claimed(a, p).closes = p.closes
  <2>1. PICK k : k = IF p.attempts < MaxAttempts THEN p.attempts + 1 ELSE p.attempts
    OBVIOUS
  <2>2. k \in 0..MaxAttempts
    BY <2>1 DEF F!Sane
  <2>3. F!Claimed(a, p) = [p EXCEPT !.owner = a, !.live = TRUE, !.attempts = k]
    BY <2>1 DEF F!Claimed
  <2>4. PICK q : q = [p EXCEPT !.owner = a, !.live = TRUE, !.attempts = k]
    OBVIOUS
  <2>5. q \in Staged /\ q.phase = p.phase /\ q.closes = p.closes
    BY <2>2, <2>4
  <2> QED BY <2>3, <2>4, <2>5
<1>4. /\ F!Orphaned(a, p) \in Staged /\ F!Orphaned(a, p).phase = p.phase
      /\ F!Orphaned(a, p).closes = p.closes
      /\ p.owner = "none" => F!Orphaned(a, p).owner = "none"
  BY DEF F!Orphaned
<1>5. F!Settled(p) \in {p, g, [g EXCEPT !.recovery = "local-error"]}
  BY <1>1 DEF F!Settled
<1>6. /\ F!Settled(p) \in Staged /\ F!Settled(p).phase = p.phase
      /\ F!Settled(p).closes = p.closes
      /\ p.owner = "none" => F!Settled(p).owner = "none"
  BY <1>2, <1>5
<1>7. p.owner = a => [p EXCEPT !.phase = "confirmed"] \in Staged
  OBVIOUS
<1>8. [p EXCEPT !.live = FALSE] \in Staged
  OBVIOUS
<1>9. /\ F!Free(p) \in Staged /\ F!Free(p).phase = p.phase
      /\ F!Free(p).closes = p.closes /\ F!Free(p).owner = "none"
      /\ [F!Free(p) EXCEPT !.phase = "applied"] \in Staged
  BY <1>1, <1>2
<1> HIDE DEF Staged, F!Journal, F!Actor
<1> QED BY <1>3, <1>4, <1>6, <1>7, <1>8, <1>9

\* The type invariant, with the rows of the journal.
LEMMA JournalIsStaged ==
    F!TypeOK <=>
      /\ finding \in [Finding -> F!Row]
      /\ pub \in [F!Pub -> Staged]
      /\ shown \in 0..MaxPub /\ last \in 0..MaxPub
      /\ fat \in [F!Actor -> {"idle", "context", "reviewing", "sending", "sent",
                              "found", "applying"}]
      /\ on \in [F!Actor -> 0..MaxPub]
      /\ ctodo \subseteq F!Pub /\ told \in BOOLEAN /\ targets \subseteq Finding
      /\ before \in [F!Pub -> SUBSET F!Pub]
      /\ step \in [F!Actor -> 0..2]
      /\ ffaults \in 0..MaxFaults
<1>1. pub \in [F!Pub -> Staged] <=>
        /\ pub \in [F!Pub -> F!Journal]
        /\ \A n \in F!Pub : /\ pub[n].lines \subseteq pub[n].seen
                            /\ pub[n].live => pub[n].owner # "none"
  BY DEF Staged
<1> QED BY <1>1 DEF F!TypeOK

\* The types of the next state, with the rows of the journal.
LEMMA FindTypeStep ==
    ASSUME finding' \in [Finding -> F!Row], pub' \in [F!Pub -> Staged],
           shown' \in 0..MaxPub, last' \in 0..MaxPub,
           fat' \in [F!Actor -> {"idle", "context", "reviewing", "sending", "sent",
                                 "found", "applying"}],
           on' \in [F!Actor -> 0..MaxPub],
           ctodo' \subseteq F!Pub, told' \in BOOLEAN, targets' \subseteq Finding,
           before' \in [F!Pub -> SUBSET F!Pub], step' \in [F!Actor -> 0..2],
           ffaults' \in 0..MaxFaults
    PROVE  F!TypeOK'
BY DEF F!TypeOK, Staged

\* FindInv holds at the beginning.
LEMMA FindInit == F!Sane /\ F!Init => FindInv
<1> SUFFICES ASSUME F!Sane, F!Init PROVE FindInv
  OBVIOUS
<1>0. 0 \in 0..MaxPub /\ 0 \in 0..MaxAttempts /\ 0 \in 0..MaxFaults
  BY DEF F!Sane
<1>1. F!TypeOK
  <2>1. finding \in [Finding -> F!Row]
    BY <1>0 DEF F!Init, F!Row
  <2>2. pub \in [F!Pub -> Staged]
    BY <1>0 DEF F!Init, Staged, F!Journal
  <2>3. /\ fat \in [F!Actor -> {"idle", "context", "reviewing", "sending", "sent",
                                "found", "applying"}]
        /\ on \in [F!Actor -> 0..MaxPub] /\ step \in [F!Actor -> 0..2]
        /\ before \in [F!Pub -> SUBSET F!Pub]
    BY <1>0 DEF F!Init
  <2> QED BY <1>0, <2>1, <2>2, <2>3, JournalIsStaged DEF F!Init
<1>2. FindStands /\ FindJournal /\ FindContext
  BY DEF F!Init, FindStands, FindJournal, FindContext, InRound, F!Actor
<1> QED BY <1>1, <1>2 DEF FindInv

\* What a step that stages nothing and begins no round has to keep.
LEMMA JournalKeeps ==
    ASSUME FindInv, F!TypeOK', FindStands', UNCHANGED <<last, before>>,
           \A n \in F!Pub :
             /\ pub'[n].closes = pub[n].closes
             /\ pub'[n].phase = "none" <=> pub[n].phase = "none"
             /\ pub[n].phase = "applied" => pub'[n].phase = "applied"
             /\ pub'[n].phase \in {"none", "applied"} => pub'[n].owner = "none",
           InRound' => InRound,
           fat'["consumer"] = "reviewing" => ctodo' = {},
           InRound' /\ ~told' =>
             ~told /\ \A m \in ctodo : m \in ctodo' \/ pub'[m].phase = "applied"
    PROVE  FindInv'
<1>1. /\ last \in 0..MaxPub /\ before \in [F!Pub -> SUBSET F!Pub]
      /\ InRound => last \in F!Pub
  BY DEF FindInv, F!TypeOK, FindStands, InRound, F!Actor, F!Pub
<1>2. FindJournal'
  BY DEF FindInv, FindJournal
<1>3. FindContext'
  BY <1>1 DEF FindInv, FindContext
<1> QED BY <1>2, <1>3 DEF FindInv

\* Where an actor may stand.
LEMMA Standing ==
    ASSUME FindInv, NEW a \in F!Actor, NEW n \in 0..MaxPub, UNCHANGED last,
           NEW where \in {"idle", "context", "reviewing", "sending", "sent", "found",
                          "applying"},
           F!Stand(a, where, n), where # "idle" => n \in 1..last,
           a = "consumer" /\ where \in {"context", "reviewing", "sending", "sent",
                                       "found"} => n = last
    PROVE  /\ FindStands'
           /\ fat' \in [F!Actor -> {"idle", "context", "reviewing", "sending", "sent",
                                    "found", "applying"}]
           /\ on' \in [F!Actor -> 0..MaxPub] /\ step' \in [F!Actor -> 0..2]
           /\ fat'[a] = where /\ on'[a] = n
           /\ a = "cron" => /\ fat'["consumer"] = fat["consumer"]
                            /\ on'["consumer"] = on["consumer"]
BY DEF FindInv, F!TypeOK, FindStands, F!Stand, F!Actor

\* After an apply the consumer goes on with its round, if it has one.
LEMMA AfterStanding ==
    ASSUME F!Sane, FindInv, NEW a \in F!Actor, fat[a] = "applying", UNCHANGED last,
           F!AfterApply(a)
    PROVE  /\ FindStands'
           /\ fat' \in [F!Actor -> {"idle", "context", "reviewing", "sending", "sent",
                                    "found", "applying"}]
           /\ on' \in [F!Actor -> 0..MaxPub] /\ step' \in [F!Actor -> 0..2]
           /\ InRound' => InRound
           /\ fat'["consumer"] = "reviewing" => fat["consumer"] = "reviewing"
           /\ a = "cron" => /\ fat'["consumer"] = fat["consumer"]
                            /\ on'["consumer"] = on["consumer"]
<1>1. /\ last \in 0..MaxPub /\ on[a] \in 1..last /\ 0 \in 0..MaxPub
      /\ F!Actor = {"consumer", "cron"}
  BY DEF F!Sane, FindInv, F!TypeOK, FindStands, F!Actor
<1>2. CASE a = "consumer" /\ on[a] # last
  <2>1. F!Stand(a, "context", last) /\ last \in 1..last
    BY <1>1, <1>2 DEF F!AfterApply
  <2> QED BY <1>1, <1>2, <2>1, Standing DEF InRound
<1>3. CASE ~(a = "consumer" /\ on[a] # last)
  <2>1. F!Stand(a, "idle", 0)
    BY <1>3 DEF F!AfterApply
  <2> QED BY <1>1, <1>3, <2>1, Standing DEF InRound
<1> QED BY <1>2, <1>3

\* The faults of the findings are bounded.
LEMMA FindFaults ==
    ASSUME F!Sane, F!TypeOK, F!Fault \/ UNCHANGED ffaults
    PROVE  ffaults' \in 0..MaxFaults
BY DEF F!Sane, F!TypeOK, F!Fault

\* The upsert and the closures write rows, and the only round that a closure
\* adds is that of its publication.
LEMMA EffectWrites ==
    ASSUME F!TypeOK, NEW n \in F!Pub, NEW i, NEW j
    PROVE  /\ F!Effect(n, i, j) \in [Finding -> F!Row]
           /\ \A g \in Finding : \A k \in F!Effect(n, i, j)[g].closed :
                k \in finding[g].closed \/ (k = n /\ g \in pub[n].closes)
<1>1. /\ finding \in [Finding -> F!Row] /\ n \in 0..MaxPub
      /\ pub[n].ids \in [Finding -> 0..MaxPub]
  BY DEF F!TypeOK, F!Journal, F!Pub
<1> DEFINE S == F!SeenBy(n, finding)
<1>2. S \in [Finding -> F!Row] /\ \A g \in Finding : S[g].closed \subseteq finding[g].closed
  BY <1>1 DEF F!SeenBy, F!Row
<1> HIDE DEF S
<1>3. ASSUME NEW T \in [Finding -> F!Row],
             \A g \in Finding : T[g].closed \subseteq finding[g].closed
      PROVE  /\ F!ClosedBy(n, T) \in [Finding -> F!Row]
             /\ \A g \in Finding : \A k \in F!ClosedBy(n, T)[g].closed :
                  k \in finding[g].closed \/ (k = n /\ g \in pub[n].closes)
  <2>1. \A g \in Finding : T[g] \in F!Row /\ T[g].closed \cup {n} \in SUBSET F!Pub
    BY <1>3 DEF F!Row
  <2>2. F!ClosedBy(n, T) \in [Finding -> F!Row]
    BY <2>1 DEF F!ClosedBy, F!Row
  <2>3. \A g \in Finding : \/ F!ClosedBy(n, T)[g].closed = T[g].closed
                           \/ /\ F!ClosedBy(n, T)[g].closed = T[g].closed \cup {n}
                              /\ g \in pub[n].closes
    BY <2>1 DEF F!ClosedBy, F!Row
  <2> QED BY <1>3, <2>2, <2>3
<1>4. F!Effect(n, i, j) \in {finding, S, F!ClosedBy(n, S), F!ClosedBy(n, finding)}
  BY DEF F!Effect, S
<1> QED BY <1>1, <1>2, <1>3, <1>4

\* A batch closes only with everything applied that was confirmed when the round
\* of its publication began.
LEMMA FindBatch ==
    ASSUME F!Sane, FindInv, NEW a \in F!Actor, F!Batch(a)
    PROVE  FindInv' /\ F!ClosesInContext
<1> DEFINE n == on[a]
<1>1. /\ F!TypeOK /\ n \in 1..last /\ n \in F!Pub /\ last \in 0..MaxPub
      /\ fat[a] = "applying" /\ pub[n].owner = a /\ a # "none"
      /\ UNCHANGED <<shown, last, told, targets, before, ffaults>>
      /\ pub \in [F!Pub -> Staged]
  BY JournalIsStaged DEF F!Batch, F!Fenced, FindInv, FindStands, F!TypeOK, F!Actor, F!Pub
<1>2. PICK j \in step[a]+1..3 :
        /\ finding' = F!Effect(n, step[a] + 1, j)
        /\ IF j < 3
           THEN step' = [step EXCEPT ![a] = j] /\ UNCHANGED <<pub, fat, on, ctodo>>
           ELSE /\ ~F!Dangling(n)
                /\ pub' = [pub EXCEPT ![n] = [F!Free(@) EXCEPT !.phase = "applied"]]
                /\ ctodo' = IF a = "consumer" THEN ctodo \ {n} ELSE ctodo
                /\ F!AfterApply(a)
  BY DEF F!Batch
<1>3. step \in [F!Actor -> 0..2] /\ j \in 1..3
  BY <1>1, <1>2 DEF F!TypeOK
<1>4. /\ finding' \in [Finding -> F!Row]
      /\ \A g \in Finding : \A k \in finding'[g].closed :
           k \in finding[g].closed \/ (k = n /\ g \in pub[n].closes)
  BY <1>1, <1>2, EffectWrites
<1>5. F!ClosesInContext
  BY <1>1, <1>4 DEF F!ClosesInContext, FindInv, FindContext
<1>6. CASE j < 3
  <2>1. step' = [step EXCEPT ![a] = j] /\ UNCHANGED <<pub, fat, on, ctodo>>
    BY <1>2, <1>6
  <2>2. F!TypeOK'
    BY <1>1, <1>3, <1>4, <1>6, <2>1, FindTypeStep DEF F!TypeOK, F!Actor
  <2>3. FindStands' /\ InRound' = InRound
    BY <1>1, <2>1 DEF FindInv, FindStands, InRound
  <2> QED BY <1>1, <1>5, <2>1, <2>2, <2>3, JournalKeeps DEF FindInv, FindJournal,
             FindContext
<1>7. CASE ~(j < 3)
  <2>1. /\ pub' = [pub EXCEPT ![n] = [F!Free(pub[n]) EXCEPT !.phase = "applied"]]
        /\ ctodo' = IF a = "consumer" THEN ctodo \ {n} ELSE ctodo
        /\ F!AfterApply(a)
    BY <1>2, <1>7
  <2>2. PICK p : p = [F!Free(pub[n]) EXCEPT !.phase = "applied"]
    OBVIOUS
  <2>3. /\ p \in Staged /\ p.phase = "applied" /\ p.closes = pub[n].closes
        /\ p.owner = "none"
    <3>1. F!Free(pub[n]) \in Staged /\ F!Free(pub[n]).owner = "none"
          /\ F!Free(pub[n]).closes = pub[n].closes /\ p \in Staged
      BY <1>1, <2>2, JournalWrites
    <3> QED BY <2>2, <3>1 DEF Staged, F!Journal
  <2>4. /\ FindStands'
        /\ InRound' => InRound
        /\ fat' \in [F!Actor -> {"idle", "context", "reviewing", "sending", "sent",
                                 "found", "applying"}]
        /\ on' \in [F!Actor -> 0..MaxPub] /\ step' \in [F!Actor -> 0..2]
        /\ fat'["consumer"] = "reviewing" => fat["consumer"] = "reviewing"
    BY <1>1, <2>1, AfterStanding
  <2>5. F!TypeOK'
    BY <1>1, <1>4, <2>1, <2>2, <2>3, <2>4, FindTypeStep DEF F!TypeOK
  <2>6. /\ \A k \in F!Pub : k # n => pub'[k] = pub[k]
        /\ pub'[n] = p /\ pub[n].phase # "none"
        /\ pub[n].phase # "applied"
    BY <1>1, <2>1, <2>2 DEF FindInv, FindJournal
  <2>7. \A m \in ctodo : m \in ctodo' \/ pub'[m].phase = "applied"
    BY <2>1, <2>3, <2>6
  <2>8. fat["consumer"] = "reviewing" => ctodo' = {}
    BY <2>1 DEF FindInv, FindContext
  <2>9. \A k \in F!Pub :
          /\ pub'[k].closes = pub[k].closes
          /\ pub'[k].phase = "none" <=> pub[k].phase = "none"
          /\ pub[k].phase = "applied" => pub'[k].phase = "applied"
          /\ pub'[k].phase \in {"none", "applied"} => pub'[k].owner = "none"
    BY <2>3, <2>6 DEF FindInv, FindJournal
  <2>10. InRound' /\ ~told' => ~told
    BY <1>1
  <2>11. UNCHANGED <<last, before>>
    BY <1>1
  <2>12. fat'["consumer"] = "reviewing" => ctodo' = {}
    BY <2>4, <2>8
  <2> HIDE DEF n
  <2> QED BY <1>5, <2>4, <2>5, <2>7, <2>9, <2>10, <2>11, <2>12, JournalKeeps
<1> QED BY <1>3, <1>6, <1>7

\* An apply that fails gives up the context of the round it was for.
LEMMA FindApplyFails ==
    ASSUME F!Sane, FindInv, NEW a \in F!Actor, F!ApplyFails(a)
    PROVE  FindInv'
<1> DEFINE n == on[a]
<1>1. /\ F!TypeOK /\ n \in F!Pub /\ fat[a] = "applying"
      /\ UNCHANGED <<finding, shown, last, targets, before>>
      /\ pub \in [F!Pub -> Staged] /\ F!AfterApply(a) /\ ffaults' \in 0..MaxFaults
      /\ pub' = [pub EXCEPT ![n] = IF a = "cron" THEN F!Settled(@) ELSE F!Orphaned(a, @)]
      /\ IF a = "consumer" THEN ctodo' = {} /\ told' = TRUE
                           ELSE UNCHANGED <<ctodo, told>>
  BY JournalIsStaged, FindFaults DEF F!ApplyFails, FindInv, FindStands, F!TypeOK,
     F!Actor, F!Pub
<1>2. PICK p : p = IF a = "cron" THEN F!Settled(pub[n]) ELSE F!Orphaned(a, pub[n])
  OBVIOUS
<1>3. /\ p \in Staged /\ p.phase = pub[n].phase /\ p.closes = pub[n].closes
      /\ pub[n].owner = "none" => p.owner = "none"
  BY <1>1, <1>2, JournalWrites
<1>4. pub' = [pub EXCEPT ![n] = p]
  BY <1>1, <1>2
<1>5. /\ FindStands'
      /\ InRound' => InRound
      /\ fat' \in [F!Actor -> {"idle", "context", "reviewing", "sending", "sent",
                               "found", "applying"}]
      /\ on' \in [F!Actor -> 0..MaxPub] /\ step' \in [F!Actor -> 0..2]
      /\ fat'["consumer"] = "reviewing" => fat["consumer"] = "reviewing"
  BY <1>1, AfterStanding
<1>6. ctodo' \subseteq F!Pub /\ told' \in BOOLEAN
  BY <1>1 DEF F!TypeOK
<1>7. F!TypeOK'
  BY <1>1, <1>3, <1>4, <1>5, <1>6, FindTypeStep DEF F!TypeOK
<1>8. \A k \in F!Pub :
          /\ pub'[k].closes = pub[k].closes
          /\ pub'[k].phase = "none" <=> pub[k].phase = "none"
          /\ pub[k].phase = "applied" => pub'[k].phase = "applied"
          /\ pub'[k].phase \in {"none", "applied"} => pub'[k].owner = "none"
  BY <1>1, <1>3, <1>4 DEF FindInv, FindJournal
<1>9. fat'["consumer"] = "reviewing" => ctodo' = {}
  BY <1>1, <1>5 DEF FindInv, FindContext
<1>10. InRound' /\ ~told' => ~told /\ \A m \in ctodo : m \in ctodo'
  BY <1>1 DEF F!Actor
<1> HIDE DEF n
<1> QED BY <1>1, <1>5, <1>7, <1>8, <1>9, <1>10, JournalKeeps

\* A round begins with everything that is confirmed still to be applied.
LEMMA FindBegin == ASSUME F!Sane, FindInv, F!Begin PROVE FindInv'
<1>1. /\ F!TypeOK /\ last' = last + 1 /\ last' \in F!Pub /\ fat["consumer"] = "idle"
      /\ F!Stand("consumer", "context", last')
      /\ ctodo' = F!Pending /\ told' = FALSE
      /\ before' = [before EXCEPT ![last'] = F!Pending]
      /\ UNCHANGED <<finding, pub, shown, targets, ffaults>>
      /\ pub \in [F!Pub -> Staged] /\ last \in 0..MaxPub /\ last' \in 0..MaxPub
  BY JournalIsStaged DEF F!Begin, F!Sane, FindInv, F!TypeOK, F!Pub
<1>2. /\ fat' \in [F!Actor -> {"idle", "context", "reviewing", "sending", "sent",
                               "found", "applying"}]
      /\ on' \in [F!Actor -> 0..MaxPub] /\ step' \in [F!Actor -> 0..2]
      /\ fat'["consumer"] = "context" /\ on'["consumer"] = last'
      /\ fat'["cron"] = fat["cron"] /\ on'["cron"] = on["cron"]
  BY <1>1 DEF F!Stand, F!TypeOK, F!Actor
<1>3. F!Pending \in SUBSET F!Pub
  BY DEF F!Pending
<1>4. F!TypeOK'
  BY <1>1, <1>2, <1>3, FindTypeStep DEF F!TypeOK
<1>5. FindStands'
  BY <1>1, <1>2 DEF FindInv, FindStands, F!Actor
<1>6. FindJournal'
  <2>1. \A n \in F!Pub : n > last' \/ n = last' => n > last
    BY <1>1 DEF F!Pub
  <2> QED BY <1>1, <2>1 DEF FindInv, FindJournal
<1>7. FindContext'
  <2>1. pub[last'].phase = "none" /\ pub[last'].closes = {}
    BY <1>1 DEF FindInv, FindJournal, F!Pub
  <2>2. /\ before'[last'] = F!Pending
        /\ \A n \in F!Pub : n # last' => before'[n] = before[n]
    BY <1>1 DEF F!TypeOK
  <2> QED BY <1>1, <1>2, <2>1, <2>2 DEF FindInv, FindContext
<1> QED BY <1>4, <1>5, <1>6, <1>7 DEF FindInv

\* What can not be claimed is told; what is claimed is an older row.
LEMMA FindClaimPending == ASSUME F!Sane, FindInv, F!ClaimPending PROVE FindInv'
<1> DEFINE n == F!Oldest
<1>1. /\ F!TypeOK /\ fat["consumer"] = "context" /\ n \in ctodo /\ n \in F!Pub
      /\ UNCHANGED <<finding, shown, last, targets, before, ffaults>>
      /\ pub \in [F!Pub -> Staged] /\ last \in 0..MaxPub /\ ctodo \subseteq F!Pub
  BY OldestIsOne, JournalIsStaged DEF F!ClaimPending, F!ClaimPendingBody, FindInv, F!TypeOK
<1>2. CASE pub[n].phase = "confirmed" /\ ~pub[n].live
  <2>1. /\ pub' = [pub EXCEPT ![n] = F!Claimed("consumer", @)]
        /\ F!Stand("consumer", "applying", n) /\ UNCHANGED <<ctodo, told>>
    BY <1>2 DEF F!ClaimPending, F!ClaimPendingBody
  <2>2. PICK p : p = F!Claimed("consumer", pub[n])
    OBVIOUS
  <2>3. p \in Staged /\ p.phase = pub[n].phase /\ p.closes = pub[n].closes
    BY <1>1, <2>2, JournalWrites DEF F!Actor
  <2>4. n \in 1..last /\ n \in 0..MaxPub
    BY <1>1, <1>2 DEF FindInv, FindJournal, F!Pub
  <2>5. /\ FindStands'
        /\ fat' \in [F!Actor -> {"idle", "context", "reviewing", "sending", "sent",
                                 "found", "applying"}]
        /\ on' \in [F!Actor -> 0..MaxPub] /\ step' \in [F!Actor -> 0..2]
        /\ fat'["consumer"] = "applying"
    BY <1>1, <2>1, <2>4, Standing DEF F!Actor
  <2>6. F!TypeOK'
    BY <1>1, <2>1, <2>2, <2>3, <2>5, FindTypeStep DEF F!TypeOK
  <2>7. \A k \in F!Pub :
          /\ pub'[k].closes = pub[k].closes
          /\ pub'[k].phase = "none" <=> pub[k].phase = "none"
          /\ pub[k].phase = "applied" => pub'[k].phase = "applied"
          /\ pub'[k].phase \in {"none", "applied"} => pub'[k].owner = "none"
    BY <1>1, <1>2, <2>1, <2>2, <2>3 DEF FindInv, FindJournal
  <2>8. InRound
    BY <1>1 DEF InRound
  <2> HIDE DEF n
  <2> QED BY <1>1, <2>1, <2>5, <2>6, <2>7, <2>8, JournalKeeps
<1>3. CASE ~(pub[n].phase = "confirmed" /\ ~pub[n].live)
  <2>1. ctodo' = {} /\ told' = TRUE /\ UNCHANGED <<pub, fat, on, step>>
    BY <1>3 DEF F!ClaimPending, F!ClaimPendingBody
  <2>2. F!TypeOK'
    BY <1>1, <2>1, FindTypeStep DEF F!TypeOK
  <2>3. FindStands' /\ InRound' = InRound
    BY <1>1, <2>1 DEF FindInv, FindStands, InRound
  <2> QED BY <1>1, <2>1, <2>2, <2>3, JournalKeeps DEF FindInv, FindJournal
<1> QED BY <1>2, <1>3

\* The targets are captured with nothing left to apply.
LEMMA FindCapture == ASSUME F!Sane, FindInv, F!Capture PROVE FindInv'
<1>1. /\ F!TypeOK /\ fat["consumer"] = "context" /\ ctodo = {}
      /\ F!Stand("consumer", "reviewing", last)
      /\ UNCHANGED <<finding, pub, shown, last, ctodo, before>>
      /\ targets' \subseteq Finding /\ last \in 0..MaxPub /\ last \in 1..last
      /\ ffaults' \in 0..MaxFaults /\ told' \in BOOLEAN /\ (~told' => ~told)
      /\ pub \in [F!Pub -> Staged]
  <2>1. F!TypeOK /\ fat["consumer"] = "context" /\ last \in 0..MaxPub /\ last \in 1..last
    BY DEF F!Capture, FindInv, FindStands, F!TypeOK, F!Actor
  <2>2. ffaults' \in 0..MaxFaults /\ told' \in BOOLEAN /\ (~told' => ~told)
    BY <2>1, FindFaults DEF F!Capture, F!TypeOK
  <2> QED BY <2>1, <2>2, JournalIsStaged DEF F!Capture
<1>2. /\ FindStands'
      /\ fat' \in [F!Actor -> {"idle", "context", "reviewing", "sending", "sent",
                               "found", "applying"}]
      /\ on' \in [F!Actor -> 0..MaxPub] /\ step' \in [F!Actor -> 0..2]
  BY <1>1, Standing DEF F!Actor
<1>3. F!TypeOK'
  BY <1>1, <1>2, FindTypeStep DEF F!TypeOK
<1>4. InRound
  BY <1>1 DEF InRound
<1> QED BY <1>1, <1>2, <1>3, <1>4, JournalKeeps DEF FindInv, FindJournal

\* A round that was not told has everything applied that it depends on.
LEMMA FindStage == ASSUME F!Sane, FindInv, F!Stage PROVE FindInv'
<1>1. /\ F!TypeOK /\ fat["consumer"] = "reviewing" /\ last \in F!Pub /\ last \in 1..last
      /\ last \in 0..MaxPub /\ F!Stand("consumer", "sending", last) /\ targets' = {}
      /\ UNCHANGED <<finding, shown, last, ctodo, told, before, ffaults>>
      /\ pub \in [F!Pub -> Staged]
  BY JournalIsStaged DEF F!Stage, FindInv, FindStands, F!TypeOK, F!Actor, F!Pub
<1>2. PICK p \in Staged : /\ pub' = [pub EXCEPT ![last] = p]
                          /\ p.phase = "sending" /\ (told => p.closes = {})
  <2>1. PICK seen \in SUBSET Finding : \E lines \in SUBSET seen :
           \E closes \in SUBSET (IF told THEN {} ELSE targets \ seen) :
             pub' = [pub EXCEPT ![last] =
                       [phase |-> "sending", owner |-> "consumer", live |-> TRUE,
                        attempts |-> 1, recovery |-> "pending", seen |-> seen,
                        closes |-> closes, lines |-> lines,
                        ids |-> [g \in Finding |-> IF finding[g].known
                                                   THEN finding[g].id ELSE last]]]
    BY DEF F!Stage
  <2>2. PICK lines \in SUBSET seen :
           \E closes \in SUBSET (IF told THEN {} ELSE targets \ seen) :
             pub' = [pub EXCEPT ![last] =
                       [phase |-> "sending", owner |-> "consumer", live |-> TRUE,
                        attempts |-> 1, recovery |-> "pending", seen |-> seen,
                        closes |-> closes, lines |-> lines,
                        ids |-> [g \in Finding |-> IF finding[g].known
                                                   THEN finding[g].id ELSE last]]]
    BY <2>1
  <2>3. PICK closes \in SUBSET (IF told THEN {} ELSE targets \ seen) :
             pub' = [pub EXCEPT ![last] =
                       [phase |-> "sending", owner |-> "consumer", live |-> TRUE,
                        attempts |-> 1, recovery |-> "pending", seen |-> seen,
                        closes |-> closes, lines |-> lines,
                        ids |-> [g \in Finding |-> IF finding[g].known
                                                   THEN finding[g].id ELSE last]]]
    BY <2>2
  <2>4. PICK ids : ids = [g \in Finding |-> IF finding[g].known
                                            THEN finding[g].id ELSE last]
    OBVIOUS
  <2>5. ids \in [Finding -> 0..MaxPub]
    BY <1>1, <2>4 DEF F!TypeOK, F!Row
  <2>6. PICK p : p = [phase |-> "sending", owner |-> "consumer", live |-> TRUE,
                      attempts |-> 1, recovery |-> "pending", seen |-> seen,
                      closes |-> closes, lines |-> lines, ids |-> ids]
    OBVIOUS
  <2>7. 1 \in 0..MaxAttempts
    BY DEF F!Sane
  <2>8. closes \subseteq Finding /\ (told => closes = {})
    BY <1>1 DEF F!TypeOK
  <2>9. p \in Staged /\ p.phase = "sending" /\ p.closes = closes
    BY <2>5, <2>6, <2>7, <2>8 DEF Staged, F!Journal, F!Actor
  <2> QED BY <2>3, <2>4, <2>6, <2>8, <2>9
<1>3. /\ FindStands'
      /\ fat' \in [F!Actor -> {"idle", "context", "reviewing", "sending", "sent",
                               "found", "applying"}]
      /\ on' \in [F!Actor -> 0..MaxPub] /\ step' \in [F!Actor -> 0..2]
      /\ fat'["consumer"] = "sending"
  BY <1>1, Standing DEF F!Actor
<1>4. F!TypeOK'
  BY <1>1, <1>2, <1>3, FindTypeStep DEF F!TypeOK
<1>5. /\ InRound /\ ~InRound' /\ pub[last].phase = "none" /\ ctodo = {}
      /\ pub'[last] = p /\ \A n \in F!Pub : n # last => pub'[n] = pub[n]
  BY <1>1, <1>2, <1>3 DEF InRound, FindInv, FindJournal, FindContext
<1>6. FindJournal'
  BY <1>1, <1>2, <1>5 DEF FindInv, FindJournal, F!Pub
<1>7. \A m \in F!Pub : pub[m].phase = "applied" => pub'[m].phase = "applied"
  BY <1>5
<1>8. before \in [F!Pub -> SUBSET F!Pub]
  BY <1>1 DEF F!TypeOK
<1>9. FindContext'
  <2>1. \A n \in F!Pub : pub'[n].closes # {} => \A m \in before[n] : pub[m].phase = "applied"
    BY <1>1, <1>2, <1>5 DEF FindInv, FindContext
  <2> QED BY <1>1, <1>3, <1>5, <1>7, <1>8, <2>1 DEF FindContext
<1> QED BY <1>3, <1>4, <1>6, <1>9 DEF FindInv

\* A step that leaves the tables alone, or changes who holds a row.
LEMMA HoldersChange ==
    ASSUME F!Sane, FindInv, NEW a \in F!Actor, NEW n \in 0..MaxPub,
           NEW where \in {"idle", "sending", "sent", "found", "applying"},
           F!Stand(a, where, n), where # "idle" => n \in 1..last,
           a = "consumer" /\ where # "idle" => n = last,
           UNCHANGED <<finding, last, targets, before>>,
           told' \in BOOLEAN, ctodo' \subseteq F!Pub,
           a = "cron" => UNCHANGED <<told, ctodo>>,
           shown' \in 0..MaxPub, ffaults' \in 0..MaxFaults,
           pub' \in [F!Pub -> Staged],
           \A k \in F!Pub :
             /\ pub'[k].closes = pub[k].closes
             /\ pub'[k].phase = "none" <=> pub[k].phase = "none"
             /\ pub[k].phase = "applied" => pub'[k].phase = "applied"
             /\ pub'[k].phase \in {"none", "applied"} => pub'[k].owner = "none"
    PROVE  FindInv'
<1>1. /\ FindStands'
      /\ fat' \in [F!Actor -> {"idle", "context", "reviewing", "sending", "sent",
                               "found", "applying"}]
      /\ on' \in [F!Actor -> 0..MaxPub] /\ step' \in [F!Actor -> 0..2]
      /\ fat'[a] = where /\ on'[a] = n
      /\ a = "cron" => /\ fat'["consumer"] = fat["consumer"]
                       /\ on'["consumer"] = on["consumer"]
  BY Standing
<1>2. F!TypeOK'
  BY <1>1, FindTypeStep DEF FindInv, F!TypeOK
<1>3. CASE a = "consumer"
  <2>1. ~InRound' /\ fat'["consumer"] # "reviewing"
    BY <1>1, <1>3 DEF InRound
  <2> QED BY <1>1, <1>2, <2>1, JournalKeeps
<1>4. CASE a = "cron"
  <2>1. InRound' => InRound
    BY <1>1, <1>4 DEF InRound
  <2>2. fat'["consumer"] = "reviewing" => ctodo' = {}
    BY <1>1, <1>4 DEF FindInv, FindContext
  <2> QED BY <1>1, <1>2, <1>4, <2>1, <2>2, JournalKeeps
<1> QED BY <1>3, <1>4 DEF F!Actor

\* Sending changes no row but that of a send that fails, which is let go.
LEMMA FindSend == ASSUME F!Sane, FindInv, F!Send \/ F!SendFails PROVE FindInv'
<1>1. /\ F!TypeOK /\ fat["consumer"] = "sending" /\ last \in 1..last
      /\ last \in F!Pub /\ last \in 0..MaxPub /\ 0 \in 0..MaxPub
      /\ pub \in [F!Pub -> Staged] /\ shown' \in 0..MaxPub
      /\ UNCHANGED <<finding, last, targets, before, told, ctodo>>
      /\ ffaults' \in 0..MaxFaults /\ told \in BOOLEAN /\ ctodo \subseteq F!Pub
  <2>1. F!TypeOK /\ fat["consumer"] = "sending"
    BY DEF F!Send, F!SendFails, FindInv
  <2>2. last \in 1..last /\ last \in F!Pub /\ last \in 0..MaxPub /\ 0 \in 0..MaxPub
    BY <2>1 DEF F!Sane, FindInv, FindStands, F!TypeOK, F!Actor, F!Pub
  <2>3. ffaults' \in 0..MaxFaults
    BY <2>1, FindFaults DEF F!Send, F!SendFails
  <2> QED BY <2>1, <2>2, <2>3, JournalIsStaged DEF F!Send, F!SendFails, F!round, F!TypeOK
<1>2. CASE F!Send
  BY <1>1, <1>2, HoldersChange DEF F!Send, F!Actor, FindInv, FindJournal
<1>3. CASE F!SendFails
  <2>1. /\ pub' = [pub EXCEPT ![last] = F!Orphaned("consumer", @)]
        /\ F!Stand("consumer", "idle", 0)
    BY <1>3 DEF F!SendFails
  <2>2. PICK p : p = F!Orphaned("consumer", pub[last])
    OBVIOUS
  <2>3. /\ p \in Staged /\ p.phase = pub[last].phase /\ p.closes = pub[last].closes
        /\ pub[last].owner = "none" => p.owner = "none"
    BY <1>1, <2>2, JournalWrites DEF F!Actor
  <2>4. \A k \in F!Pub :
          /\ pub'[k].closes = pub[k].closes
          /\ pub'[k].phase = "none" <=> pub[k].phase = "none"
          /\ pub[k].phase = "applied" => pub'[k].phase = "applied"
          /\ pub'[k].phase \in {"none", "applied"} => pub'[k].owner = "none"
    BY <1>1, <2>1, <2>2, <2>3 DEF FindInv, FindJournal
  <2>5. pub' \in [F!Pub -> Staged]
    BY <1>1, <2>1, <2>2, <2>3
  <2> QED BY <1>1, <2>1, <2>4, <2>5, HoldersChange DEF F!Actor
<1> QED BY <1>2, <1>3

\* Only the holder of a row confirms it, so no applied row comes back.
LEMMA FindProve ==
    ASSUME F!Sane, FindInv, NEW a \in F!Actor, F!Prove(a)
    PROVE  FindInv'
<1> DEFINE n == on[a]
<1>1. /\ F!TypeOK /\ fat[a] \in {"sent", "found"} /\ n \in 1..last /\ n \in F!Pub
      /\ n \in 0..MaxPub /\ 0 \in 0..MaxPub /\ (a = "consumer" => n = last)
      /\ pub \in [F!Pub -> Staged] /\ shown' \in 0..MaxPub /\ ffaults' \in 0..MaxFaults
      /\ UNCHANGED <<finding, last, targets, before, told, ctodo>>
      /\ told \in BOOLEAN /\ ctodo \subseteq F!Pub
  BY JournalIsStaged DEF F!Prove, F!round, F!Sane, FindInv, FindStands, F!TypeOK, F!Actor,
     F!Pub
<1>2. CASE pub[n].owner = a
  <2>1. pub' = [pub EXCEPT ![n].phase = "confirmed"] /\ F!Stand(a, "applying", n)
    BY <1>2 DEF F!Prove
  <2>2. PICK p : p = [pub[n] EXCEPT !.phase = "confirmed"]
    OBVIOUS
  <2>3. p \in Staged /\ p.phase = "confirmed" /\ p.closes = pub[n].closes
    <3>1. pub[n] \in Staged
      BY <1>1
    <3> QED BY <1>2, <2>2, <3>1 DEF Staged, F!Journal
  <2>4. pub' = [pub EXCEPT ![n] = p]
    BY <2>1, <2>2
  <2>5. pub[n].phase \notin {"none", "applied"}
    BY <1>1, <1>2 DEF FindInv, FindJournal, F!Actor
  <2>6. \A k \in F!Pub :
          /\ pub'[k].closes = pub[k].closes
          /\ pub'[k].phase = "none" <=> pub[k].phase = "none"
          /\ pub[k].phase = "applied" => pub'[k].phase = "applied"
          /\ pub'[k].phase \in {"none", "applied"} => pub'[k].owner = "none"
    BY <1>1, <2>3, <2>4, <2>5 DEF FindInv, FindJournal
  <2>7. pub' \in [F!Pub -> Staged]
    BY <1>1, <2>3, <2>4
  <2> HIDE DEF n
  <2> QED BY <1>1, <2>1, <2>6, <2>7, HoldersChange
<1>3. CASE pub[n].owner # a
  BY <1>1, <1>3, HoldersChange DEF F!Prove, FindInv, FindJournal
<1> QED BY <1>2, <1>3

\* The cron takes and lets go rows, and stages none.
LEMMA FindCron ==
    ASSUME F!Sane, FindInv, F!Discover \/ \E n \in F!Pub : F!CronClaim(n)
    PROVE  FindInv'
<1>1. /\ F!TypeOK /\ 0 \in 0..MaxPub /\ pub \in [F!Pub -> Staged]
      /\ shown' \in 0..MaxPub /\ ffaults' \in 0..MaxFaults
      /\ UNCHANGED <<finding, last, targets, before, told, ctodo>>
      /\ told \in BOOLEAN /\ ctodo \subseteq F!Pub
      /\ "cron" \in F!Actor /\ "cron" # "consumer"
  BY JournalIsStaged DEF F!Discover, F!CronClaim, F!round, F!Sane, FindInv, F!TypeOK, F!Actor
<1>2. CASE F!Discover
  <2> DEFINE n == on["cron"]
  <2>1. n \in 1..last /\ n \in F!Pub /\ n \in 0..MaxPub
    BY <1>1, <1>2 DEF F!Discover, FindInv, FindStands, F!TypeOK, F!Pub
  <2>2. CASE shown = n
    <3>1. F!Stand("cron", "found", n) /\ UNCHANGED pub
      BY <1>2, <2>2 DEF F!Discover
    <3> HIDE DEF n
    <3> QED BY <1>1, <2>1, <3>1, HoldersChange DEF FindInv, FindJournal
  <2>3. CASE shown # n
    <3>1. pub' = [pub EXCEPT ![n] = F!Settled(@)] /\ F!Stand("cron", "idle", 0)
      BY <1>2, <2>3 DEF F!Discover
    <3>2. PICK p : p = F!Settled(pub[n])
      OBVIOUS
    <3>3. /\ p \in Staged /\ p.phase = pub[n].phase /\ p.closes = pub[n].closes
          /\ pub[n].owner = "none" => p.owner = "none"
      BY <1>1, <2>1, <3>2, JournalWrites
    <3>4. pub' = [pub EXCEPT ![n] = p]
      BY <3>1, <3>2
    <3>5. \A k \in F!Pub :
            /\ pub'[k].closes = pub[k].closes
            /\ pub'[k].phase = "none" <=> pub[k].phase = "none"
            /\ pub[k].phase = "applied" => pub'[k].phase = "applied"
            /\ pub'[k].phase \in {"none", "applied"} => pub'[k].owner = "none"
      BY <1>1, <2>1, <3>3, <3>4 DEF FindInv, FindJournal
    <3>6. pub' \in [F!Pub -> Staged]
      BY <1>1, <2>1, <3>3, <3>4
    <3> HIDE DEF n
    <3> QED BY <1>1, <3>1, <3>5, <3>6, HoldersChange
  <2> QED BY <2>2, <2>3
<1>3. ASSUME NEW n \in F!Pub, F!CronClaim(n) PROVE FindInv'
  <2>1. /\ pub[n].phase \in {"sending", "confirmed"}
        /\ pub' = [pub EXCEPT ![n] = F!Claimed("cron", @)]
        /\ F!Stand("cron", IF pub[n].phase = "confirmed" THEN "applying" ELSE "sending", n)
    BY <1>3 DEF F!CronClaim, F!Selectable
  <2>2. n \in 1..last /\ n \in 0..MaxPub
    BY <1>1, <2>1 DEF FindInv, FindJournal, F!TypeOK, F!Pub
  <2>3. PICK p : p = F!Claimed("cron", pub[n])
    OBVIOUS
  <2>4. p \in Staged /\ p.phase = pub[n].phase /\ p.closes = pub[n].closes
    BY <1>1, <2>3, JournalWrites
  <2>5. \A k \in F!Pub :
          /\ pub'[k].closes = pub[k].closes
          /\ pub'[k].phase = "none" <=> pub[k].phase = "none"
          /\ pub[k].phase = "applied" => pub'[k].phase = "applied"
          /\ pub'[k].phase \in {"none", "applied"} => pub'[k].owner = "none"
    BY <1>1, <2>1, <2>3, <2>4 DEF FindInv, FindJournal
  <2>6. pub' \in [F!Pub -> Staged]
    BY <1>1, <2>1, <2>3, <2>4
  <2>7. PICK where \in {"applying", "sending"} : F!Stand("cron", where, n)
    BY <2>1
  <2> QED BY <1>1, <2>2, <2>5, <2>6, <2>7, HoldersChange
<1> QED BY <1>2, <1>3

\* A death leaves the rows with a holder that does nothing.
LEMMA FindDies ==
    ASSUME F!Sane, FindInv, NEW a \in F!Actor, F!Die(a)
    PROVE  FindInv'
<1>1. /\ F!TypeOK /\ 0 \in 0..MaxPub /\ pub \in [F!Pub -> Staged]
      /\ shown' \in 0..MaxPub /\ ffaults' \in 0..MaxFaults
      /\ UNCHANGED <<finding, last, targets, before, told>>
      /\ told \in BOOLEAN /\ ctodo' \subseteq F!Pub /\ (a = "cron" => UNCHANGED ctodo)
      /\ F!Stand(a, "idle", 0) /\ pub' = [n \in F!Pub |-> F!Orphaned(a, pub[n])]
  BY JournalIsStaged, FindFaults DEF F!Die, F!Sane, FindInv, F!TypeOK
<1>2. \A k \in F!Pub :
        /\ pub'[k] \in Staged
        /\ pub'[k].closes = pub[k].closes
        /\ pub'[k].phase = pub[k].phase
        /\ pub[k].owner = "none" => pub'[k].owner = "none"
  BY <1>1, JournalWrites
<1>3. \A k \in F!Pub :
        /\ pub'[k].closes = pub[k].closes
        /\ pub'[k].phase = "none" <=> pub[k].phase = "none"
        /\ pub[k].phase = "applied" => pub'[k].phase = "applied"
        /\ pub'[k].phase \in {"none", "applied"} => pub'[k].owner = "none"
  BY <1>2 DEF FindInv, FindJournal
<1>4. pub' \in [F!Pub -> Staged]
  BY <1>1, <1>2
<1> QED BY <1>1, <1>3, <1>4, HoldersChange

\* An expiry only ends a lease.
LEMMA FindExpires ==
    ASSUME F!Sane, FindInv, NEW n \in F!Pub, F!Expire(n)
    PROVE  FindInv'
<1>1. /\ F!TypeOK /\ pub \in [F!Pub -> Staged] /\ ffaults' \in 0..MaxFaults
      /\ UNCHANGED <<finding, shown, last, fat, on, ctodo, told, targets, before, step>>
      /\ pub' = [pub EXCEPT ![n].live = FALSE]
  BY JournalIsStaged, FindFaults DEF F!Expire, F!round, FindInv
<1>2. PICK p : p = [pub[n] EXCEPT !.live = FALSE]
  OBVIOUS
<1>3. p \in Staged /\ p.phase = pub[n].phase /\ p.closes = pub[n].closes
      /\ p.owner = pub[n].owner
  <2>1. pub[n] \in Staged
    BY <1>1
  <2> QED BY <1>2, <2>1 DEF Staged, F!Journal
<1>4. pub' = [pub EXCEPT ![n] = p]
  BY <1>1, <1>2
<1>5. \A k \in F!Pub :
        /\ pub'[k].closes = pub[k].closes
        /\ pub'[k].phase = "none" <=> pub[k].phase = "none"
        /\ pub[k].phase = "applied" => pub'[k].phase = "applied"
        /\ pub'[k].phase \in {"none", "applied"} => pub'[k].owner = "none"
  BY <1>1, <1>3, <1>4 DEF FindInv, FindJournal
<1>6. F!TypeOK'
  <2>1. pub' \in [F!Pub -> Staged]
    BY <1>1, <1>3, <1>4
  <2> QED BY <1>1, <2>1, FindTypeStep DEF F!TypeOK
<1>7. FindStands' /\ InRound' = InRound
  BY <1>1 DEF FindInv, FindStands, InRound
<1>8. fat'["consumer"] = "reviewing" => ctodo' = {}
  BY <1>1 DEF FindInv, FindContext
<1> QED BY <1>1, <1>5, <1>6, <1>7, <1>8, JournalKeeps

\* Every step keeps FindInv.
LEMMA FindNext == F!Sane /\ FindInv /\ [F!Next]_fvars => FindInv'
<1> SUFFICES ASSUME F!Sane, FindInv, [F!Next]_fvars PROVE FindInv'
  OBVIOUS
<1>1. CASE UNCHANGED fvars
  BY <1>1 DEF fvars, FindInv, F!TypeOK, FindStands, FindJournal, FindContext, InRound
<1> QED BY <1>1, FindBegin, FindClaimPending, FindCapture, FindStage, FindSend, FindCron,
           FindBatch, FindApplyFails, FindProve, FindDies, FindExpires DEF F!Next

\* Only a batch closes.
LEMMA OnlyBatchesClose ==
    F!Sane /\ FindInv /\ [F!Next]_fvars => [F!ClosesInContext]_fvars
<1> SUFFICES ASSUME F!Sane, FindInv, F!Next PROVE F!ClosesInContext
  OBVIOUS
<1>1. ASSUME NEW a \in F!Actor, F!Batch(a) PROVE F!ClosesInContext
  BY <1>1, FindBatch
<1>2. ASSUME ~ \E a \in F!Actor : F!Batch(a) PROVE UNCHANGED finding
  BY <1>2 DEF F!Next, F!Begin, F!ClaimPending, F!ClaimPendingBody, F!Capture, F!Stage,
     F!Send, F!SendFails, F!Discover, F!ApplyFails, F!Prove, F!Die, F!CronClaim, F!Expire
<1> QED BY <1>1, <1>2 DEF F!ClosesInContext

\* Every behaviour of MCStores is one of its lane of findings.
LEMMA FindingsAlone == LanesSpec => F!Init /\ [][F!Next]_fvars
<1>1. LanesInit => F!Init
  BY DEF LanesInit
<1>2. [LanesNext]_allvars => [F!Next]_fvars
  BY DEF LanesNext, allvars, fvars
<1> QED BY <1>1, <1>2, PTL DEF LanesSpec

\* FindInv is an invariant of the lane of findings.
LEMMA FindInvHolds == LanesSpec => []FindInv
<1>1. F!Sane
  BY LanesAreSane
<1> QED BY <1>1, FindingsAlone, FindInit, FindNext, PTL

\* A round closes a finding only if everything that was confirmed when it began
\* has been applied before: for any findings, publications, attempts and faults,
\* whoever held those rows and whatever failed.
THEOREM ClosesWithContextHolds == LanesSpec => ClosesWithContext
<1>1. F!Sane
  BY LanesAreSane
<1> QED BY <1>1, FindingsAlone, FindInvHolds, OnlyBatchesClose, PTL DEF ClosesWithContext

-----------------------------------------------------------------------------
(* All lanes.                                                              *)

\* The types of every lane hold, whatever its constants.
THEOREM LanesType == LanesSpec => []LanesTypeOK
<1>1. Sane
  BY LanesAreSane
<1>2. LanesSpec => []TypeOK
  BY <1>1, SeatsAlone, WorkspacesType
<1>3. VP!SeatInv => V!TypeOK
  BY PlansAgree DEF VP!SeatInv, VP!WInv
<1>4. FindInv => F!TypeOK
  BY DEF FindInv
<1>5. A!IInv => A!TypeOK
  BY DEF A!IInv
<1>6. TypeOK /\ V!TypeOK /\ C!TypeOK /\ F!TypeOK /\ R!TypeOK /\ H!TypeOK /\ U!TypeOK
      /\ A!TypeOK => LanesTypeOK
  BY DEF LanesTypeOK
<1> QED BY <1>2, <1>3, <1>4, <1>5, <1>6, PlanInvHolds, ClaimTypes, FindInvHolds,
           ResolutionType, HeadType, RunType, ConfigInvHolds, PTL
=============================================================================
