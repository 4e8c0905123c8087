------------------------------ MODULE MCStores ------------------------------
(***************************************************************************)
(* Instances for TLC of components that own their tables and have no       *)
(* variable in common.  A behaviour is a behaviour of one of them, its     *)
(* lane, while the others stay where they begin: every lane is checked as  *)
(* if it were alone.  The constants and variables of lane "members" are    *)
(* those of Workspaces itself.                                             *)
(***************************************************************************)
EXTENDS Workspaces

CONSTANTS
    wx, wy, uo, ua, ub, ra, rb,     \* Workspaces: workspaces, logins, requests
    c1, h1, h2, s1, s2, NoComment,  \* CommentClaims
    ca, cb,                         \* HeadLane: commits
    MaxFaults, MaxAttempts          \* of every lane

CONSTANTS Finding, MaxPub                                    \* Findings

CONSTANTS MaxTalk, MaxIssue, MaxReviews                      \* Resolutions

CONSTANTS Event, Sha, NoSha, ShaOf, StampOf, StateOf, Queue  \* HeadLane

CONSTANTS Seat, Guard, Soft, Tail, Margin, Floor             \* Runner

VARIABLES
    lane,
    pws, pmember, pinvite, preq, pclock,
    state, attempts, stale, kv, hook, todo, sent, at, of, tries, held, runs, traced,
    finding, pub, shown, last, fat, on, ctodo, told, targets, before, step, ffaults,
    row, addressed, thread, talk, issue, rat, carry, spent, reviews, rfaults,
    ledger, kvc, deliv, job, saw, outcome, reviewed, arrived, hfaults,
    now, deep, proc, seat, seatEnd, turn, heard, turnEnd, recheck, recheckEnd,
    hurried, out, exit,
    decl, pool, chains, roles, areq

-----------------------------------------------------------------------------

\* Lane "members": one workspace whose members change, three logins for two
\* seats, and an invitation may lapse.  The seats themselves are checked by
\* MCRounds.
MCSeats == [p \in {"free", "paid"} |-> 2]

\* Two workspaces, two logins, and plans that change.
V == INSTANCE Workspaces WITH
       Ws <- {wx, wy}, User <- {uo, ua},
       Kinds <- {"create", "accept", "found", "plan"},
       Seats <- [p \in {"free", "paid"} |-> 2],
       MaxInvites <- 1, MaxClock <- 0, InviteTtl <- 1,
       ws <- pws, member <- pmember, invite <- pinvite, req <- preq,
       clock <- pclock

\* One comment, its delivery and GitHub's retry of it, every send fault.
C == INSTANCE CommentProofs WITH
       Comment <- {c1}, Hook <- {h1, h2}, CommentOf <- [w \in {h1, h2} |-> c1],
       Slot <- {s1, s2}, MaxDeliveries <- 1,
       SendFault <- {"lost", "ambiguous", "slow"}

F == INSTANCE Findings WITH at <- fat, todo <- ctodo, faults <- ffaults

R == INSTANCE Resolutions WITH at <- rat, faults <- rfaults

\* A commit, a second one, and its merge within the same second.
MCShaOf   == <<ca, cb, cb>>
MCStampOf == <<1, 2, 2>>
MCStateOf == <<"open", "open", "merged">>

H == INSTANCE HeadLane WITH kv <- kvc, hook <- deliv, faults <- hfaults

\* Four minutes: caps of one minute, a tail of one.
U == INSTANCE Runner WITH told <- hurried

\* Two requests, room for one declaration and for two keys of three; apart
\* from them, in a lane of their own, the chains.
A == INSTANCE AppConfigProofs WITH
       Request <- {1, 2}, Provider <- {"a", "b"}, Endpoint <- {"here", "there"},
       Key <- {"k", "l", "m"}, Chain <- {"fast", "slow"}, Role <- {"audit", "security"},
       None <- "none", Kinds <- {"keys", "chains"}, MaxKeys <- 2, MaxDeclared <- 1,
       seat <- roles, req <- areq

ASSUME LanesAreSane ==
    /\ Sane /\ V!Sane /\ C!ClaimsAssumption /\ F!Sane /\ R!Sane
    /\ H!Sane /\ U!Sane /\ A!Sane

-----------------------------------------------------------------------------

pvars == <<pws, pmember, pinvite, preq, pclock>>
cvars == <<state, attempts, stale, kv, hook, todo, sent, at, of, tries, held,
           runs, traced>>
fvars == <<finding, pub, shown, last, fat, on, ctodo, told, targets, before, step,
           ffaults>>
rvars == <<row, addressed, thread, talk, issue, rat, carry, spent, reviews, rfaults>>
hvars == <<ledger, kvc, deliv, job, saw, outcome, reviewed, arrived, hfaults>>
uvars == <<now, deep, proc, seat, seatEnd, turn, heard, turnEnd, recheck,
           recheckEnd, hurried, out, exit>>
avars == <<decl, pool, chains, roles, areq>>

allvars == <<lane, vars, pvars, cvars, fvars, rvars, hvars, uvars, avars>>

LanesInit ==
    /\ lane \in {"members", "plans", "claims", "findings", "resolutions", "heads", "runs",
               "keys", "chains"}
    /\ Init /\ V!Init /\ C!Init /\ F!Init /\ R!Init /\ H!Init /\ U!Init /\ A!Init
    /\ lane # "findings" => \A g \in Finding : ~finding[g].known
    /\ lane # "runs" => ~deep

LanesNext ==
    /\ UNCHANGED lane
    /\ \/ /\ lane = "members" /\ Next
          /\ UNCHANGED <<pvars, cvars, fvars, rvars, hvars, uvars, avars>>
       \/ /\ lane = "plans" /\ V!Next
          /\ UNCHANGED <<vars, cvars, fvars, rvars, hvars, uvars, avars>>
       \/ /\ lane = "claims" /\ C!Next
          /\ UNCHANGED <<vars, pvars, fvars, rvars, hvars, uvars, avars>>
       \/ /\ lane = "findings" /\ F!Next
          /\ UNCHANGED <<vars, pvars, cvars, rvars, hvars, uvars, avars>>
       \/ /\ lane = "resolutions" /\ R!Next
          /\ UNCHANGED <<vars, pvars, cvars, fvars, hvars, uvars, avars>>
       \/ /\ lane = "heads" /\ H!Next
          /\ UNCHANGED <<vars, pvars, cvars, fvars, rvars, uvars, avars>>
       \/ /\ lane = "runs" /\ U!Next
          /\ UNCHANGED <<vars, pvars, cvars, fvars, rvars, hvars, avars>>
       \/ /\ lane \in {"keys", "chains"}
          /\ \/ lane = "keys" /\ A!OnKeys
             \/ lane = "chains" /\ A!OnChains
             \/ \E r \in {1, 2} : A!Die(r)
          /\ UNCHANGED <<vars, pvars, cvars, fvars, rvars, hvars, uvars>>

\* The fairness of CommentClaims and of Resolutions.
LanesFairness ==
    /\ \A w \in {h1, h2} : WF_cvars(lane = "claims" /\ C!HookStep(w))
    /\ \A i \in {s1, s2} : WF_cvars(lane = "claims" /\ C!Consumer(i))
    /\ WF_cvars(lane = "claims" /\ C!Elapse(c1))
    /\ WF_cvars(lane = "claims" /\ C!SweepStart)
    /\ SF_cvars(lane = "claims" /\ C!SweepSend(c1))
    /\ SF_cvars(lane = "claims" /\ C!SweepCount(c1))
    /\ WF_rvars(lane = "resolutions" /\ R!Consumer)
    /\ WF_rvars(lane = "resolutions" /\ R!Cron)
    /\ WF_rvars(lane = "resolutions" /\ R!Expire)
    /\ WF_rvars(lane = "resolutions" /\ R!Due)
    /\ WF_rvars(lane = "resolutions" /\ R!Reenable)

LanesSpec == LanesInit /\ [][LanesNext]_allvars /\ LanesFairness

-----------------------------------------------------------------------------
(* The properties of the lanes; in the other lanes each holds as at the    *)
(* beginning.  They are explained in their modules.  AlwaysOwned and       *)
(* RetiredIsEmpty are those of Workspaces, in lane "members".              *)

\* The types of the variables of the lane.
LanesTypeOK ==
    /\ lane = "members" => TypeOK
    /\ lane = "plans" => V!TypeOK
    /\ lane = "claims" => C!TypeOK
    /\ lane = "findings" => F!TypeOK
    /\ lane = "resolutions" => R!TypeOK
    /\ lane = "heads" => H!TypeOK
    /\ lane = "runs" => U!TypeOK
    /\ lane \in {"keys", "chains"} => A!TypeOK

\* Workspaces: no race takes a second free workspace.
LanesOneHome == V!OneFreeHome

\* CommentClaims and Resolutions: no claim stays queued for ever and no verdict
\* stays in the queue of threads.  In the lane of each the other's part is as at
\* the beginning, so that this is ClaimSettles and VerdictsEnd in one formula.
Waits == state[c1] = "queued" \/ R!InQueue

NothingStaysQueued == Waits ~> ~Waits

\* Findings: a round closes only what it has seen in full.
ClosesWithContext == [][F!ClosesInContext]_fvars

\* Resolutions: a late push or reply is told.
LateChangeIsTold == R!LateChangeIsTold

\* HeadLane: the jobs of one pull request do not skip each other away.
OneIsNotSkipped == H!OneIsNotSkipped

\* HeadLane: the ledger's row is that of the newest delivery.
LedgerIsNewest == H!LedgerIsNewest

\* Runner: what the envelope says of the seats is true.
EnvelopeIsHonest == U!EnvelopeIsHonest

\* Runner: every cap leaves room for what comes after it.
GuardKillsNoReview == U!GuardKillsNoReview

\* Runner: nothing runs in the sessions that are disposed.
TeardownIsLast == U!TeardownIsLast

\* AppConfig: every key is used where it was verified.
KeysAtTheirEndpoint == A!KeysAtTheirEndpoint

\* AppConfig: no race takes a place that is not there.
PoolsFit == A!CapsHold
=============================================================================
