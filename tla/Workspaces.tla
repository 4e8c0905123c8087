----------------------------- MODULE Workspaces -----------------------------
(***************************************************************************)
(* Workspaces, their members, invitations and plans                        *)
(* (src/dashboard/workspace-store.ts, invite-store.ts, users.ts and        *)
(* src/admin/workspaces.ts) under the requests of the dashboard, which     *)
(* read, wait and then write one batch.  Every batch is a transaction; all *)
(* that a request has read before may have changed.                        *)
(*                                                                         *)
(* The deployment is "saas": a self-hosted one has no limits.  Who may     *)
(* send a request is decided at its gate and not modelled beyond the       *)
(* owners a gate counts: a role is "owner" or "member".  A pair of a       *)
(* workspace and a login has at most one pending invitation (the unique    *)
(* index), and only its last one is kept.                                  *)
(***************************************************************************)
EXTENDS Naturals, FiniteSets

CONSTANTS
    Ws,         \* workspaces
    First,      \* the one that exists at the beginning
    User,
    Founder,    \* its owner
    Request,    \* requests in progress at a time
    Kinds,      \* the kinds of requests of an instance
    Seats,      \* [{"free", "paid"} -> Nat]: included_members
    MaxInvites, \* invitations of one login to one workspace
    MaxClock,
    InviteTtl   \* INVITE_TTL_MS, in ticks

AllKinds == {"create", "accept", "remove", "demote", "promote", "plan", "found"}

Sane ==
    /\ IsFiniteSet(Ws) /\ First \in Ws
    /\ IsFiniteSet(User) /\ Founder \in User
    /\ Seats \in [{"free", "paid"} -> Nat \ {0}]
    /\ Kinds \subseteq AllKinds
    /\ MaxInvites \in Nat /\ MaxClock \in Nat /\ InviteTtl \in Nat \ {0}

VARIABLES
    ws,         \* workspaces and workspace_subscriptions; "lowered" is a history
                \* that nothing reads: its plan once became one of fewer seats
    member,     \* workspace_members
    invite,     \* workspace_invites
    req,        \* requests between their gate and their batch
    clock

vars == <<ws, member, invite, req, clock>>

Roles == {"owner", "member"}
Idle  == [kind |-> "idle"]

Invite == [status : {"none", "pending", "ended"}, id : 0..MaxInvites,
           expires : 0..MaxClock + InviteTtl]

Req == [kind : AllKinds, w : Ws, u : User, id : 0..MaxInvites, now : 0..MaxClock,
        limit : {0, Seats["free"], Seats["paid"]}, plan : {"free", "paid"}]

TypeOK ==
    /\ ws \in [Ws -> [life : {"none", "live", "retired"},
                      plan : {"free", "paid"}, active : BOOLEAN,
                      lowered : BOOLEAN]]
    /\ member \in [Ws -> [User -> {"none"} \cup Roles]]
    /\ invite \in [Ws -> [User -> Invite]]
    /\ req \in [Request -> {Idle} \cup Req]
    /\ clock \in 0..MaxClock

Init ==
    /\ ws = [w \in Ws |-> [life |-> IF w = First THEN "live" ELSE "none",
                           plan |-> "free", active |-> w = First,
                           lowered |-> FALSE]]
    /\ member = [w \in Ws |-> [u \in User |->
                   IF w = First /\ u = Founder THEN "owner" ELSE "none"]]
    /\ invite = [w \in Ws |-> [u \in User |->
                   [status |-> "none", id |-> 0, expires |-> 0]]]
    /\ req = [r \in Request |-> Idle]
    /\ clock = 0

-----------------------------------------------------------------------------

Live(w) == ws[w].life = "live"

\* resolveWorkspacePlan: without an active row it is free.
PlanOf(w) == IF ws[w].active THEN ws[w].plan ELSE "free"

MembersOf(w) == {u \in User : member[w][u] # "none"}
OwnersOf(w)  == {u \in User : member[w][u] = "owner"}

PendingAt(w, u, now) == invite[w][u].status = "pending" /\ invite[w][u].expires > now

\* countMembersAndPendingInvites.
SeatsAt(w, now) ==
    Cardinality(MembersOf(w)) + Cardinality({u \in User : PendingAt(w, u, now)})

\* A bug: what the gate has counted is trusted.
SeatLeftAnyway(w, now, limit) == TRUE

\* SEAT_GUARD_SQL.
SeatLeft(w, now, limit) == SeatsAt(w, now) < limit

\* Accepted, revoked or expired: nothing reads which.
Ended(i) == [i EXCEPT !.status = "ended", !.expires = 0]

\* A bug: only the sweep expires.
FlippedNot(w, now) == invite[w]

\* FLIP_LAPSED_SQL.
Flipped(w, now) ==
    [u \in User |-> IF invite[w][u].status = "pending" /\ invite[w][u].expires <= now
                    THEN Ended(invite[w][u]) ELSE invite[w][u]]

\* countFreeMembershipsForLogin.
FreeHomes(u) == {w \in Ws : Live(w) /\ member[w][u] # "none" /\ PlanOf(w) = "free"}

\* A request takes a free slot, whichever.
Ask(q) ==
    /\ q.kind \in Kinds
    /\ \E r \in Request : req[r] = Idle
    /\ req' = [req EXCEPT ![CHOOSE r \in Request : req[r] = Idle] = q]

Answer(r) == req' = [req EXCEPT ![r] = Idle]

Of(r, kind) == req[r].kind = kind

Asked(kind, w, u) ==
    [kind |-> kind, w |-> w, u |-> u, id |-> 0, now |-> 0, limit |-> 0, plan |-> "free"]

-----------------------------------------------------------------------------
(* Invitations.                                                            *)

\* inviteCreateRoute: no member, and a seat is free.
AskCreate(w, u) ==
    /\ Live(w) /\ u \notin MembersOf(w)
    /\ SeatLeft(w, clock, Seats[PlanOf(w)])
    /\ invite[w][u].id < MaxInvites
    /\ Ask([Asked("create", w, u) EXCEPT !.now = clock])
    /\ UNCHANGED <<ws, member, invite, clock>>

\* inviteAcceptRoute: the invitation is there, and the login has no free home
\* if the workspace is free.
AskAccept(w, u) ==
    /\ Live(w) /\ PendingAt(w, u, clock)
    /\ PlanOf(w) = "free" => FreeHomes(u) = {}
    /\ Ask([Asked("accept", w, u) EXCEPT !.now = clock, !.id = invite[w][u].id])
    /\ UNCHANGED <<ws, member, invite, clock>>

\* The invitation a request accepts is still to be had at its time.
There(q) == PendingAt(q.w, q.u, q.now) /\ invite[q.w][q.u].id = q.id

\* Both stores resolve the plan before they write; acceptInvite reads the
\* invitation once more.
Resolve(r) ==
    /\ req[r].kind \in {"create", "accept"} /\ req[r].limit = 0
    /\ IF Of(r, "accept") /\ ~There(req[r]) THEN Answer(r)
       ELSE req' = [req EXCEPT ![r].limit = Seats[PlanOf(req[r].w)]]
    /\ UNCHANGED <<ws, member, invite, clock>>

\* createInvite: the flip, and the insert under SEAT_GUARD_SQL.  A pending row
\* of the login aborts the batch.
Create(r) ==
    /\ Of(r, "create") /\ req[r].limit > 0
    /\ LET w == req[r].w
           u == req[r].u
           now == req[r].now
           flipped == Flipped(w, now)
       IN  invite' =
             IF flipped[u].status = "pending" \/ flipped[u].id = MaxInvites
             THEN invite
             ELSE IF SeatLeft(w, now, req[r].limit)
             THEN [invite EXCEPT ![w] = [flipped EXCEPT ![u] =
                     [status |-> "pending", id |-> @.id + 1, expires |-> now + InviteTtl]]]
             ELSE [invite EXCEPT ![w] = flipped]
    /\ Answer(r)
    /\ UNCHANGED <<ws, member, clock>>

\* acceptInvite: the flip, the insert under both guards, and the invitation is
\* spent if the login is a member now.
Accept(r) ==
    /\ Of(r, "accept") /\ req[r].limit > 0
    /\ LET w == req[r].w
           u == req[r].u
           now == req[r].now
           joins == /\ There(req[r]) /\ u \notin MembersOf(w)
                    /\ PlanOf(w) # "free" \/ FreeHomes(u) = {}
                    /\ Cardinality(MembersOf(w)) < req[r].limit
           spent == There(req[r]) /\ (joins \/ u \in MembersOf(w))
       IN  /\ member' = IF joins THEN [member EXCEPT ![w][u] = "member"] ELSE member
           /\ invite' = [invite EXCEPT ![w] =
                IF spent THEN [Flipped(w, now) EXCEPT ![u] = Ended(@)]
                ELSE Flipped(w, now)]
    /\ Answer(r)
    /\ UNCHANGED <<ws, clock>>

Revoke(w, u) ==
    /\ Live(w) /\ invite[w][u].status = "pending"
    /\ invite' = [invite EXCEPT ![w][u] = Ended(@)]
    /\ UNCHANGED <<ws, member, req, clock>>

\* expireLapsedInvites.
Sweep ==
    /\ invite' = [w \in Ws |-> Flipped(w, clock)]
    /\ invite' # invite
    /\ UNCHANGED <<ws, member, req, clock>>

-----------------------------------------------------------------------------
(* Members.                                                                *)

\* memberRemoveRoute, memberRoleRoute: the gates count the owners.
AskRemove(w, u) ==
    /\ Live(w) /\ u \in MembersOf(w)
    /\ OwnersOf(w) \ {u} # {}
    /\ Ask(Asked("remove", w, u))
    /\ UNCHANGED <<ws, member, invite, clock>>

AskRole(w, u) ==
    /\ Live(w) /\ u \in MembersOf(w)
    /\ \/ u \notin OwnersOf(w) /\ Ask(Asked("promote", w, u))
       \/ OwnersOf(w) \ {u} # {} /\ u \in OwnersOf(w) /\ Ask(Asked("demote", w, u))
    /\ UNCHANGED <<ws, member, invite, clock>>

\* A bug: what the gate has counted is trusted.
MayLeaveAnyway(w, u) == TRUE

\* notSoleOwner.
MayLeave(w, u) == ~(member[w][u] = "owner" /\ Cardinality(OwnersOf(w)) <= 1)

\* deleteWorkspaceMember.
Remove(r) ==
    /\ Of(r, "remove")
    /\ LET w == req[r].w
           u == req[r].u
       IN  member' = IF MayLeave(w, u) THEN [member EXCEPT ![w][u] = "none"] ELSE member
    /\ Answer(r)
    /\ UNCHANGED <<ws, invite, clock>>

\* updateWorkspaceMemberRole; without a row it writes nothing.
SetRole(r) ==
    /\ req[r].kind \in {"demote", "promote"}
    /\ LET w == req[r].w
           u == req[r].u
           role == IF Of(r, "promote") THEN "owner" ELSE "member"
       IN  member' = IF u \in MembersOf(w) /\ member[w][u] # role /\ MayLeave(w, u)
                     THEN [member EXCEPT ![w][u] = role] ELSE member
    /\ Answer(r)
    /\ UNCHANGED <<ws, invite, clock>>

-----------------------------------------------------------------------------
(* Workspaces.                                                             *)

\* The creation route: no free home.
AskFound(w, u) ==
    /\ ws[w].life = "none" /\ FreeHomes(u) = {}
    /\ Ask(Asked("found", w, u))
    /\ UNCHANGED <<ws, member, invite, clock>>

\* A bug: the gate's count is trusted.
FreeSlotAnyway(u) == TRUE

\* FREE_SLOT_GUARD_SQL.
FreeSlot(u) == FreeHomes(u) = {}

\* createWorkspace: row, owner and subscription, or nothing.
Found(r) ==
    /\ Of(r, "found")
    /\ LET w == req[r].w
           u == req[r].u
       IN  IF ws[w].life = "none" /\ FreeSlot(u)
           THEN /\ ws' = [ws EXCEPT ![w] = [life |-> "live", plan |-> "free",
                                            active |-> TRUE, lowered |-> FALSE]]
                /\ member' = [member EXCEPT ![w][u] = "owner"]
           ELSE UNCHANGED <<ws, member>>
    /\ Answer(r)
    /\ UNCHANGED <<invite, clock>>

\* A bug: the invitations of a retired workspace stay.
RevokedNot(w) == invite[w]

Revoked(w) == [u \in User |-> IF invite[w][u].status = "pending"
                              THEN Ended(invite[w][u]) ELSE invite[w][u]]

\* deleteWorkspace.
Retire(w) ==
    /\ Live(w)
    /\ ws' = [ws EXCEPT ![w].life = "retired", ![w].active = FALSE]
    /\ member' = [member EXCEPT ![w] = [u \in User |-> "none"]]
    /\ invite' = [invite EXCEPT ![w] = Revoked(w)]
    /\ UNCHANGED <<req, clock>>

\* setWorkspacePlan, to another plan: the workspace is looked up, then the row
\* is written.
AskPlan(w, p) ==
    /\ Live(w) /\ PlanOf(w) # p
    /\ Ask([Asked("plan", w, Founder) EXCEPT !.plan = p])
    /\ UNCHANGED <<ws, member, invite, clock>>

SetPlan(r) ==
    /\ Of(r, "plan")
    /\ LET w == req[r].w
       IN  ws' = [ws EXCEPT ![w].plan = req[r].plan, ![w].active = TRUE,
                    ![w].lowered = @ \/ Seats[req[r].plan] < Seats[PlanOf(w)]]
    /\ Answer(r)
    /\ UNCHANGED <<member, invite, clock>>

Tick ==
    /\ clock < MaxClock /\ clock' = clock + 1
    /\ UNCHANGED <<ws, member, invite, req>>

-----------------------------------------------------------------------------

Next ==
    \/ \E w \in Ws, u \in User :
         \/ AskCreate(w, u) \/ AskAccept(w, u) \/ AskRemove(w, u)
         \/ AskRole(w, u) \/ AskFound(w, u) \/ Revoke(w, u)
    \/ \E w \in Ws : Retire(w) \/ \E p \in {"free", "paid"} : AskPlan(w, p)
    \/ \E r \in Request :
         \/ Resolve(r) \/ Create(r) \/ Accept(r) \/ Remove(r) \/ SetRole(r)
         \/ Found(r) \/ SetPlan(r)
    \/ Sweep \/ Tick

Spec == Init /\ [][Next]_vars

-----------------------------------------------------------------------------
(* Properties.                                                             *)

\* The rows that hold a seat or a claim to one, lapsed or not: an acceptance
\* under way may still find the row of a lapsed invitation.
Rows(w) ==
    Cardinality(MembersOf(w)) + Cardinality({u \in User : invite[w][u].status = "pending"})

\* The request whose batch this step is.
Writes(r, w) == req[r] # Idle /\ req'[r] = Idle /\ req[r].w = w

\* "The winner of a concurrent pair cannot push the workspace past its plan": a
\* step that adds to a workspace's members and invitations leaves them within
\* the plan its request has resolved, and so does one that adds to its members,
\* however old the clock and the plan of its request are.
TakesASeatThereIs ==
    \A w \in Ws :
      /\ Rows(w)' > Rows(w) =>
           \E r \in Request :
             Writes(r, w) /\ (Of(r, "found") \/ Rows(w)' <= req[r].limit)
      /\ Cardinality(MembersOf(w))' > Cardinality(MembersOf(w)) =>
           \E r \in Request :
             /\ Writes(r, w)
             /\ Of(r, "found") \/ Cardinality(MembersOf(w))' <= req[r].limit

SeatsHold == [][TakesASeatThereIs]_vars

\* While no operator lowers its plan, a workspace has no more members and live
\* invitations than its plan includes, although an acceptance counts the
\* members only and may land after its invitation has lapsed: who takes the
\* seat of a lapsed invitation ends it in the same batch.
PlanIsNotOversold ==
    \A w \in Ws : Live(w) /\ ~ws[w].lowered => SeatsAt(w, clock) <= Seats[PlanOf(w)]

\* "A workspace can never be left without one": two owners who remove or demote
\* each other, or themselves, leave an owner.
AlwaysOwned == \A w \in Ws : Live(w) => OwnersOf(w) # {}

\* A retired workspace has no member, whoever was about to accept.
RetiredIsEmpty == \A w \in Ws : ws[w].life = "retired" => MembersOf(w) = {}

\* A login takes a second free workspace only by an operator's downgrade,
\* whatever it founds and accepts at the same time.
TakesOneHome ==
    \A u \in User :
      Cardinality(FreeHomes(u))' > Cardinality(FreeHomes(u)) =>
        \/ Cardinality(FreeHomes(u))' <= 1
        \/ \E w \in Ws : PlanOf(w) = "paid" /\ PlanOf(w)' = "free"

OneFreeHome == [][TakesOneHome]_vars
=============================================================================
