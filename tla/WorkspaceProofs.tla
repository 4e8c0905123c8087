--------------------------- MODULE WorkspaceProofs ---------------------------
(***************************************************************************)
(* Proofs about Workspaces: the types, that a live workspace has an owner  *)
(* and that a retired one has no member; and that no race takes a seat the *)
(* plan does not have, or a second free workspace: for any workspaces,     *)
(* logins, requests in progress, plans, lives of invitations and bounds.   *)
(*                                                                         *)
(* An acceptance may wait while its workspace is retired and even while a  *)
(* new invitation is created there.  AcceptInv says why it can not join:   *)
(* it holds an invitation that is not newer than the row's, and in a       *)
(* retired workspace the one it holds is not pending.                      *)
(*                                                                         *)
(* Seats are counted in rows, members and pending invitations whether they *)
(* have lapsed or not: an acceptance turns one row into another, and who   *)
(* invites has ended the lapsed ones first.  RowsInv bounds the rows of a  *)
(* workspace whose plan was never lowered, and with them its seats.        *)
(***************************************************************************)
EXTENDS Workspaces, FiniteSetTheorems, TLAPS

AcceptInv ==
    \A r \in Request : Of(r, "accept") =>
      LET q == req[r]
          i == invite[q.w][q.u]
      IN  /\ q.id <= i.id
          /\ ws[q.w].life = "retired" /\ q.id = i.id => i.status # "pending"

WInv == TypeOK /\ AlwaysOwned /\ RetiredIsEmpty /\ AcceptInv

-----------------------------------------------------------------------------
(* Lemmas about the helpers.                                               *)

\* A request that is asked takes a place that was idle; the others stay.
LEMMA AskedPlace ==
    ASSUME TypeOK, NEW q \in Req, Ask(q)
    PROVE  \E r \in Request : req[r] = Idle /\ req' = [req EXCEPT ![r] = q]
BY DEF Ask

\* So every place still holds a request or nothing.
LEMMA AskType ==
    ASSUME TypeOK, NEW q \in Req, Ask(q)
    PROVE  req' \in [Request -> {Idle} \cup Req]
BY AskedPlace DEF TypeOK

\* As it does when a place is freed.
LEMMA AnswerType ==
    ASSUME TypeOK, NEW r \in Request, Answer(r)
    PROVE  req' \in [Request -> {Idle} \cup Req]
BY DEF TypeOK, Answer

\* A place that is not idle holds a request.
LEMMA BusyType ==
    ASSUME TypeOK, NEW r \in Request, req[r].kind \in AllKinds
    PROVE  req[r] \in Req
BY DEF TypeOK, Idle, AllKinds

\* A gate makes a request of the type.
LEMMA AskedType ==
    ASSUME Sane, NEW kind \in AllKinds, NEW w \in Ws, NEW u \in User
    PROVE  Asked(kind, w, u) \in Req
BY DEF Sane, Asked, Req

\* Ending an invitation keeps its number.
LEMMA EndedType ==
    ASSUME Sane, NEW i \in Invite
    PROVE  Ended(i) \in Invite /\ Ended(i).id = i.id /\ Ended(i).status = "ended"
<1> DEFINE j == [i EXCEPT !.status = "ended"]
<1>1. 0 \in 0..MaxClock + InviteTtl
  BY DEF Sane
<1>2. j \in Invite /\ j.id = i.id /\ j.status = "ended"
  BY DEF Invite
<1>3. Ended(i) = [j EXCEPT !.expires = 0]
  BY DEF Ended
<1> QED
  <2> HIDE DEF j
  <2> QED BY <1>1, <1>2, <1>3 DEF Invite

\* So do the flip and the revocation of a workspace's invitations, and neither
\* makes one pending.
LEMMA FlippedType ==
    ASSUME Sane, TypeOK, NEW w \in Ws, NEW now
    PROVE  /\ Flipped(w, now) \in [User -> Invite]
           /\ \A u \in User :
                /\ Flipped(w, now)[u].id = invite[w][u].id
                /\ Flipped(w, now)[u].status = "pending" => invite[w][u].status = "pending"
BY EndedType DEF TypeOK, Flipped

\* A revocation ends all that was pending.
LEMMA RevokedType ==
    ASSUME Sane, TypeOK, NEW w \in Ws
    PROVE  /\ Revoked(w) \in [User -> Invite]
           /\ \A u \in User : /\ Revoked(w)[u].id = invite[w][u].id
                              /\ Revoked(w)[u].status # "pending"
BY EndedType DEF TypeOK, Revoked

\* Who may leave is no owner, or leaves another one.
LEMMA LeavesAnOwner ==
    ASSUME Sane, TypeOK, NEW w \in Ws, NEW u \in User, MayLeave(w, u),
           OwnersOf(w) # {}
    PROVE  OwnersOf(w) \ {u} # {}
<1>1. CASE member[w][u] # "owner"
  BY <1>1 DEF OwnersOf
<1>2. CASE member[w][u] = "owner"
  <2>1. IsFiniteSet(OwnersOf(w)) /\ Cardinality(OwnersOf(w)) \in Nat
    BY FS_Subset, FS_CardinalityType DEF Sane, OwnersOf
  <2>2. SUFFICES ASSUME OwnersOf(w) \ {u} = {} PROVE FALSE
    OBVIOUS
  <2>3. OwnersOf(w) = {u}
    BY <1>2, <2>2 DEF OwnersOf
  <2>4. Cardinality(OwnersOf(w)) = 1
    BY <2>3, FS_Singleton
  <2> QED BY <1>2, <2>4 DEF MayLeave
<1> QED BY <1>1, <1>2

\* What setWorkspacePlan makes of a workspace.
Set(w, p) ==
    [ws[w] EXCEPT !.plan = p, !.active = TRUE,
                  !.lowered = @ \/ Seats[p] < Seats[PlanOf(w)]]

\* It writes that one workspace.
LEMMA SetPlanMoves ==
    ASSUME TypeOK, NEW r \in Request, SetPlan(r),
           req[r].w \in Ws, req[r].plan \in {"free", "paid"}
    PROVE  /\ ws' = [ws EXCEPT ![req[r].w] = ws'[req[r].w]]
           /\ ws'[req[r].w] = Set(req[r].w, req[r].plan)
           /\ Set(req[r].w, req[r].plan) \in
                [life : {"none", "live", "retired"}, plan : {"free", "paid"},
                 active : BOOLEAN, lowered : BOOLEAN]
           /\ Set(req[r].w, req[r].plan).life = ws[req[r].w].life
<1> DEFINE w == req[r].w
           p == req[r].plan
           less == ws[w].lowered \/ Seats[p] < Seats[PlanOf(w)]
           State == [life : {"none", "live", "retired"}, plan : {"free", "paid"},
                     active : BOOLEAN, lowered : BOOLEAN]
<1>1. ws[w] \in State /\ less \in BOOLEAN /\ ws = [v \in Ws |-> ws[v]]
  BY DEF TypeOK
<1>2. ws' = [ws EXCEPT ![w] = Set(w, p)]
  BY <1>1, Zenon DEF SetPlan, Set
<1>3. Set(w, p) = [life |-> ws[w].life, plan |-> p, active |-> TRUE, lowered |-> less]
  <2> HIDE DEF less
  <2>1. Set(w, p) = [ws[w] EXCEPT !.plan = p, !.active = TRUE, !.lowered = less]
    BY DEF Set, less
  <2> QED BY <1>1, <2>1
<1>4. Set(w, p) \in State /\ Set(w, p).life = ws[w].life
  <2> HIDE DEF less
  <2> QED BY <1>1, <1>3
<1>5. ws'[w] = Set(w, p)
  <2> PICK s : s = Set(w, p)
    OBVIOUS
  <2> QED BY <1>1, <1>2
<1>6. ws' = [ws EXCEPT ![w] = ws'[w]]
  BY <1>2, <1>5
<1> QED BY <1>4, <1>5, <1>6

-----------------------------------------------------------------------------
(* Type correctness.                                                       *)

\* The initial values have their types.
LEMMA InitType == ASSUME Sane, Init PROVE TypeOK
<1>1. req \in [Request -> {Idle} \cup Req]
  BY DEF Init
<1>2. invite \in [Ws -> [User -> Invite]]
  BY DEF Sane, Init, Invite
<1>3. member \in [Ws -> [User -> {"none"} \cup Roles]]
  BY DEF Init, Roles
<1>4. /\ ws \in [Ws -> [life : {"none", "live", "retired"},
                      plan : {"free", "paid"}, active : BOOLEAN, lowered : BOOLEAN]]
      /\ clock \in 0..MaxClock
  BY DEF Sane, Init
<1> QED BY <1>1, <1>2, <1>3, <1>4 DEF TypeOK

\* Every step keeps the types.
LEMMA StepType == ASSUME Sane, TypeOK, [Next]_vars PROVE TypeOK'
<1>1. ASSUME NEW w \in Ws, NEW u \in User,
             AskCreate(w, u) \/ AskAccept(w, u) \/ AskRemove(w, u)
               \/ AskRole(w, u) \/ AskFound(w, u)
      PROVE  TypeOK'
  <2> DEFINE q(kind) == Asked(kind, w, u)
  <2>1. \A kind \in AllKinds : q(kind) \in Req
    BY AskedType
  <2>2. CASE AskCreate(w, u)
    <3>1. [q("create") EXCEPT !.now = clock] \in Req
      BY <2>1 DEF TypeOK, Req, AllKinds
    <3> QED BY <2>2, <3>1, AskType DEF TypeOK, AskCreate
  <2>3. CASE AskAccept(w, u)
    <3>1. invite[w][u].id \in 0..MaxInvites /\ clock \in 0..MaxClock
      BY DEF TypeOK, Invite
    <3>2. [q("accept") EXCEPT !.now = clock, !.id = invite[w][u].id] \in Req
      BY <2>1, <3>1 DEF Req, AllKinds
    <3> QED BY <2>3, <3>2, AskType DEF TypeOK, AskAccept
  <2>4. CASE AskRemove(w, u)
    <3>1. q("remove") \in Req
      BY <2>1 DEF AllKinds
    <3> QED BY <2>4, <3>1, AskType DEF TypeOK, AskRemove
  <2>5. CASE AskRole(w, u)
    <3>1. q("promote") \in Req /\ q("demote") \in Req
      BY <2>1 DEF AllKinds
    <3> QED BY <2>5, <3>1, AskType DEF TypeOK, AskRole
  <2>6. CASE AskFound(w, u)
    <3>1. q("found") \in Req
      BY <2>1 DEF AllKinds
    <3> QED BY <2>6, <3>1, AskType DEF TypeOK, AskFound
  <2> QED BY <1>1, <2>2, <2>3, <2>4, <2>5, <2>6
<1>2. ASSUME NEW w \in Ws, NEW u \in User, Revoke(w, u) PROVE TypeOK'
  <2>1. Ended(invite[w][u]) \in Invite
    BY EndedType DEF TypeOK
  <2> QED BY <1>2, <2>1 DEF TypeOK, Revoke
<1>3. ASSUME NEW w \in Ws, Retire(w) PROVE TypeOK'
  <2>1. Revoked(w) \in [User -> Invite]
    BY RevokedType
  <2> QED BY ZenonT(30), <1>3, <2>1 DEF TypeOK, Retire
<1>4. ASSUME NEW w \in Ws, NEW p \in {"free", "paid"}, AskPlan(w, p) PROVE TypeOK'
  <2>1. Asked("plan", w, Founder) \in Req
    BY AskedType DEF Sane, AllKinds
  <2>2. [Asked("plan", w, Founder) EXCEPT !.plan = p] \in Req
    BY <2>1 DEF Req
  <2> QED BY <1>4, <2>2, AskType DEF TypeOK, AskPlan
<1>5. ASSUME NEW r \in Request,
             Resolve(r) \/ Create(r) \/ Accept(r) \/ Remove(r) \/ SetRole(r)
               \/ Found(r) \/ SetPlan(r)
      PROVE  TypeOK'
  <2> DEFINE q == req[r]
  <2>1. q \in Req
    BY <1>5, BusyType DEF Resolve, Create, Accept, Remove, SetRole, Found, SetPlan,
                          Of, AllKinds
  <2>2. q.w \in Ws /\ q.u \in User /\ q.now \in 0..MaxClock
    BY <2>1 DEF Req
  <2>3. /\ Flipped(q.w, q.now) \in [User -> Invite]
        /\ \A u \in User : Flipped(q.w, q.now)[u] \in Invite
    BY <2>2, FlippedType
  <2>4. CASE Resolve(r)
    <3>1. PlanOf(q.w) \in {"free", "paid"}
      BY <2>2 DEF TypeOK, PlanOf
    <3>2. [q EXCEPT !.limit = Seats[PlanOf(q.w)]] \in Req
      BY <2>1, <3>1 DEF Req
    <3>3. req' \in [Request -> {Idle} \cup Req]
      BY <2>4, <3>2, AnswerType DEF TypeOK, Resolve
    <3> QED BY <2>4, <3>3 DEF TypeOK, Resolve
  <2>5. CASE Create(r)
    <3>1. ASSUME Flipped(q.w, q.now)[q.u].id # MaxInvites
          PROVE  [status |-> "pending", id |-> Flipped(q.w, q.now)[q.u].id + 1,
                  expires |-> q.now + InviteTtl] \in Invite
      BY <2>2, <2>3, <3>1 DEF Sane, Invite
    <3>2. invite' \in [Ws -> [User -> Invite]]
      BY <2>2, <2>3, <2>5, <3>1 DEF TypeOK, Create
    <3> QED BY <2>5, <3>2, AnswerType DEF TypeOK, Create
  <2>6. CASE Accept(r)
    <3>1. Ended(Flipped(q.w, q.now)[q.u]) \in Invite
      BY <2>2, <2>3, EndedType
    <3>2. invite' \in [Ws -> [User -> Invite]]
      BY <2>2, <2>3, <2>6, <3>1 DEF TypeOK, Accept
    <3>3. member' \in [Ws -> [User -> {"none"} \cup Roles]]
      BY <2>2, <2>6 DEF TypeOK, Accept, Roles
    <3> QED BY <2>6, <3>2, <3>3, AnswerType DEF TypeOK, Accept
  <2>7. CASE Remove(r)
    BY <2>2, <2>7, AnswerType DEF TypeOK, Remove
  <2>8. CASE SetRole(r)
    BY <2>2, <2>8, AnswerType DEF TypeOK, SetRole, Roles
  <2>9. CASE Found(r)
    <3>1. /\ [life |-> "live", plan |-> "free", active |-> TRUE, lowered |-> FALSE]
               \in [life : {"none", "live", "retired"},
                   plan : {"free", "paid"}, active : BOOLEAN, lowered : BOOLEAN]
          /\ "owner" \in Roles
      BY DEF Roles
    <3>2. CASE ws[q.w].life = "none" /\ FreeSlot(q.u)
      <4>1. member' \in [Ws -> [User -> {"none"} \cup Roles]]
        <5>1. member' = [member EXCEPT ![q.w][q.u] = "owner"]
          BY <2>9, <3>2 DEF Found
        <5> QED BY <2>2, <3>1, <5>1 DEF TypeOK
      <4> DEFINE new == [life |-> "live", plan |-> "free", active |-> TRUE,
                         lowered |-> FALSE]
                 State == [life : {"none", "live", "retired"},
                           plan : {"free", "paid"}, active : BOOLEAN,
                           lowered : BOOLEAN]
      <4>2. new \in State
        BY <3>1
      <4>3. ws' = [ws EXCEPT ![q.w] = new]
        BY <2>9, <3>2 DEF Found
      <4>4. ws \in [Ws -> State]
        BY DEF TypeOK
      <4>5. ws' \in [Ws -> State]
        <5> HIDE DEF new, State
        <5> QED BY <4>2, <4>3, <4>4
      <4> QED BY <2>9, <4>1, <4>5, AnswerType DEF TypeOK, Found
    <3>3. CASE ~(ws[q.w].life = "none" /\ FreeSlot(q.u))
      BY <2>9, <3>3, AnswerType DEF TypeOK, Found
    <3> QED BY <3>2, <3>3
  <2>10. CASE SetPlan(r)
    <3>1. q.plan \in {"free", "paid"}
      BY <2>1 DEF Req
    <3>2. /\ ws' = [ws EXCEPT ![q.w] = ws'[q.w]] /\ ws'[q.w] = Set(q.w, q.plan)
          /\ Set(q.w, q.plan) \in [life : {"none", "live", "retired"},
                   plan : {"free", "paid"}, active : BOOLEAN, lowered : BOOLEAN]
      BY <2>2, <2>10, <3>1, SetPlanMoves DEF Of
    <3>3. ws' \in [Ws -> [life : {"none", "live", "retired"},
                   plan : {"free", "paid"}, active : BOOLEAN, lowered : BOOLEAN]]
      BY <2>2, <3>2 DEF TypeOK
    <3> QED BY <2>10, <3>3, AnswerType DEF TypeOK, SetPlan
  <2> QED BY <1>5, <2>4, <2>5, <2>6, <2>7, <2>8, <2>9, <2>10
<1>6. CASE Sweep
  BY <1>6, FlippedType DEF TypeOK, Sweep
<1>7. CASE Tick
  BY <1>7 DEF Sane, TypeOK, Tick
<1>8. CASE UNCHANGED vars
  BY <1>8 DEF TypeOK, vars
<1> QED BY <1>1, <1>2, <1>3, <1>4, <1>5, <1>6, <1>7, <1>8 DEF Next

-----------------------------------------------------------------------------
(* Owners.                                                                 *)

\* An owner stays where a step leaves roles and lives alone.
LEMMA SameOwners ==
    ASSUME AlwaysOwned, member' = member,
           \A w \in Ws : ws'[w].life = "live" => ws[w].life = "live"
    PROVE  AlwaysOwned'
BY DEF AlwaysOwned, OwnersOf, Live

\* No step takes the last owner of a live workspace.
LEMMA OwnedStep == ASSUME Sane, TypeOK, AlwaysOwned, [Next]_vars PROVE AlwaysOwned'
<1>1. ASSUME NEW r \in Request, Remove(r) PROVE AlwaysOwned'
  <2> DEFINE q == req[r]
  <2>1. q \in Req
    BY <1>1, BusyType DEF Remove, Of, AllKinds
  <2>2. q.w \in Ws /\ q.u \in User
    BY <2>1 DEF Req
  <2>3. SUFFICES ASSUME NEW w \in Ws, Live(w)' PROVE OwnersOf(w)' # {}
    BY DEF AlwaysOwned
  <2>4. OwnersOf(w) # {}
    BY <1>1, <2>3 DEF Remove, AlwaysOwned, Live
  <2>5. CASE w = q.w /\ MayLeave(w, q.u)
    <3>1. OwnersOf(w) \ {q.u} # {}
      BY <2>2, <2>4, <2>5, LeavesAnOwner
    <3>2. \A u \in User \ {q.u} : member'[w][u] = member[w][u]
      BY <1>1, <2>2, <2>5 DEF Remove, TypeOK
    <3> QED BY <3>1, <3>2 DEF OwnersOf
  <2>6. CASE ~(w = q.w /\ MayLeave(w, q.u))
    <3>1. member'[w] = member[w]
      BY <1>1, <2>2, <2>6 DEF Remove, TypeOK
    <3> QED BY <2>4, <3>1 DEF OwnersOf
  <2> QED BY <2>5, <2>6
<1>2. ASSUME NEW r \in Request, SetRole(r) PROVE AlwaysOwned'
  <2> DEFINE q == req[r]
  <2>1. q \in Req
    BY <1>2, BusyType DEF SetRole, AllKinds
  <2>2. q.w \in Ws /\ q.u \in User
    BY <2>1 DEF Req
  <2>3. SUFFICES ASSUME NEW w \in Ws, Live(w)' PROVE OwnersOf(w)' # {}
    BY DEF AlwaysOwned
  <2>4. OwnersOf(w) # {}
    BY <1>2, <2>3 DEF SetRole, AlwaysOwned, Live
  <2>5. CASE w = q.w /\ MayLeave(w, q.u)
    <3>1. OwnersOf(w) \ {q.u} # {}
      BY <2>2, <2>4, <2>5, LeavesAnOwner
    <3>2. \A u \in User \ {q.u} : member'[w][u] = member[w][u]
      BY <1>2, <2>2, <2>5 DEF SetRole, TypeOK
    <3> QED BY <3>1, <3>2 DEF OwnersOf
  <2>6. CASE ~(w = q.w /\ MayLeave(w, q.u))
    <3>1. member'[w] = member[w]
      BY <1>2, <2>2, <2>6 DEF SetRole, TypeOK
    <3> QED BY <2>4, <3>1 DEF OwnersOf
  <2> QED BY <2>5, <2>6
<1>3. ASSUME NEW r \in Request, Accept(r) PROVE AlwaysOwned'
  <2> DEFINE q == req[r]
  <2>1. q \in Req
    BY <1>3, BusyType DEF Accept, Of, AllKinds
  <2>2. q.w \in Ws /\ q.u \in User
    BY <2>1 DEF Req
  <2>3. SUFFICES ASSUME NEW w \in Ws, Live(w)' PROVE OwnersOf(w)' # {}
    BY DEF AlwaysOwned
  <2>4. PICK u \in User : member[w][u] = "owner"
    BY <1>3, <2>3 DEF Accept, AlwaysOwned, Live, OwnersOf
  <2>5. member'[w][u] = "owner"
    BY <1>3, <2>2, <2>4 DEF Accept, TypeOK, MembersOf
  <2> QED BY <2>5 DEF OwnersOf
<1>4. ASSUME NEW r \in Request, Found(r) PROVE AlwaysOwned'
  <2> DEFINE q == req[r]
  <2>1. q \in Req
    BY <1>4, BusyType DEF Found, Of, AllKinds
  <2>2. q.w \in Ws /\ q.u \in User
    BY <2>1 DEF Req
  <2>3. CASE ws[q.w].life = "none" /\ FreeSlot(q.u)
    <3>1. SUFFICES ASSUME NEW w \in Ws, Live(w)' PROVE OwnersOf(w)' # {}
      BY DEF AlwaysOwned
    <3>2. CASE w = q.w
      <4>1. member'[w][q.u] = "owner"
        BY <1>4, <2>2, <2>3, <3>2 DEF Found, TypeOK
      <4> QED BY <2>2, <4>1 DEF OwnersOf
    <3>3. CASE w # q.w
      <4>1. member'[w] = member[w] /\ ws'[w] = ws[w]
        BY <1>4, <2>2, <2>3, <3>3 DEF Found, TypeOK
      <4> QED BY <3>1, <4>1 DEF AlwaysOwned, OwnersOf, Live
    <3> QED BY <3>2, <3>3
  <2>4. CASE ~(ws[q.w].life = "none" /\ FreeSlot(q.u))
    BY <1>4, <2>4, SameOwners DEF Found
  <2> QED BY <2>3, <2>4
<1>5. ASSUME NEW w \in Ws, Retire(w) PROVE AlwaysOwned'
  <2>1. SUFFICES ASSUME NEW v \in Ws, Live(v)' PROVE OwnersOf(v)' # {}
    BY DEF AlwaysOwned
  <2>2. v # w /\ ws'[v] = ws[v] /\ member'[v] = member[v]
    BY <1>5, <2>1 DEF Retire, TypeOK, Live
  <2> QED BY <2>1, <2>2 DEF AlwaysOwned, OwnersOf, Live
<1>6. ASSUME NEW r \in Request, SetPlan(r) PROVE AlwaysOwned'
  <2>1. req[r] \in Req
    BY <1>6, BusyType DEF SetPlan, Of, AllKinds
  <2>2. \A w \in Ws : ws'[w].life = ws[w].life
    BY <1>6, <2>1 DEF SetPlan, TypeOK, Req
  <2> QED BY <1>6, <2>2, SameOwners DEF SetPlan
<1>7. ASSUME UNCHANGED <<ws, member>> PROVE AlwaysOwned'
  BY <1>7, SameOwners
<1>8. ASSUME NEW w \in Ws, NEW u \in User,
             AskCreate(w, u) \/ AskAccept(w, u) \/ AskRemove(w, u)
               \/ AskRole(w, u) \/ AskFound(w, u) \/ Revoke(w, u)
      PROVE  UNCHANGED <<ws, member>>
  BY <1>8 DEF AskCreate, AskAccept, AskRemove, AskRole, AskFound, Revoke
<1>9. ASSUME NEW r \in Request, Resolve(r) \/ Create(r) PROVE UNCHANGED <<ws, member>>
  BY <1>9 DEF Resolve, Create
<1>10. ASSUME NEW w \in Ws, NEW p \in {"free", "paid"}, AskPlan(w, p)
       PROVE  UNCHANGED <<ws, member>>
  BY <1>10 DEF AskPlan
<1>11. Sweep \/ Tick \/ UNCHANGED vars => UNCHANGED <<ws, member>>
  BY DEF Sweep, Tick, vars
<1> QED BY <1>1, <1>2, <1>3, <1>4, <1>5, <1>6, <1>7, <1>8, <1>9, <1>10, <1>11 DEF Next

-----------------------------------------------------------------------------
(* Acceptances.                                                            *)

\* An acceptance that a step leaves in its place keeps what it holds, if the
\* step keeps the lives of workspaces, makes no invitation pending and only
\* adds to their numbers.
LEMMA SameAccepts ==
    ASSUME TypeOK, AcceptInv,
           \A r \in Request : Of(r, "accept")' =>
             /\ Of(r, "accept")
             /\ req'[r].w = req[r].w /\ req'[r].u = req[r].u /\ req'[r].id = req[r].id,
           \A w \in Ws, u \in User :
             /\ invite'[w][u].id = invite[w][u].id
             /\ invite'[w][u].status = "pending" => invite[w][u].status = "pending",
           \A w \in Ws : ws'[w].life = "retired" => ws[w].life = "retired"
    PROVE  AcceptInv'
<1> SUFFICES ASSUME NEW r \in Request, Of(r, "accept")'
             PROVE  LET q == req'[r]
                        i == invite'[q.w][q.u]
                    IN  /\ q.id <= i.id
                        /\ ws'[q.w].life = "retired" /\ q.id = i.id
                             => i.status # "pending"
  BY DEF AcceptInv
<1>1. Of(r, "accept")
  OBVIOUS
<1>2. req[r] \in Req
  BY <1>1, BusyType DEF Of, AllKinds
<1>3. req[r].w \in Ws /\ req[r].u \in User
  BY <1>2 DEF Req
<1> QED BY <1>1, <1>3 DEF AcceptInv

\* A place that is freed holds no acceptance.
LEMMA AnswerAccepts ==
    ASSUME TypeOK, NEW r \in Request, Answer(r)
    PROVE  \A s \in Request : Of(s, "accept")' =>
             Of(s, "accept") /\ req'[s] = req[s]
BY DEF TypeOK, Answer, Of, Idle

\* A request of another kind is no acceptance.
LEMMA AskAccepts ==
    ASSUME TypeOK, NEW q \in Req, q.kind # "accept", Ask(q)
    PROVE  \A s \in Request : Of(s, "accept")' =>
             Of(s, "accept") /\ req'[s] = req[s]
BY AskedPlace DEF TypeOK, Of

\* Every step keeps what acceptances hold.
LEMMA AcceptStep == ASSUME Sane, TypeOK, AcceptInv, [Next]_vars PROVE AcceptInv'
<1> DEFINE Kept == \A s \in Request : Of(s, "accept")' =>
                      Of(s, "accept") /\ req'[s] = req[s]
<1>1. ASSUME NEW w \in Ws, NEW u \in User, AskAccept(w, u) PROVE AcceptInv'
  <2> DEFINE q == [Asked("accept", w, u) EXCEPT !.now = clock,
                                                !.id = invite[w][u].id]
  <2>1. invite[w][u].id \in 0..MaxInvites /\ clock \in 0..MaxClock
    BY DEF TypeOK, Invite
  <2>2. Asked("accept", w, u) \in Req
    BY AskedType DEF AllKinds
  <2>3. q \in Req
    BY <2>1, <2>2 DEF Req, AllKinds
  <2>4. q.w = w /\ q.u = u /\ q.id = invite[w][u].id
    BY DEF Asked
  <2>5. ws' = ws /\ invite' = invite /\ Ask(q) /\ ws[w].life = "live"
    BY <1>1 DEF AskAccept, Live
  <2> HIDE DEF q
  <2>6. PICK r \in Request : req' = [req EXCEPT ![r] = q]
    BY <2>3, <2>5, AskedPlace
  <2>7. \A s \in Request : s # r => req'[s] = req[s]
    BY <2>6 DEF TypeOK
  <2>8. req'[r] = q
    BY <2>6 DEF TypeOK
  <2>9. invite[w][u].id <= invite[w][u].id
    BY <2>1
  <2> QED BY <2>4, <2>5, <2>7, <2>8, <2>9 DEF AcceptInv, Of
<1>2. ASSUME NEW r \in Request, Create(r) PROVE AcceptInv'
  <2> DEFINE q == req[r]
             fl == Flipped(q.w, q.now)
  <2>1. q \in Req
    BY <1>2, BusyType DEF Create, Of, AllKinds
  <2>2. q.w \in Ws /\ q.u \in User
    BY <2>1 DEF Req
  <2>3. /\ fl \in [User -> Invite]
        /\ \A u \in User :
             /\ fl[u].id = invite[q.w][u].id
             /\ fl[u].status = "pending" => invite[q.w][u].status = "pending"
    BY <2>2, FlippedType
  <2>4. Kept
    BY <1>2, AnswerAccepts DEF Create
  <2>5. ws' = ws
    BY <1>2 DEF Create
  <2>6. CASE invite' = invite
    BY <2>4, <2>5, <2>6, SameAccepts
  <2>7. CASE invite' = [invite EXCEPT ![q.w] = fl]
    <3>1. \A w \in Ws, u \in User :
            /\ invite'[w][u].id = invite[w][u].id
            /\ invite'[w][u].status = "pending" => invite[w][u].status = "pending"
      BY <2>2, <2>3, <2>7 DEF TypeOK
    <3> QED BY <2>4, <2>5, <3>1, SameAccepts
  <2>8. CASE invite' = [invite EXCEPT ![q.w] = [fl EXCEPT ![q.u] =
                          [status |-> "pending", id |-> fl[q.u].id + 1,
                           expires |-> q.now + InviteTtl]]]
    <3>1. \A w \in Ws, u \in User : w # q.w \/ u # q.u =>
            /\ invite'[w][u].id = invite[w][u].id
            /\ invite'[w][u].status = "pending" => invite[w][u].status = "pending"
      BY <2>2, <2>3, <2>8 DEF TypeOK
    <3>2. invite'[q.w][q.u].id = invite[q.w][q.u].id + 1
      BY <2>2, <2>3, <2>8 DEF TypeOK
    <3>3. SUFFICES ASSUME NEW s \in Request, Of(s, "accept")'
                   PROVE  LET p == req'[s]
                              i == invite'[p.w][p.u]
                          IN  /\ p.id <= i.id
                              /\ ws'[p.w].life = "retired" /\ p.id = i.id
                                   => i.status # "pending"
      BY DEF AcceptInv
    <3>4. Of(s, "accept") /\ req'[s] = req[s]
      BY <2>4, <3>3
    <3>5. req[s] \in Req
      BY <3>4, BusyType DEF Of, AllKinds
    <3>6. req[s].w \in Ws /\ req[s].u \in User /\ req[s].id \in 0..MaxInvites
      BY <3>5 DEF Req
    <3>7. invite[q.w][q.u].id \in 0..MaxInvites
      BY <2>2 DEF TypeOK, Invite
    <3>8. req[s].id <= invite[req[s].w][req[s].u].id
      BY <3>4 DEF AcceptInv
    <3>9. CASE req[s].w = q.w /\ req[s].u = q.u
      <4>1. req[s].id < invite'[q.w][q.u].id
        BY <3>2, <3>6, <3>7, <3>8, <3>9
      <4> QED BY <3>4, <3>6, <3>2, <3>7, <3>9, <4>1
    <3>10. CASE ~(req[s].w = q.w /\ req[s].u = q.u)
      <4>1. /\ invite'[req[s].w][req[s].u].id = invite[req[s].w][req[s].u].id
            /\ invite'[req[s].w][req[s].u].status = "pending"
                 => invite[req[s].w][req[s].u].status = "pending"
        BY <3>1, <3>6, <3>10
      <4> QED BY <2>5, <3>4, <3>8, <4>1 DEF AcceptInv
    <3> QED BY <3>9, <3>10
  <2>9. \/ invite' = invite
        \/ invite' = [invite EXCEPT ![q.w] = fl]
        \/ invite' = [invite EXCEPT ![q.w] = [fl EXCEPT ![q.u] =
                        [status |-> "pending", id |-> fl[q.u].id + 1,
                         expires |-> q.now + InviteTtl]]]
    <3>1. invite' = IF fl[q.u].status = "pending" \/ fl[q.u].id = MaxInvites
                    THEN invite
                    ELSE IF SeatLeft(q.w, q.now, q.limit)
                    THEN [invite EXCEPT ![q.w] = [fl EXCEPT ![q.u] =
                           [status |-> "pending", id |-> fl[q.u].id + 1,
                            expires |-> q.now + InviteTtl]]]
                    ELSE [invite EXCEPT ![q.w] = fl]
      BY <1>2, Zenon DEF Create
    <3> HIDE DEF fl
    <3> QED BY <3>1, Zenon
  <2> QED BY <2>6, <2>7, <2>8, <2>9
<1>3. ASSUME NEW r \in Request, Accept(r) PROVE AcceptInv'
  <2> DEFINE q == req[r]
             fl == Flipped(q.w, q.now)
  <2>1. q \in Req
    BY <1>3, BusyType DEF Accept, Of, AllKinds
  <2>2. q.w \in Ws /\ q.u \in User
    BY <2>1 DEF Req
  <2>3. /\ fl \in [User -> Invite]
        /\ \A u \in User :
             /\ fl[u].id = invite[q.w][u].id
             /\ fl[u].status = "pending" => invite[q.w][u].status = "pending"
    BY <2>2, FlippedType
  <2>4. /\ Ended(fl[q.u]).id = fl[q.u].id
        /\ Ended(fl[q.u]).status = "ended"
    BY <2>2, <2>3, EndedType
  <2>5. Kept
    BY <1>3, AnswerAccepts DEF Accept
  <2>6. \/ invite' = [invite EXCEPT ![q.w] = fl]
        \/ invite' = [invite EXCEPT ![q.w] = [fl EXCEPT ![q.u] = Ended(@)]]
    BY <1>3 DEF Accept
  <2>7. \A w \in Ws, u \in User :
          /\ invite'[w][u].id = invite[w][u].id
          /\ invite'[w][u].status = "pending" => invite[w][u].status = "pending"
    <3> HIDE DEF fl
    <3>1. CASE invite' = [invite EXCEPT ![q.w] = fl]
      BY <2>2, <2>3, <3>1 DEF TypeOK
    <3>2. CASE invite' = [invite EXCEPT ![q.w] = [fl EXCEPT ![q.u] = Ended(@)]]
      BY <2>2, <2>3, <2>4, <3>2 DEF TypeOK
    <3> QED BY <2>6, <3>1, <3>2
  <2>8. ws' = ws
    BY <1>3 DEF Accept
  <2> QED BY <2>5, <2>7, <2>8, SameAccepts
<1>4. ASSUME NEW w \in Ws, Retire(w) PROVE AcceptInv'
  <2>1. SUFFICES ASSUME NEW r \in Request, Of(r, "accept")
                 PROVE  LET i == invite'[req[r].w][req[r].u]
                        IN  /\ req[r].id <= i.id
                            /\ ws'[req[r].w].life = "retired" /\ req[r].id = i.id
                                 => i.status # "pending"
    BY <1>4 DEF Retire, AcceptInv, Of
  <2>2. req[r] \in Req
    BY <2>1, BusyType DEF Of, AllKinds
  <2>3. req[r].w \in Ws /\ req[r].u \in User
    BY <2>2 DEF Req
  <2>4. CASE req[r].w = w
    <3>1. invite'[w] = Revoked(w)
      BY <1>4 DEF Retire, TypeOK
    <3>2. /\ invite'[w][req[r].u].id = invite[w][req[r].u].id
          /\ invite'[w][req[r].u].status # "pending"
      BY <2>3, <3>1, RevokedType
    <3> QED BY <2>1, <2>4, <3>2 DEF AcceptInv
  <2>5. CASE req[r].w # w
    <3>1. invite'[req[r].w] = invite[req[r].w] /\ ws'[req[r].w] = ws[req[r].w]
      BY <1>4, <2>3, <2>5 DEF Retire, TypeOK
    <3> QED BY <2>1, <3>1 DEF AcceptInv
  <2> QED BY <2>4, <2>5
<1>5. ASSUME NEW r \in Request, Resolve(r) PROVE AcceptInv'
  <2>1. req[r] \in Req
    BY <1>5, BusyType DEF Resolve, AllKinds
  <2>2. \/ req' = [req EXCEPT ![r] = Idle]
        \/ req' = [req EXCEPT ![r].limit = Seats[PlanOf(req[r].w)]]
    BY <1>5 DEF Resolve, Answer
  <2>3. ASSUME NEW s \in Request, Of(s, "accept")'
        PROVE  /\ Of(s, "accept")
               /\ req'[s].w = req[s].w /\ req'[s].u = req[s].u /\ req'[s].id = req[s].id
    <3>1. CASE s # r
      <4>1. req'[s] = req[s]
        BY <2>2, <3>1 DEF TypeOK
      <4> QED BY <2>3, <4>1 DEF Of
    <3>2. CASE s = r /\ req' = [req EXCEPT ![r] = Idle]
      <4>1. req'[s] = Idle
        BY <3>2 DEF TypeOK
      <4> QED BY <2>3, <4>1 DEF Of, Idle
    <3>3. CASE s = r /\ req' = [req EXCEPT ![r].limit = Seats[PlanOf(req[r].w)]]
      <4>1. req'[s] = [req[s] EXCEPT !.limit = Seats[PlanOf(req[r].w)]]
        BY <3>3 DEF TypeOK
      <4> QED BY <2>1, <2>3, <3>3, <4>1 DEF Of, Req
    <3> QED BY <2>2, <3>1, <3>2, <3>3
  <2> QED BY <1>5, <2>3, SameAccepts DEF Resolve
<1>6. ASSUME NEW w \in Ws, NEW u \in User, Revoke(w, u) PROVE AcceptInv'
  <2>1. /\ Ended(invite[w][u]).id = invite[w][u].id
        /\ Ended(invite[w][u]).status = "ended"
    BY EndedType DEF TypeOK
  <2>2. \A v \in Ws, x \in User :
          /\ invite'[v][x].id = invite[v][x].id
          /\ invite'[v][x].status = "pending" => invite[v][x].status = "pending"
    BY <1>6, <2>1 DEF Revoke, TypeOK
  <2> QED BY <1>6, <2>2, SameAccepts DEF Revoke, Of
<1>7. CASE Sweep
  <2>1. \A v \in Ws, x \in User :
          /\ invite'[v][x].id = invite[v][x].id
          /\ invite'[v][x].status = "pending" => invite[v][x].status = "pending"
    BY <1>7, FlippedType DEF Sweep
  <2> QED BY <1>7, <2>1, SameAccepts DEF Sweep, Of
<1>8. ASSUME invite' = invite, Kept,
             \A w \in Ws : ws'[w].life = "retired" => ws[w].life = "retired"
      PROVE  AcceptInv'
  BY <1>8, SameAccepts
<1>9. ASSUME NEW w \in Ws, NEW u \in User,
             AskCreate(w, u) \/ AskRemove(w, u) \/ AskRole(w, u) \/ AskFound(w, u)
      PROVE  AcceptInv'
  <2>1. \A kind \in AllKinds : Asked(kind, w, u) \in Req
                                 /\ Asked(kind, w, u).kind = kind
    BY AskedType DEF Asked
  <2>2. /\ [Asked("create", w, u) EXCEPT !.now = clock] \in Req
        /\ [Asked("create", w, u) EXCEPT !.now = clock].kind = "create"
    BY <2>1 DEF TypeOK, Req, AllKinds
  <2>3. PICK q \in Req : q.kind # "accept" /\ Ask(q)
    BY <1>9, <2>1, <2>2 DEF AskCreate, AskRemove, AskRole, AskFound, AllKinds
  <2>4. Kept
    BY <2>3, AskAccepts
  <2>5. ws' = ws /\ invite' = invite
    BY <1>9 DEF AskCreate, AskRemove, AskRole, AskFound
  <2> QED BY <1>8, <2>4, <2>5
<1>10. ASSUME NEW w \in Ws, NEW p \in {"free", "paid"}, AskPlan(w, p) PROVE AcceptInv'
  <2>1. Asked("plan", w, Founder) \in Req /\ Asked("plan", w, Founder).kind = "plan"
    BY AskedType DEF Sane, AllKinds, Asked
  <2>2. /\ [Asked("plan", w, Founder) EXCEPT !.plan = p] \in Req
        /\ [Asked("plan", w, Founder) EXCEPT !.plan = p].kind = "plan"
    BY <2>1 DEF Req
  <2>3. Kept
    BY <1>10, <2>2, AskAccepts DEF AskPlan
  <2> QED BY <1>8, <1>10, <2>3 DEF AskPlan
<1>11. ASSUME NEW r \in Request, Remove(r) \/ SetRole(r) \/ Found(r) \/ SetPlan(r)
       PROVE  AcceptInv'
  <2>1. Kept
    BY <1>11, AnswerAccepts DEF Remove, SetRole, Found, SetPlan
  <2>2. req[r] \in Req
    BY <1>11, BusyType DEF Remove, SetRole, Found, SetPlan, Of, AllKinds
  <2>3. req[r].w \in Ws
    BY <2>2 DEF Req
  <2>4. \A w \in Ws : ws'[w].life = "retired" => ws[w].life = "retired"
    <3>1. CASE Remove(r) \/ SetRole(r)
      BY <3>1 DEF Remove, SetRole
    <3>2. CASE Found(r)
      BY SMTT(20), <2>3, <3>2 DEF Found, TypeOK
    <3>3. CASE SetPlan(r)
      BY <2>3, <3>3 DEF SetPlan, TypeOK
    <3> QED BY <1>11, <3>1, <3>2, <3>3
  <2>5. invite' = invite
    BY <1>11 DEF Remove, SetRole, Found, SetPlan
  <2> QED BY <1>8, <2>1, <2>4, <2>5
<1>12. CASE Tick \/ UNCHANGED vars
  <2>1. invite' = invite /\ req' = req /\ ws' = ws
    BY <1>12 DEF Tick, vars
  <2> QED BY <2>1 DEF AcceptInv, Of
<1> QED BY <1>1, <1>2, <1>3, <1>4, <1>5, <1>6, <1>7, <1>9, <1>10, <1>11, <1>12 DEF Next
-----------------------------------------------------------------------------
(* Retired workspaces.                                                     *)

\* In a retired workspace no acceptance finds its invitation.
LEMMA RetiredIsLate ==
    ASSUME TypeOK, AcceptInv, NEW r \in Request, Of(r, "accept"),
           ws[req[r].w].life = "retired"
    PROVE  ~There(req[r])
BY DEF AcceptInv, There, PendingAt

\* A step that gives no member to a workspace that is retired after it keeps
\* the retired ones empty.
LEMMA StayEmpty ==
    ASSUME RetiredIsEmpty,
           \A w \in Ws : ws'[w].life = "retired" =>
             /\ ws[w].life = "retired"
             /\ \A u \in User : member[w][u] = "none" => member'[w][u] = "none"
    PROVE  RetiredIsEmpty'
BY DEF RetiredIsEmpty, MembersOf

\* No step leaves a member in a retired workspace.
LEMMA RetiredStep ==
    ASSUME Sane, TypeOK, RetiredIsEmpty, AcceptInv, [Next]_vars
    PROVE  RetiredIsEmpty'
<1>1. ASSUME NEW r \in Request, Accept(r) PROVE RetiredIsEmpty'
  <2> DEFINE q == req[r]
  <2>1. q \in Req
    BY <1>1, BusyType DEF Accept, Of, AllKinds
  <2>2. q.w \in Ws /\ q.u \in User
    BY <2>1 DEF Req
  <2>3. SUFFICES ASSUME NEW w \in Ws, ws[w].life = "retired"
                 PROVE  member'[w] = member[w]
    BY <1>1, StayEmpty DEF Accept
  <2>4. CASE w = q.w
    <3>1. ~There(q)
      BY <1>1, <2>3, <2>4, RetiredIsLate DEF Accept
    <3> QED BY <1>1, <3>1 DEF Accept
  <2>5. CASE w # q.w
    BY <1>1, <2>2, <2>5 DEF Accept, TypeOK
  <2> QED BY <2>4, <2>5
<1>2. ASSUME NEW r \in Request, Remove(r) \/ SetRole(r) PROVE RetiredIsEmpty'
  <2>1. req[r] \in Req
    BY <1>2, BusyType DEF Remove, SetRole, Of, AllKinds
  <2>2. req[r].w \in Ws /\ req[r].u \in User
    BY <2>1 DEF Req
  <2>3. \A w \in Ws, u \in User : member[w][u] = "none" => member'[w][u] = "none"
    <3>1. CASE Remove(r)
      BY <2>2, <3>1 DEF Remove, TypeOK
    <3>2. CASE SetRole(r)
      <4>1. \/ member' = member
            \/ /\ member[req[r].w][req[r].u] # "none"
               /\ \/ member' = [member EXCEPT ![req[r].w][req[r].u] = "owner"]
                  \/ member' = [member EXCEPT ![req[r].w][req[r].u] = "member"]
        BY <3>2 DEF SetRole, MembersOf
      <4> QED BY <2>2, <4>1 DEF TypeOK
    <3> QED BY <1>2, <3>1, <3>2
  <2>4. ws' = ws
    BY <1>2 DEF Remove, SetRole
  <2> QED BY <2>3, <2>4, StayEmpty
<1>3. ASSUME NEW r \in Request, Found(r) PROVE RetiredIsEmpty'
  <2>1. req[r] \in Req
    BY <1>3, BusyType DEF Found, Of, AllKinds
  <2>2. req[r].w \in Ws /\ req[r].u \in User
    BY <2>1 DEF Req
  <2>3. SUFFICES ASSUME NEW w \in Ws, ws'[w].life = "retired"
                 PROVE  ws[w].life = "retired" /\ member'[w] = member[w]
    BY StayEmpty
  <2>4. CASE ws[req[r].w].life = "none" /\ FreeSlot(req[r].u)
    BY <1>3, <2>2, <2>3, <2>4 DEF Found, TypeOK
  <2>5. CASE ~(ws[req[r].w].life = "none" /\ FreeSlot(req[r].u))
    BY <1>3, <2>3, <2>5 DEF Found
  <2> QED BY <2>4, <2>5
<1>4. ASSUME NEW w \in Ws, Retire(w) PROVE RetiredIsEmpty'
  <2>1. SUFFICES ASSUME NEW v \in Ws, ws'[v].life = "retired", NEW u \in User
                 PROVE  member'[v][u] = "none"
    BY DEF RetiredIsEmpty, MembersOf
  <2>2. CASE v = w
    BY <1>4, <2>2 DEF Retire, TypeOK
  <2>3. CASE v # w
    BY <1>4, <2>1, <2>3 DEF Retire, TypeOK, RetiredIsEmpty, MembersOf
  <2> QED BY <2>2, <2>3
<1>5. ASSUME NEW r \in Request, SetPlan(r) PROVE RetiredIsEmpty'
  <2>1. req[r] \in Req
    BY <1>5, BusyType DEF SetPlan, Of, AllKinds
  <2>2. \A w \in Ws : ws'[w].life = ws[w].life
    BY <1>5, <2>1 DEF SetPlan, TypeOK, Req
  <2> QED BY <1>5, <2>2, StayEmpty DEF SetPlan
<1>6. ASSUME UNCHANGED <<ws, member>> PROVE RetiredIsEmpty'
  BY <1>6, StayEmpty
<1>7. ASSUME NEW w \in Ws, NEW u \in User,
             AskCreate(w, u) \/ AskAccept(w, u) \/ AskRemove(w, u)
               \/ AskRole(w, u) \/ AskFound(w, u) \/ Revoke(w, u)
      PROVE  UNCHANGED <<ws, member>>
  BY <1>7 DEF AskCreate, AskAccept, AskRemove, AskRole, AskFound, Revoke
<1>8. ASSUME NEW r \in Request, Resolve(r) \/ Create(r) PROVE UNCHANGED <<ws, member>>
  BY <1>8 DEF Resolve, Create
<1>9. ASSUME NEW w \in Ws, NEW p \in {"free", "paid"}, AskPlan(w, p)
      PROVE  UNCHANGED <<ws, member>>
  BY <1>9 DEF AskPlan
<1>10. Sweep \/ Tick \/ UNCHANGED vars => UNCHANGED <<ws, member>>
  BY DEF Sweep, Tick, vars
<1> QED BY <1>1, <1>2, <1>3, <1>4, <1>5, <1>6, <1>7, <1>8, <1>9, <1>10 DEF Next

-----------------------------------------------------------------------------
(* The invariant of members and owners.                                    *)

\* The initial state has the invariant: one live workspace, its founder its
\* owner, and no request.
LEMMA InitInv == ASSUME Sane, Init PROVE WInv
<1>1. TypeOK
  BY InitType
<1>2. AlwaysOwned
  <2>1. SUFFICES ASSUME NEW w \in Ws, Live(w) PROVE OwnersOf(w) # {}
    BY DEF AlwaysOwned
  <2>2. w = First
    BY <2>1 DEF Init, Live
  <2>3. member[w][Founder] = "owner"
    BY <2>2 DEF Sane, Init
  <2> QED BY <2>3 DEF Sane, OwnersOf
<1>3. RetiredIsEmpty
  BY DEF Init, RetiredIsEmpty
<1>4. AcceptInv
  BY DEF Init, AcceptInv, Of, Idle
<1> QED BY <1>1, <1>2, <1>3, <1>4 DEF WInv

\* Every step keeps it.
LEMMA StepInv == ASSUME Sane, WInv, [Next]_vars PROVE WInv'
BY StepType, OwnedStep, RetiredStep, AcceptStep DEF WInv

-----------------------------------------------------------------------------
(* Seats and free homes.                                                   *)

\* A workspace that is not founded has no member, no invitation and no request
\* but those that found it.
UnbornInv ==
    /\ \A w \in Ws : ws[w].life = "none" =>
         MembersOf(w) = {} /\ \A u \in User : invite[w][u].status # "pending"
    /\ \A r \in Request :
         req[r] # Idle => Of(r, "found") \/ ws[req[r].w].life # "none"

\* Until its plan is lowered, a workspace has rows for the seats of its plan,
\* and no request counts on more.
RowsInv ==
    /\ \A w \in Ws : Live(w) /\ ~ws[w].lowered => Rows(w) <= Seats[PlanOf(w)]
    /\ \A r \in Request : req[r] # Idle /\ req[r].limit # 0 =>
         /\ req[r].kind \in {"create", "accept"}
         /\ Live(req[r].w) /\ ~ws[req[r].w].lowered =>
              req[r].limit <= Seats[PlanOf(req[r].w)]

SeatInv == WInv /\ UnbornInv /\ RowsInv

\* A request that is there after a step was there before, or its gate has just
\* looked.
LEMMA RequestMoves ==
    ASSUME Sane, TypeOK, [Next]_vars, NEW r \in Request, req'[r] # Idle
    PROVE  \/ /\ req[r] # Idle
              /\ req'[r].kind = req[r].kind /\ req'[r].w = req[r].w
              /\ \/ req'[r].limit = req[r].limit
                 \/ /\ req'[r].kind \in {"create", "accept"} /\ ws' = ws
                    /\ req'[r].limit = Seats[PlanOf(req[r].w)]
           \/ /\ req'[r].limit = 0
              /\ req'[r].kind # "found" => Live(req'[r].w)
<1> DEFINE Asked1(q) == /\ Ask(q) /\ q.limit = 0
                        /\ q.kind # "found" => Live(q.w)
<1>1. ASSUME NEW q \in Req, Asked1(q) PROVE
        \/ req'[r] = req[r]
        \/ /\ req'[r] = q /\ q.limit = 0
           /\ q.kind # "found" => Live(q.w)
  BY <1>1, AskedPlace DEF TypeOK
<1>2. ASSUME NEW w \in Ws, NEW u \in User,
             AskCreate(w, u) \/ AskAccept(w, u) \/ AskRemove(w, u)
               \/ AskRole(w, u) \/ AskFound(w, u)
      PROVE  \E q \in Req : Asked1(q)
  <2>1. \A kind \in AllKinds :
          /\ Asked(kind, w, u) \in Req /\ Asked(kind, w, u).kind = kind
          /\ Asked(kind, w, u).w = w /\ Asked(kind, w, u).limit = 0
    BY AskedType DEF Asked
  <2>2. PICK c : c = [Asked("create", w, u) EXCEPT !.now = clock]
    OBVIOUS
  <2>3. c \in Req /\ c.kind = "create" /\ c.w = w /\ c.limit = 0
    BY <2>1, <2>2 DEF TypeOK, Req, AllKinds
  <2>4. PICK a : a = [Asked("accept", w, u) EXCEPT !.now = clock, !.id = invite[w][u].id]
    OBVIOUS
  <2>5. a \in Req /\ a.kind = "accept" /\ a.w = w /\ a.limit = 0
    <3>1. invite[w][u].id \in 0..MaxInvites /\ clock \in 0..MaxClock
      BY DEF TypeOK, Invite
    <3> QED BY <2>1, <2>4, <3>1 DEF Req, AllKinds
  <2>6. CASE AskCreate(w, u)
    BY <2>2, <2>3, <2>6 DEF AskCreate
  <2>7. CASE AskAccept(w, u)
    BY <2>4, <2>5, <2>7 DEF AskAccept
  <2>8. CASE AskRemove(w, u)
    BY <2>1, <2>8 DEF AskRemove, AllKinds
  <2>9. CASE AskRole(w, u)
    BY <2>1, <2>9 DEF AskRole, AllKinds
  <2>10. CASE AskFound(w, u)
    BY <2>1, <2>10 DEF AskFound, AllKinds
  <2> QED BY <1>2, <2>6, <2>7, <2>8, <2>9, <2>10
<1>3. ASSUME NEW w \in Ws, NEW p \in {"free", "paid"}, AskPlan(w, p)
      PROVE  \E q \in Req : Asked1(q)
  <2>1. Asked("plan", w, Founder) \in Req /\ Asked("plan", w, Founder).kind = "plan"
        /\ Asked("plan", w, Founder).w = w /\ Asked("plan", w, Founder).limit = 0
    BY AskedType DEF Sane, AllKinds, Asked
  <2>2. PICK q : q = [Asked("plan", w, Founder) EXCEPT !.plan = p]
    OBVIOUS
  <2>3. q \in Req /\ q.kind = "plan" /\ q.w = w /\ q.limit = 0
    BY <2>1, <2>2 DEF Req
  <2> QED BY <1>3, <2>2, <2>3 DEF AskPlan
<1>4. ASSUME NEW s \in Request,
             Resolve(s) \/ Create(s) \/ Accept(s) \/ Remove(s) \/ SetRole(s)
               \/ Found(s) \/ SetPlan(s)
      PROVE  /\ req[r] # Idle
             /\ req'[r].kind = req[r].kind /\ req'[r].w = req[r].w
             /\ \/ req'[r].limit = req[r].limit
                \/ /\ req'[r].kind \in {"create", "accept"} /\ ws' = ws
                   /\ req'[r].limit = Seats[PlanOf(req[r].w)]
  <2>1. \/ req' = [req EXCEPT ![s] = Idle]
        \/ s = r /\ Resolve(s) /\ req' = [req EXCEPT ![s].limit = Seats[PlanOf(req[s].w)]]
        \/ s # r /\ req'[r] = req[r]
    <3>1. CASE Resolve(s)
      BY <3>1 DEF Resolve, Answer, TypeOK
    <3>2. CASE ~Resolve(s)
      BY <1>4, <3>2 DEF Create, Accept, Remove, SetRole, Found, SetPlan, Answer
    <3> QED BY <3>1, <3>2
  <2>2. CASE req' = [req EXCEPT ![s] = Idle]
    BY <2>2 DEF TypeOK
  <2>3. CASE s = r /\ Resolve(s) /\ req' = [req EXCEPT ![s].limit = Seats[PlanOf(req[s].w)]]
    <3>1. req[r].kind \in AllKinds
      BY <2>3 DEF Resolve, AllKinds
    <3>2. req[r] \in Req /\ req[r] # Idle
      BY <3>1, BusyType DEF Idle, AllKinds
    <3>3. req'[r] = [req[r] EXCEPT !.limit = Seats[PlanOf(req[r].w)]]
      BY <2>3 DEF TypeOK
    <3>4. ws' = ws /\ req[r].kind \in {"create", "accept"}
      BY <2>3 DEF Resolve
    <3> QED BY <3>2, <3>3, <3>4 DEF Req
  <2> QED BY <2>1, <2>2, <2>3
<1>5. ASSUME req' = req PROVE req[r] # Idle /\ req'[r] = req[r]
  BY <1>5
<1>6. \/ req' = req
      \/ \E q \in Req : Asked1(q)
      \/ \E s \in Request : \/ Resolve(s) \/ Create(s) \/ Accept(s) \/ Remove(s)
                            \/ SetRole(s) \/ Found(s) \/ SetPlan(s)
  <2>1. ASSUME NEW w \in Ws, NEW u \in User, Revoke(w, u) PROVE req' = req
    BY <2>1 DEF Revoke
  <2>2. ASSUME NEW w \in Ws, Retire(w) PROVE req' = req
    BY <2>2 DEF Retire
  <2>3. Sweep \/ Tick \/ UNCHANGED vars => req' = req
    BY DEF Sweep, Tick, vars
  <2> HIDE DEF Asked1
  <2> QED BY <1>2, <1>3, <2>1, <2>2, <2>3 DEF Next
<1> QED
  <2> HIDE DEF Asked1
  <2> QED BY <1>1, <1>4, <1>5, <1>6

\* A request creates the invitation of a login, and the lapsed ones end.
Invites(r, w, u) ==
    /\ Create(r) /\ req[r].w = w /\ req[r].u = u
    /\ SeatLeft(w, req[r].now, req[r].limit)
    /\ invite'[w] = [Flipped(w, req[r].now) EXCEPT ![u] =
         [status |-> "pending", id |-> invite[w][u].id + 1,
          expires |-> req[r].now + InviteTtl]]

\* A step leaves an invitation, ends it or creates the next one.
LEMMA InviteMoves ==
    ASSUME Sane, TypeOK, [Next]_vars, NEW w \in Ws, NEW u \in User
    PROVE  \/ invite'[w][u] = invite[w][u]
           \/ invite'[w][u] = Ended(invite[w][u])
           \/ \E r \in Request : Invites(r, w, u)
<1>1. ASSUME NEW now PROVE Flipped(w, now)[u] \in {invite[w][u], Ended(invite[w][u])}
  BY DEF Flipped
<1>2. ASSUME NEW r \in Request, Create(r) PROVE
        \/ invite'[w][u] \in {invite[w][u], Ended(invite[w][u])}
        \/ Invites(r, w, u)
  <2>1. req[r] \in Req
    BY <1>2, BusyType DEF Create, Of, AllKinds
  <2>2. req[r].w \in Ws /\ req[r].u \in User
    BY <2>1 DEF Req
  <2>3. PICK fl : fl = Flipped(req[r].w, req[r].now)
    OBVIOUS
  <2>4. fl \in [User -> Invite] /\ fl[req[r].u].id = invite[req[r].w][req[r].u].id
    BY <2>2, <2>3, FlippedType
  <2>5. \/ invite' = invite
        \/ invite' = [invite EXCEPT ![req[r].w] = fl]
        \/ /\ SeatLeft(req[r].w, req[r].now, req[r].limit)
           /\ invite' = [invite EXCEPT ![req[r].w] = [fl EXCEPT ![req[r].u] =
                        [status |-> "pending", id |-> fl[req[r].u].id + 1,
                         expires |-> req[r].now + InviteTtl]]]
    <3>1. invite' = IF fl[req[r].u].status = "pending" \/ fl[req[r].u].id = MaxInvites
                    THEN invite
                    ELSE IF SeatLeft(req[r].w, req[r].now, req[r].limit)
                    THEN [invite EXCEPT ![req[r].w] = [fl EXCEPT ![req[r].u] =
                           [status |-> "pending", id |-> fl[req[r].u].id + 1,
                            expires |-> req[r].now + InviteTtl]]]
                    ELSE [invite EXCEPT ![req[r].w] = fl]
      BY <1>2, <2>3, Zenon DEF Create
    <3> QED BY <3>1, Zenon
  <2>6. CASE w # req[r].w
    BY <2>2, <2>5, <2>6 DEF TypeOK
  <2>7. CASE w = req[r].w /\ u = req[r].u
    <3>1. \/ invite'[w] = invite[w]
          \/ invite'[w] = fl
          \/ /\ SeatLeft(w, req[r].now, req[r].limit)
             /\ invite'[w] = [fl EXCEPT ![u] =
                  [status |-> "pending", id |-> invite[w][u].id + 1,
                   expires |-> req[r].now + InviteTtl]]
      BY <2>4, <2>5, <2>7 DEF TypeOK
    <3>2. fl[u] \in {invite[w][u], Ended(invite[w][u])}
      BY <1>1, <2>3, <2>7
    <3> QED BY <1>2, <2>3, <2>7, <3>1, <3>2 DEF Invites
  <2>8. CASE w = req[r].w /\ u # req[r].u
    <3>1. invite'[w][u] \in {invite[w][u], fl[u]}
      BY ZenonT(30), <2>2, <2>4, <2>5, <2>8 DEF TypeOK
    <3>2. fl[u] \in {invite[w][u], Ended(invite[w][u])}
      BY <1>1, <2>3, <2>8
    <3> QED BY <3>1, <3>2
  <2> QED BY <2>6, <2>7, <2>8
<1>3. ASSUME NEW r \in Request, Accept(r)
      PROVE  invite'[w][u] \in {invite[w][u], Ended(invite[w][u])}
  <2>1. req[r] \in Req
    BY <1>3, BusyType DEF Accept, Of, AllKinds
  <2>2. req[r].w \in Ws /\ req[r].u \in User
    BY <2>1 DEF Req
  <2>3. PICK fl : fl = Flipped(req[r].w, req[r].now)
    OBVIOUS
  <2>4. fl \in [User -> Invite]
    BY <2>2, <2>3, FlippedType
  <2>5. \/ invite' = [invite EXCEPT ![req[r].w] = fl]
        \/ /\ There(req[r])
           /\ invite' = [invite EXCEPT ![req[r].w] =
                           [fl EXCEPT ![req[r].u] = Ended(fl[req[r].u])]]
    <3>1. invite' = [invite EXCEPT ![req[r].w] =
             IF /\ There(req[r])
                /\ \/ /\ There(req[r]) /\ req[r].u \notin MembersOf(req[r].w)
                      /\ PlanOf(req[r].w) # "free" \/ FreeHomes(req[r].u) = {}
                      /\ Cardinality(MembersOf(req[r].w)) < req[r].limit
                   \/ req[r].u \in MembersOf(req[r].w)
             THEN [fl EXCEPT ![req[r].u] = Ended(@)] ELSE fl]
      BY <1>3, <2>3, Zenon DEF Accept
    <3> QED BY <3>1
  <2>6. There(req[r]) => fl[req[r].u] = invite[req[r].w][req[r].u]
    <3>1. ASSUME There(req[r])
          PROVE  ~(invite[req[r].w][req[r].u].expires <= req[r].now)
      <4>1. /\ invite[req[r].w][req[r].u].expires \in 0..MaxClock + InviteTtl
            /\ req[r].now \in 0..MaxClock /\ MaxClock \in Nat /\ InviteTtl \in Nat
        BY <2>1, <2>2 DEF TypeOK, Invite, Req, Sane
      <4> QED BY <3>1, <4>1 DEF There, PendingAt
    <3> QED BY <2>2, <2>3, <3>1 DEF Flipped
  <2>7. u \in User /\ w \in Ws
    OBVIOUS
  <2>8. CASE w # req[r].w
    BY <2>2, <2>5, <2>8 DEF TypeOK
  <2>9. CASE w = req[r].w
    <3>1. fl[u] \in {invite[w][u], Ended(invite[w][u])}
      BY <1>1, <2>3, <2>9
    <3>2. invite'[w] \in {fl, [fl EXCEPT ![req[r].u] = Ended(fl[req[r].u])]}
      BY <2>5, <2>9 DEF TypeOK
    <3>3. CASE u # req[r].u
      BY <2>4, <3>1, <3>2, <3>3
    <3>4. CASE u = req[r].u
      <4>1. CASE invite'[w] = fl
        BY <3>1, <4>1
      <4>2. CASE invite'[w] # fl
        <5>1. There(req[r]) /\ invite'[w] = [fl EXCEPT ![u] = Ended(fl[u])]
          BY <2>5, <2>9, <3>2, <3>4, <4>2 DEF TypeOK
        <5>2. fl[u] = invite[w][u] /\ invite'[w][u] = Ended(fl[u])
          BY <2>4, <2>6, <2>9, <3>4, <5>1
        <5> QED BY <5>2
      <4> QED BY <4>1, <4>2
    <3> QED BY <3>3, <3>4
  <2> QED BY <2>8, <2>9
<1>4. ASSUME NEW v \in Ws, NEW x \in User, Revoke(v, x)
      PROVE  invite'[w][u] \in {invite[w][u], Ended(invite[w][u])}
  BY <1>4 DEF Revoke, TypeOK
<1>5. ASSUME Sweep PROVE invite'[w][u] \in {invite[w][u], Ended(invite[w][u])}
  BY <1>1, <1>5 DEF Sweep
<1>6. ASSUME NEW v \in Ws, Retire(v)
      PROVE  invite'[w][u] \in {invite[w][u], Ended(invite[w][u])}
  BY <1>6 DEF Retire, Revoked, TypeOK
<1>7. ASSUME NEW v \in Ws, NEW x \in User,
             AskCreate(v, x) \/ AskAccept(v, x) \/ AskRemove(v, x)
               \/ AskRole(v, x) \/ AskFound(v, x)
      PROVE  invite' = invite
  BY <1>7 DEF AskCreate, AskAccept, AskRemove, AskRole, AskFound
<1>8. ASSUME NEW v \in Ws, NEW p \in {"free", "paid"}, AskPlan(v, p)
      PROVE  invite' = invite
  BY <1>8 DEF AskPlan
<1>9. ASSUME NEW r \in Request,
             Resolve(r) \/ Remove(r) \/ SetRole(r) \/ Found(r) \/ SetPlan(r)
      PROVE  invite' = invite
  BY <1>9 DEF Resolve, Remove, SetRole, Found, SetPlan
<1>10. Tick \/ UNCHANGED vars => invite' = invite
  BY DEF Tick, vars
<1> QED
  BY <1>2, <1>3, <1>4, <1>5, <1>6, <1>7, <1>8, <1>9, <1>10 DEF Next

\* A step ends an invitation for good: what is pending after it was so before,
\* unless it has just been created.
LEMMA PendingMoves ==
    ASSUME Sane, TypeOK, [Next]_vars, NEW w \in Ws, NEW u \in User,
           invite'[w][u].status = "pending"
    PROVE  \/ invite'[w][u] = invite[w][u]
           \/ \E r \in Request : Invites(r, w, u)
<1>1. Ended(invite[w][u]).status = "ended"
  BY EndedType DEF TypeOK
<1> QED BY <1>1, InviteMoves, Zenon

\* A login joins by an acceptance that finds a seat and, in a free workspace,
\* no other free home.
Joins(r, w, u) ==
    /\ Accept(r) /\ req[r].w = w /\ req[r].u = u
    /\ There(req[r]) /\ Cardinality(MembersOf(w)) < req[r].limit
    /\ PlanOf(w) # "free" \/ FreeHomes(u) = {}
    /\ member' = [member EXCEPT ![w][u] = "member"]
    /\ ws' = ws

\* It founds a workspace if it has no free home.
Founds(r, w, u) ==
    /\ Found(r) /\ req[r].w = w /\ req[r].u = u
    /\ ws[w].life = "none" /\ FreeHomes(u) = {}
    /\ ws' = [ws EXCEPT ![w] = [life |-> "live", plan |-> "free", active |-> TRUE,
                                lowered |-> FALSE]]
    /\ member' = [member EXCEPT ![w][u] = "owner"]

\* There is no other way to become a member.
LEMMA MemberMoves ==
    ASSUME Sane, TypeOK, [Next]_vars, NEW w \in Ws, NEW u \in User,
           member[w][u] = "none", member'[w][u] # "none"
    PROVE  \E r \in Request : Joins(r, w, u) \/ Founds(r, w, u)
<1>1. ASSUME NEW r \in Request, Accept(r) PROVE Joins(r, w, u)
  <2>1. req[r] \in Req
    BY <1>1, BusyType DEF Accept, Of, AllKinds
  <2>2. req[r].w \in Ws /\ req[r].u \in User
    BY <2>1 DEF Req
  <2>3. \/ member' = member
        \/ /\ member' = [member EXCEPT ![req[r].w][req[r].u] = "member"]
           /\ There(req[r]) /\ Cardinality(MembersOf(req[r].w)) < req[r].limit
           /\ PlanOf(req[r].w) # "free" \/ FreeHomes(req[r].u) = {}
    BY <1>1 DEF Accept
  <2>4. w = req[r].w /\ u = req[r].u
    BY <2>2, <2>3 DEF TypeOK
  <2>5. ws' = ws
    BY <1>1 DEF Accept
  <2> QED BY <1>1, <2>3, <2>4, <2>5 DEF Joins
<1>2. ASSUME NEW r \in Request, Found(r) PROVE Founds(r, w, u)
  <2>1. req[r] \in Req
    BY <1>2, BusyType DEF Found, Of, AllKinds
  <2>2. req[r].w \in Ws /\ req[r].u \in User
    BY <2>1 DEF Req
  <2>3. \/ member' = member
        \/ /\ member' = [member EXCEPT ![req[r].w][req[r].u] = "owner"]
           /\ ws' = [ws EXCEPT ![req[r].w] =
                       [life |-> "live", plan |-> "free", active |-> TRUE,
                        lowered |-> FALSE]]
           /\ ws[req[r].w].life = "none" /\ FreeHomes(req[r].u) = {}
    BY <1>2 DEF Found, FreeSlot
  <2>4. w = req[r].w /\ u = req[r].u
    BY <2>2, <2>3 DEF TypeOK
  <2> QED BY <1>2, <2>3, <2>4 DEF Founds
<1>3. ASSUME NEW r \in Request, Remove(r) \/ SetRole(r) PROVE FALSE
  <2>1. req[r] \in Req
    BY <1>3, BusyType DEF Remove, SetRole, Of, AllKinds
  <2>2. req[r].w \in Ws /\ req[r].u \in User
    BY <2>1 DEF Req
  <2>3. CASE Remove(r)
    BY <2>2, <2>3 DEF Remove, TypeOK
  <2>4. CASE SetRole(r)
    <3>1. \/ member' = member
          \/ /\ member[req[r].w][req[r].u] # "none"
             /\ \E role \in Roles :
                  member' = [member EXCEPT ![req[r].w][req[r].u] = role]
      BY <2>4 DEF SetRole, MembersOf, Roles
    <3>2. \A x \in Ws, y \in User :
            member'[x][y] = member[x][y] \/ (x = req[r].w /\ y = req[r].u)
      <4>1. CASE member' = member
        BY <4>1
      <4>2. ASSUME NEW role \in Roles,
                   member' = [member EXCEPT ![req[r].w][req[r].u] = role],
                   NEW x \in Ws, NEW y \in User, x # req[r].w \/ y # req[r].u
            PROVE  member'[x][y] = member[x][y]
        BY <2>2, <4>2 DEF TypeOK
      <4> QED BY <3>1, <4>1, <4>2
    <3>3. member' = member \/ member[req[r].w][req[r].u] # "none"
      BY <3>1
    <3> QED BY <3>2, <3>3
  <2> QED BY <1>3, <2>3, <2>4
<1>4. ASSUME NEW v \in Ws, Retire(v) PROVE FALSE
  BY <1>4 DEF Retire, TypeOK
<1>5. member' # member
  OBVIOUS
<1>6. ASSUME NEW v \in Ws, NEW x \in User,
             AskCreate(v, x) \/ AskAccept(v, x) \/ AskRemove(v, x)
               \/ AskRole(v, x) \/ AskFound(v, x) \/ Revoke(v, x)
      PROVE  member' = member
  BY <1>6 DEF AskCreate, AskAccept, AskRemove, AskRole, AskFound, Revoke
<1>7. ASSUME NEW r \in Request, Resolve(r) \/ Create(r) \/ SetPlan(r)
      PROVE  member' = member
  BY <1>7 DEF Resolve, Create, SetPlan
<1>8. ASSUME NEW v \in Ws, NEW p \in {"free", "paid"}, AskPlan(v, p)
      PROVE  member' = member
  BY <1>8 DEF AskPlan
<1>9. Sweep \/ Tick \/ UNCHANGED vars => member' = member
  BY DEF Sweep, Tick, vars
<1> QED BY <1>1, <1>2, <1>3, <1>4, <1>5, <1>6, <1>7, <1>8, <1>9 DEF Next

\* The steps that write a workspace's row.
LEMMA WsMoves ==
    ASSUME [Next]_vars
    PROVE  \/ ws' = ws
           \/ \E r \in Request : Found(r) \/ SetPlan(r)
           \/ \E v \in Ws : Retire(v)
<1>1. ASSUME NEW v \in Ws, NEW x \in User,
             AskCreate(v, x) \/ AskAccept(v, x) \/ AskRemove(v, x)
               \/ AskRole(v, x) \/ AskFound(v, x) \/ Revoke(v, x)
      PROVE  ws' = ws
  BY <1>1 DEF AskCreate, AskAccept, AskRemove, AskRole, AskFound, Revoke
<1>2. ASSUME NEW r \in Request,
             Resolve(r) \/ Create(r) \/ Accept(r) \/ Remove(r) \/ SetRole(r)
      PROVE  ws' = ws
  BY <1>2 DEF Resolve, Create, Accept, Remove, SetRole
<1>3. ASSUME NEW v \in Ws, NEW p \in {"free", "paid"}, AskPlan(v, p)
      PROVE  ws' = ws
  BY <1>3 DEF AskPlan
<1>4. Sweep \/ Tick \/ UNCHANGED vars => ws' = ws
  BY DEF Sweep, Tick, vars
<1> QED BY <1>1, <1>2, <1>3, <1>4 DEF Next

\* A workspace is founded once, and what is live was so or has been founded.
LEMMA LifeMoves ==
    ASSUME Sane, TypeOK, [Next]_vars, NEW w \in Ws
    PROVE  /\ ws'[w].life = "none" => ws[w].life = "none"
           /\ ws'[w].life = "live" => ws[w].life \in {"live", "none"}
<1>1. CASE ws' = ws
  BY <1>1 DEF TypeOK
<1>2. ASSUME NEW r \in Request, Found(r) \/ SetPlan(r)
      PROVE  ws'[w].life \in {ws[w].life, "live"} /\ (ws'[w] # ws[w] /\ Found(r)
               => ws[w].life = "none")
             /\ (SetPlan(r) => ws'[w].life = ws[w].life)
  <2>1. req[r] \in Req
    BY <1>2, BusyType DEF Found, SetPlan, Of, AllKinds
  <2>2. req[r].w \in Ws
    BY <2>1 DEF Req
  <2>3. CASE Found(r)
    <3> DEFINE new == [life |-> "live", plan |-> "free", active |-> TRUE,
                       lowered |-> FALSE]
    <3>1. \/ ws' = ws
          \/ ws[req[r].w].life = "none" /\ ws' = [ws EXCEPT ![req[r].w] = new]
      BY <2>3 DEF Found
    <3>2. ~SetPlan(r)
      BY <2>3 DEF Found, SetPlan, Of
    <3>3. new.life = "live"
      OBVIOUS
    <3> HIDE DEF new
    <3>4. ws'[w] = ws[w] \/ (ws'[w] = new /\ ws[w].life = "none")
      <4>1. ws = [v \in Ws |-> ws[v]]
        BY DEF TypeOK
      <4>2. CASE ws' = ws
        BY <4>2
      <4>3. CASE ws[req[r].w].life = "none" /\ ws' = [ws EXCEPT ![req[r].w] = new]
        <5>1. ws'[w] = IF w = req[r].w THEN new ELSE ws[w]
          BY <2>2, <4>1, <4>3
        <5> QED BY <4>3, <5>1
      <4> QED BY <3>1, <4>2, <4>3
    <3> QED BY <2>3, <3>2, <3>3, <3>4
  <2>4. CASE SetPlan(r)
    <3>1. ~Found(r)
      BY <2>4 DEF Found, SetPlan, Of
    <3>2. ws'[w].life = ws[w].life
      BY <2>2, <2>4 DEF SetPlan, TypeOK
    <3> QED BY <2>4, <3>1, <3>2
  <2> QED BY <1>2, <2>3, <2>4
<1>3. ASSUME NEW v \in Ws, Retire(v)
      PROVE  ws'[w].life = ws[w].life \/ ws'[w].life = "retired"
  BY <1>3 DEF Retire, TypeOK
<1>4. ws[w].life \in {"none", "live", "retired"}
  BY DEF TypeOK
<1> QED BY <1>1, <1>2, <1>3, <1>4, WsMoves

\* Nobody is a member of a workspace that was not founded.
LEMMA UnbornStep ==
    ASSUME Sane, TypeOK, UnbornInv, [Next]_vars PROVE UnbornInv'
<1>1. ASSUME NEW w \in Ws, ws'[w].life = "none", NEW u \in User, member'[w][u] # "none"
      PROVE  FALSE
  <2>1. ws[w].life = "none"
    BY <1>1, LifeMoves
  <2>2. member[w][u] = "none"
    BY <2>1 DEF UnbornInv, MembersOf
  <2>3. PICK r \in Request : Joins(r, w, u) \/ Founds(r, w, u)
    BY <1>1, <2>2, MemberMoves
  <2>4. ~Founds(r, w, u)
    BY <1>1 DEF Founds, TypeOK
  <2>5. Of(r, "accept") /\ req[r].w = w
    BY <2>3, <2>4 DEF Joins, Accept
  <2> QED BY <2>1, <2>5 DEF UnbornInv, Of, Idle
<1>2. ASSUME NEW r \in Request, req'[r] # Idle, req'[r].kind # "found"
      PROVE  ws'[req'[r].w].life # "none"
  <2>1. req'[r] \in Req
    BY <1>2, StepType DEF TypeOK
  <2>2. req'[r].w \in Ws
    BY <2>1 DEF Req
  <2>3. ws[req'[r].w].life # "none"
    <3>1. CASE Live(req'[r].w)
      BY <3>1 DEF Live
    <3>2. CASE req[r] # Idle /\ req'[r].kind = req[r].kind /\ req'[r].w = req[r].w
      BY <1>2, <3>2 DEF UnbornInv, Of
    <3> QED BY <1>2, <3>1, <3>2, RequestMoves
  <2> QED BY <2>2, <2>3, LifeMoves
<1>3. \A w \in Ws : ws'[w].life = "none" => MembersOf(w)' = {}
  BY <1>1 DEF MembersOf
<1>4. ASSUME NEW w \in Ws, ws'[w].life = "none", NEW u \in User,
             invite'[w][u].status = "pending"
      PROVE  FALSE
  <2>1. ws[w].life = "none"
    BY <1>4, LifeMoves
  <2>2. invite'[w][u] # invite[w][u]
    BY <1>4, <2>1 DEF UnbornInv
  <2>3. PICK r \in Request : Invites(r, w, u)
    BY <1>4, <2>2, PendingMoves
  <2>4. Of(r, "create") /\ req[r].w = w
    BY <2>3 DEF Invites, Create
  <2> QED BY <2>1, <2>4 DEF UnbornInv, Of, Idle
<1> QED BY <1>2, <1>3, <1>4 DEF UnbornInv, Of

\* Rows are counted in naturals, a plan has a natural number of seats, and an
\* invitation is a row whether it is live or not.
LEMMA RowsType ==
    ASSUME Sane, TypeOK, NEW w \in Ws
    PROVE  /\ Rows(w) \in Nat /\ Cardinality(MembersOf(w)) \in Nat
           /\ Seats[PlanOf(w)] \in Nat
           /\ \A now : SeatsAt(w, now) \in Nat /\ SeatsAt(w, now) <= Rows(w)
<1>1. PICK M, P : M = MembersOf(w) /\ P = {u \in User : invite[w][u].status = "pending"}
  OBVIOUS
<1>2. /\ IsFiniteSet(User) /\ M \subseteq User /\ P \subseteq User
  BY <1>1 DEF Sane, MembersOf
<1>3. /\ IsFiniteSet(M) /\ IsFiniteSet(P)
      /\ Cardinality(M) \in Nat /\ Cardinality(P) \in Nat
  BY <1>2, FS_Subset, FS_CardinalityType
<1>4. Rows(w) = Cardinality(M) + Cardinality(P)
  BY <1>1 DEF Rows
<1>5. ASSUME NEW now
      PROVE  SeatsAt(w, now) \in Nat /\ SeatsAt(w, now) <= Rows(w)
  <2>1. PICK L : L = {u \in User : PendingAt(w, u, now)}
    OBVIOUS
  <2>2. L \subseteq P
    BY <1>1, <2>1 DEF PendingAt
  <2>3. Cardinality(L) \in Nat /\ Cardinality(L) <= Cardinality(P)
    BY <1>3, <2>2, FS_Subset, FS_CardinalityType
  <2>4. SeatsAt(w, now) = Cardinality(M) + Cardinality(L)
    BY <1>1, <2>1 DEF SeatsAt
  <2> QED BY <1>3, <1>4, <2>3, <2>4
<1>6. Seats[PlanOf(w)] \in Nat
  BY DEF Sane, TypeOK, PlanOf
<1> QED BY <1>1, <1>3, <1>4, <1>5, <1>6

\* The same after a step.
LEMMA RowsTypeNext ==
    ASSUME Sane, TypeOK', NEW w \in Ws
    PROVE  /\ Rows(w)' \in Nat /\ Cardinality(MembersOf(w))' \in Nat
           /\ Seats[PlanOf(w)'] \in Nat
<1>1. PICK M, P : M = MembersOf(w)' /\ P = {u \in User : invite'[w][u].status = "pending"}
  OBVIOUS
<1>2. /\ IsFiniteSet(User) /\ M \subseteq User /\ P \subseteq User
  BY <1>1 DEF Sane, MembersOf
<1>3. Cardinality(M) \in Nat /\ Cardinality(P) \in Nat
  BY <1>2, FS_Subset, FS_CardinalityType
<1>4. Rows(w)' = Cardinality(M) + Cardinality(P)
  BY <1>1 DEF Rows
<1>5. Seats[PlanOf(w)'] \in Nat
  BY DEF Sane, TypeOK, PlanOf
<1> QED BY <1>1, <1>3, <1>4, <1>5

\* So the seats fit where the rows do.
LEMMA RowsCover ==
    ASSUME Sane, TypeOK, RowsInv PROVE PlanIsNotOversold
<1> SUFFICES ASSUME NEW w \in Ws, Live(w), ~ws[w].lowered
             PROVE  SeatsAt(w, clock) <= Seats[PlanOf(w)]
  BY DEF PlanIsNotOversold
<1>1. Rows(w) <= Seats[PlanOf(w)]
  BY DEF RowsInv
<1> QED BY <1>1, RowsType

\* Who creates an invitation has counted all rows that its batch leaves: the
\* lapsed ones end in it.
LEMMA RowsByInvite ==
    ASSUME Sane, TypeOK, TypeOK', NEW w \in Ws, NEW u \in User, NEW r \in Request,
           Invites(r, w, u)
    PROVE  /\ Writes(r, w) /\ req[r].limit # 0
           /\ Rows(w)' <= req[r].limit /\ MembersOf(w)' = MembersOf(w)
<1>1. req[r] \in Req /\ req[r] # Idle
  BY BusyType DEF Invites, Create, Of, AllKinds, Idle
<1>2. req[r].now \in Nat /\ req[r].limit \in Nat
  BY <1>1 DEF Req, Sane
<1>3. req'[r] = Idle /\ MembersOf(w)' = MembersOf(w) /\ req[r].w = w /\ req[r].limit # 0
  BY <1>2 DEF Invites, Create, Answer, TypeOK, MembersOf
<1>4. PICK M, P, P1 : /\ M = MembersOf(w)
                      /\ P = {x \in User : PendingAt(w, x, req[r].now)}
                      /\ P1 = {x \in User : invite'[w][x].status = "pending"}
  OBVIOUS
<1>5. P1 \subseteq P \cup {u}
  <2>1. SUFFICES ASSUME NEW x \in User, x # u, invite'[w][x].status = "pending"
                 PROVE  PendingAt(w, x, req[r].now)
    BY <1>4
  <2>2. invite'[w][x] = Flipped(w, req[r].now)[x]
    <3>1. Flipped(w, req[r].now) \in [User -> Invite]
      BY FlippedType
    <3> QED BY <2>1, <3>1 DEF Invites
  <2>3. invite[w][x] \in Invite /\ invite[w][x].expires \in Nat
    BY DEF TypeOK, Invite, Sane
  <2>4. Ended(invite[w][x]).status = "ended"
    BY <2>3, EndedType
  <2>5. /\ invite[w][x].status = "pending"
        /\ ~(invite[w][x].expires <= req[r].now)
    BY <2>1, <2>2, <2>4 DEF Flipped
  <2> QED BY <1>2, <2>3, <2>5 DEF PendingAt
<1>6. /\ IsFiniteSet(P) /\ IsFiniteSet(P \cup {u})
      /\ Cardinality(M) \in Nat /\ Cardinality(P) \in Nat
      /\ Cardinality(P \cup {u}) <= Cardinality(P) + 1
  <2>1. IsFiniteSet(User) /\ M \subseteq User /\ P \subseteq User
    BY <1>4 DEF Sane, MembersOf
  <2>2. IsFiniteSet(M) /\ IsFiniteSet(P)
    BY <2>1, FS_Subset
  <2>3. Cardinality(P \cup {u}) \in {Cardinality(P), Cardinality(P) + 1}
    BY <2>2, FS_AddElement
  <2> QED BY <2>2, <2>3, FS_AddElement, FS_CardinalityType
<1>7. Cardinality(P1) \in Nat /\ Cardinality(P1) <= Cardinality(P) + 1
  <2>1. IsFiniteSet(P1) /\ Cardinality(P1) <= Cardinality(P \cup {u})
    BY <1>5, <1>6, FS_Subset
  <2>2. Cardinality(P \cup {u}) \in Nat /\ Cardinality(P1) \in Nat
    BY <1>6, <2>1, FS_CardinalityType
  <2> QED BY <1>6, <2>1, <2>2
<1>8. Cardinality(M) + Cardinality(P) < req[r].limit
  BY <1>4 DEF Invites, SeatLeft, SeatsAt
<1>9. Rows(w)' = Cardinality(M) + Cardinality(P1)
  BY <1>3, <1>4 DEF Rows
<1> QED BY <1>1, <1>2, <1>3, <1>6, <1>7, <1>8, <1>9 DEF Writes

\* Who joins gives the row of an invitation, lapsed or not, for that of a
\* member, and has counted the members.
LEMMA RowsByJoin ==
    ASSUME Sane, TypeOK, [Next]_vars, NEW w \in Ws, NEW u \in User, NEW r \in Request,
           Joins(r, w, u), member[w][u] = "none"
    PROVE  /\ Writes(r, w) /\ Rows(w)' <= Rows(w)
           /\ Cardinality(MembersOf(w))' <= req[r].limit
<1>1. req'[r] = Idle /\ Of(r, "accept")
  BY DEF Joins, Accept, Answer, TypeOK
<1>2. req[r] \in Req /\ req[r] # Idle /\ req[r].w = w /\ req[r].u = u
  BY <1>1, BusyType DEF Joins, Of, AllKinds, Idle
<1>3. req[r].limit \in Nat
  BY <1>2 DEF Req, Sane
<1>4. PICK M, M1, P, P1 : /\ M = MembersOf(w) /\ M1 = MembersOf(w)'
                          /\ P = {x \in User : invite[w][x].status = "pending"}
                          /\ P1 = {x \in User : invite'[w][x].status = "pending"}
  OBVIOUS
<1>5. M1 = M \cup {u} /\ u \notin M
  <2>1. member' = [member EXCEPT ![w][u] = "member"]
    BY DEF Joins
  <2>2. \A x \in User : member'[w][x] = IF x = u THEN "member" ELSE member[w][x]
    BY <2>1 DEF TypeOK
  <2> QED BY <1>4, <2>2 DEF MembersOf
<1>6. u \in P
  BY <1>2, <1>4 DEF Joins, There, PendingAt
<1>7. P1 \subseteq P \ {u}
  <2>1. SUFFICES ASSUME NEW x \in User, invite'[w][x].status = "pending"
                 PROVE  x # u /\ invite[w][x].status = "pending"
    BY <1>4
  <2>2. ASSUME NEW s \in Request, Create(s) PROVE FALSE
    <3>1. member' = member
      BY <2>2 DEF Create
    <3> QED BY <1>4, <1>5, <3>1 DEF MembersOf
  <2>3. invite'[w][x] = invite[w][x]
    BY <2>1, <2>2, PendingMoves DEF Invites
  <2>4. ASSUME x = u PROVE FALSE
    <3>1. PICK fl : fl = Flipped(w, req[r].now)
      OBVIOUS
    <3>2. fl \in [User -> Invite]
      BY <3>1, FlippedType
    <3>3. invite' = [invite EXCEPT ![w] = [fl EXCEPT ![u] = Ended(@)]]
      <4>1. /\ There(req[r]) /\ u \notin MembersOf(w)
            /\ PlanOf(w) # "free" \/ FreeHomes(u) = {}
            /\ Cardinality(MembersOf(w)) < req[r].limit
        BY <1>4, <1>5 DEF Joins
      <4> QED BY <1>2, <3>1, <4>1 DEF Joins, Accept
    <3>4. invite'[w][u] = Ended(fl[u])
      BY <3>2, <3>3 DEF TypeOK
    <3> QED BY <2>1, <2>4, <3>2, <3>4, EndedType
  <2> QED BY <2>1, <2>3, <2>4
<1>8. IsFiniteSet(P) /\ IsFiniteSet(M)
  <2>1. IsFiniteSet(User) /\ M \subseteq User /\ P \subseteq User
    BY <1>4 DEF Sane, MembersOf
  <2> QED BY <2>1, FS_Subset
<1>9. Cardinality(M1) = Cardinality(M) + 1 /\ Cardinality(M) \in Nat
  BY <1>5, <1>8, FS_AddElement, FS_CardinalityType
<1>10. /\ Cardinality(P) \in Nat /\ Cardinality(P1) \in Nat
       /\ Cardinality(P1) <= Cardinality(P) - 1
  <2>1. Cardinality(P \ {u}) = Cardinality(P) - 1 /\ IsFiniteSet(P \ {u})
    BY <1>6, <1>8, FS_RemoveElement
  <2>2. IsFiniteSet(P1) /\ Cardinality(P1) <= Cardinality(P \ {u})
    BY <1>7, <2>1, FS_Subset
  <2> QED BY <1>8, <2>1, <2>2, FS_CardinalityType
<1>11. Rows(w) = Cardinality(M) + Cardinality(P)
  BY <1>4 DEF Rows
<1>12. Rows(w)' = Cardinality(M1) + Cardinality(P1)
  BY <1>4 DEF Rows
<1>13. Rows(w)' <= Rows(w)
  BY <1>9, <1>10, <1>11, <1>12
<1>14. Cardinality(M1) <= req[r].limit
  BY <1>3, <1>4, <1>9 DEF Joins
<1> QED BY <1>1, <1>2, <1>4, <1>13, <1>14 DEF Writes

\* Who founds a workspace has its one row.
LEMMA RowsByFound ==
    ASSUME Sane, TypeOK, TypeOK', UnbornInv, NEW w \in Ws, NEW u \in User,
           NEW r \in Request, Founds(r, w, u)
    PROVE  Writes(r, w) /\ Of(r, "found") /\ Rows(w)' = 1
<1>1. Writes(r, w) /\ Of(r, "found")
  BY DEF Founds, Found, Answer, Of, TypeOK, Idle, Writes
<1>2. PICK M1, P1 : /\ M1 = MembersOf(w)'
                    /\ P1 = {x \in User : invite'[w][x].status = "pending"}
  OBVIOUS
<1>3. invite' = invite
  BY DEF Founds, Found
<1>4. P1 = {}
  BY <1>2, <1>3 DEF Founds, UnbornInv
<1>5. M1 = {u}
  <2>1. \A x \in User : member'[w][x] = IF x = u THEN "owner" ELSE member[w][x]
    BY DEF Founds, TypeOK
  <2>2. \A x \in User : member[w][x] = "none"
    BY DEF Founds, UnbornInv, MembersOf
  <2> QED BY <1>2, <2>1, <2>2 DEF MembersOf
<1>6. Cardinality(M1) = 1 /\ Cardinality(P1) = 0
  BY <1>4, <1>5, FS_Singleton, FS_EmptySet
<1>7. Rows(w)' = Cardinality(M1) + Cardinality(P1)
  BY <1>2 DEF Rows
<1> QED BY <1>1, <1>6, <1>7

\* No other step adds a row or a member.
LEMMA RowsStay ==
    ASSUME Sane, TypeOK, TypeOK', [Next]_vars, NEW w \in Ws,
           \A u \in User, r \in Request : ~Invites(r, w, u),
           ~\E u \in User : member[w][u] = "none" /\ member'[w][u] # "none"
    PROVE  /\ Rows(w)' <= Rows(w)
           /\ Cardinality(MembersOf(w))' <= Cardinality(MembersOf(w))
<1>1. PICK M, M1, P, P1 : /\ M = MembersOf(w) /\ M1 = MembersOf(w)'
                          /\ P = {x \in User : invite[w][x].status = "pending"}
                          /\ P1 = {x \in User : invite'[w][x].status = "pending"}
  OBVIOUS
<1>2. M1 \subseteq M /\ P1 \subseteq P
  BY <1>1, PendingMoves DEF MembersOf
<1>3. IsFiniteSet(M) /\ IsFiniteSet(P)
  <2>1. IsFiniteSet(User) /\ M \subseteq User /\ P \subseteq User
    BY <1>1 DEF Sane, MembersOf
  <2> QED BY <2>1, FS_Subset
<1>4. /\ Cardinality(M) \in Nat /\ Cardinality(M1) \in Nat
      /\ Cardinality(P) \in Nat /\ Cardinality(P1) \in Nat
      /\ Cardinality(M1) <= Cardinality(M) /\ Cardinality(P1) <= Cardinality(P)
  BY <1>2, <1>3, FS_Subset, FS_CardinalityType
<1>5. /\ Rows(w) = Cardinality(M) + Cardinality(P)
      /\ Rows(w)' = Cardinality(M1) + Cardinality(P1)
  BY <1>1 DEF Rows
<1> QED BY <1>1, <1>4, <1>5

\* A step that takes a seat is a batch that counted it.
LEMMA SeatStep == ASSUME Sane, SeatInv, [Next]_vars PROVE TakesASeatThereIs
<1>1. TypeOK /\ UnbornInv /\ TypeOK'
  BY StepType DEF SeatInv, WInv
<1>2. SUFFICES ASSUME NEW w \in Ws
               PROVE  /\ \/ Rows(w)' <= Rows(w)
                         \/ \E r \in Request :
                              Writes(r, w) /\ (Of(r, "found") \/ Rows(w)' <= req[r].limit)
                      /\ \/ Cardinality(MembersOf(w))' <= Cardinality(MembersOf(w))
                         \/ \E r \in Request :
                              /\ Writes(r, w)
                              /\ \/ Of(r, "found")
                                 \/ Cardinality(MembersOf(w))' <= req[r].limit
  <2>1. ASSUME NEW w \in Ws
        PROVE  /\ Rows(w) \in Nat /\ Rows(w)' \in Nat
               /\ Cardinality(MembersOf(w)) \in Nat
               /\ Cardinality(MembersOf(w))' \in Nat
    BY <1>1, RowsType, RowsTypeNext
  <2> QED BY <2>1 DEF TakesASeatThereIs
<1>3. CASE \E u \in User, r \in Request : Invites(r, w, u)
  <2>1. /\ \E r \in Request : Writes(r, w) /\ Rows(w)' <= req[r].limit
        /\ MembersOf(w)' = MembersOf(w)
    BY <1>1, <1>3, RowsByInvite
  <2>2. Cardinality(MembersOf(w))' <= Cardinality(MembersOf(w))
    <3>1. Cardinality(MembersOf(w)) \in Nat
      BY <1>1, RowsType
    <3> QED BY <2>1, <3>1
  <2> QED BY <2>1, <2>2
<1>4. CASE \E u \in User : member[w][u] = "none" /\ member'[w][u] # "none"
  <2>1. PICK u \in User, r \in Request :
          /\ member[w][u] = "none"
          /\ Joins(r, w, u) \/ Founds(r, w, u)
    BY <1>1, <1>4, MemberMoves
  <2>2. CASE Joins(r, w, u)
    BY <1>1, <2>1, <2>2, RowsByJoin
  <2>3. CASE Founds(r, w, u)
    BY <1>1, <2>3, RowsByFound
  <2> QED BY <2>1, <2>2, <2>3
<1>5. CASE /\ \A u \in User, r \in Request : ~Invites(r, w, u)
           /\ ~\E u \in User : member[w][u] = "none" /\ member'[w][u] # "none"
  BY <1>1, <1>5, RowsStay
<1> QED BY <1>3, <1>4, <1>5

\* A workspace that is live, and whose plan was never lowered, was so with no
\* more seats, or has been founded.
LEMMA PlanMoves ==
    ASSUME Sane, TypeOK, [Next]_vars, NEW w \in Ws,
           ws'[w].life = "live", ~ws'[w].lowered
    PROVE  \/ /\ Live(w) /\ ~ws[w].lowered
              /\ Seats[PlanOf(w)] <= Seats[PlanOf(w)']
           \/ /\ \E r \in Request, u \in User : Founds(r, w, u)
              /\ PlanOf(w)' = "free"
<1>1. Seats[PlanOf(w)] \in Nat
  BY RowsType
<1>2. CASE ws'[w] = ws[w]
  BY <1>1, <1>2 DEF Live, PlanOf
<1>3. ASSUME NEW r \in Request, SetPlan(r), w = req[r].w
      PROVE  Live(w) /\ ~ws[w].lowered /\ Seats[PlanOf(w)] <= Seats[PlanOf(w)']
  <2>1. req[r] \in Req
    BY <1>3, BusyType DEF SetPlan, Of, AllKinds
  <2>2. req[r].plan \in {"free", "paid"}
    BY <2>1 DEF Req
  <2>3. PICK less \in BOOLEAN :
          less = (ws[w].lowered \/ Seats[req[r].plan] < Seats[PlanOf(w)])
    BY DEF TypeOK
  <2>4. ws[w] \in [life : {"none", "live", "retired"}, plan : {"free", "paid"},
                   active : BOOLEAN, lowered : BOOLEAN]
    BY DEF TypeOK
  <2>5. ws'[w] = Set(w, req[r].plan)
    BY <1>3, <2>2, SetPlanMoves
  <2>6. ws'[w] = [ws[w] EXCEPT !.plan = req[r].plan, !.active = TRUE, !.lowered = less]
    BY <2>3, <2>5 DEF Set
  <2>7. /\ ws'[w].life = ws[w].life /\ ws'[w].lowered = less
        /\ ws'[w].plan = req[r].plan /\ ws'[w].active
    BY <2>2, <2>4, <2>6
  <2>8. PlanOf(w)' = req[r].plan
    BY <2>7 DEF PlanOf
  <2>9. Seats[req[r].plan] \in Nat
    BY <2>2 DEF Sane
  <2>10. Seats[PlanOf(w)'] = Seats[req[r].plan]
    BY <2>8
  <2>11. ~less
    BY <2>7
  <2>12. ~ws[w].lowered /\ ~(Seats[req[r].plan] < Seats[PlanOf(w)])
    BY <2>3, <2>11
  <2>13. Seats[PlanOf(w)] <= Seats[PlanOf(w)']
    BY <1>1, <2>9, <2>10, <2>12
  <2> QED BY <2>7, <2>12, <2>13 DEF Live
<1>4. ASSUME NEW r \in Request, Found(r), ws'[w] # ws[w]
      PROVE  (\E u \in User : Founds(r, w, u)) /\ PlanOf(w)' = "free"
  <2>1. req[r] \in Req
    BY <1>4, BusyType DEF Found, Of, AllKinds
  <2>2. req[r].w \in Ws /\ req[r].u \in User
    BY <2>1 DEF Req
  <2>3. PICK new : new = [life |-> "live", plan |-> "free", active |-> TRUE,
                          lowered |-> FALSE]
    OBVIOUS
  <2>4. /\ ws[req[r].w].life = "none" /\ FreeHomes(req[r].u) = {}
        /\ ws' = [ws EXCEPT ![req[r].w] = new]
        /\ member' = [member EXCEPT ![req[r].w][req[r].u] = "owner"]
    BY <1>4, <2>3 DEF Found, FreeSlot
  <2>5. ws = [v \in Ws |-> ws[v]]
    BY DEF TypeOK
  <2>6. w = req[r].w /\ ws'[w] = new
    BY <1>4, <2>2, <2>4, <2>5
  <2>7. Founds(r, w, req[r].u)
    BY <1>4, <2>3, <2>4, <2>6 DEF Founds
  <2>8. PlanOf(w)' = "free"
    BY <2>3, <2>6 DEF PlanOf
  <2> QED BY <2>2, <2>7, <2>8
<1>5. ASSUME NEW r \in Request, SetPlan(r), w # req[r].w PROVE ws'[w] = ws[w]
  <2>1. req[r] \in Req
    BY <1>5, BusyType DEF SetPlan, Of, AllKinds
  <2> QED BY <1>5, <2>1 DEF SetPlan, Req, TypeOK
<1>6. ASSUME NEW v \in Ws, Retire(v) PROVE ws'[w] = ws[w]
  BY <1>6 DEF Retire, TypeOK
<1> QED BY <1>2, <1>3, <1>4, <1>5, <1>6, WsMoves

\* Every step keeps RowsInv.
LEMMA RowsStep == ASSUME Sane, SeatInv, [Next]_vars PROVE RowsInv'
<1>1. TypeOK /\ UnbornInv /\ RowsInv /\ TypeOK'
  BY StepType DEF SeatInv, WInv
<1>2. ASSUME NEW w \in Ws, ws'[w].life = "live", ~ws'[w].lowered
      PROVE  Rows(w)' <= Seats[PlanOf(w)']
  <2>1. Rows(w) \in Nat /\ Rows(w)' \in Nat /\ Seats[PlanOf(w)] \in Nat
        /\ Seats[PlanOf(w)'] \in Nat
    BY <1>1, RowsType, RowsTypeNext
  <2>2. CASE /\ \E r \in Request, u \in User : Founds(r, w, u)
             /\ PlanOf(w)' = "free"
    <3>1. Rows(w)' = 1
      BY <1>1, <2>2, RowsByFound
    <3>2. Seats["free"] \in Nat \ {0}
      BY DEF Sane
    <3> QED BY <2>2, <3>1, <3>2
  <2>3. CASE /\ Live(w) /\ ~ws[w].lowered
             /\ Seats[PlanOf(w)] <= Seats[PlanOf(w)']
    <3>1. Rows(w) <= Seats[PlanOf(w)]
      BY <1>1, <2>3 DEF RowsInv
    <3>2. CASE \E u \in User, r \in Request : Invites(r, w, u)
      <4>1. PICK r \in Request : /\ Writes(r, w) /\ req[r].limit # 0
                                 /\ Rows(w)' <= req[r].limit
        BY <1>1, <3>2, RowsByInvite
      <4>2. req[r].limit <= Seats[PlanOf(w)]
        BY <1>1, <2>3, <4>1 DEF RowsInv, Writes
      <4>3. req[r].limit \in Nat
        BY <1>1, <4>1 DEF TypeOK, Writes, Req, Sane
      <4> QED BY <2>1, <2>3, <4>1, <4>2, <4>3
    <3>3. CASE \E u \in User : member[w][u] = "none" /\ member'[w][u] # "none"
      <4>1. PICK u \in User, r \in Request :
              member[w][u] = "none" /\ (Joins(r, w, u) \/ Founds(r, w, u))
        BY <1>1, <3>3, MemberMoves
      <4>2. ~Founds(r, w, u)
        BY <2>3 DEF Founds, Live
      <4>3. Rows(w)' <= Rows(w)
        BY <1>1, <4>1, <4>2, RowsByJoin
      <4> QED BY <2>1, <2>3, <3>1, <4>3
    <3>4. CASE /\ \A u \in User, r \in Request : ~Invites(r, w, u)
               /\ ~\E u \in User : member[w][u] = "none" /\ member'[w][u] # "none"
      <4>1. Rows(w)' <= Rows(w)
        BY <1>1, <3>4, RowsStay
      <4> QED BY <2>1, <2>3, <3>1, <4>1
    <3> QED BY <3>2, <3>3, <3>4
  <2> QED BY <1>1, <1>2, <2>2, <2>3, PlanMoves
<1>3. ASSUME NEW r \in Request, NEW w \in Ws, req'[r] # Idle, req'[r].limit # 0,
             w = req'[r].w
      PROVE  /\ req'[r].kind \in {"create", "accept"}
             /\ ws'[w].life = "live" /\ ~ws'[w].lowered =>
                  req'[r].limit <= Seats[PlanOf(w)']
  <2>3. /\ req[r] # Idle /\ req'[r].kind = req[r].kind /\ req[r].w = w
        /\ \/ req'[r].limit = req[r].limit
           \/ /\ req'[r].kind \in {"create", "accept"} /\ ws' = ws
              /\ req'[r].limit = Seats[PlanOf(w)]
    BY <1>1, <1>3, RequestMoves
  <2>4. CASE /\ req'[r].kind \in {"create", "accept"} /\ ws' = ws
             /\ req'[r].limit = Seats[PlanOf(w)]
    <3>1. PlanOf(w)' = PlanOf(w) /\ Seats[PlanOf(w)] \in Nat
      BY <1>1, <2>4, RowsType DEF PlanOf
    <3> QED BY <2>4, <3>1
  <2>5. CASE req'[r].limit = req[r].limit
    <3>1. req[r].kind \in {"create", "accept"}
      BY <1>1, <1>3, <2>3, <2>5 DEF RowsInv
    <3>2. ASSUME ws'[w].life = "live", ~ws'[w].lowered
          PROVE  req'[r].limit <= Seats[PlanOf(w)']
      <4>1. ws[w].life # "none"
        BY <1>1, <2>3, <3>1 DEF UnbornInv, Of
      <4>2. /\ Live(w) /\ ~ws[w].lowered
            /\ Seats[PlanOf(w)] <= Seats[PlanOf(w)']
        BY <1>1, <3>2, <4>1, PlanMoves DEF Founds
      <4>3. req[r].limit <= Seats[PlanOf(w)]
        BY <1>1, <1>3, <2>3, <2>5, <4>2 DEF RowsInv
      <4>4. /\ req[r].limit \in Nat /\ Seats[PlanOf(w)] \in Nat
            /\ Seats[PlanOf(w)'] \in Nat
        <5>1. req[r] \in Req
          BY <1>1, <2>3 DEF TypeOK
        <5>2. req[r].limit \in Nat
          BY <5>1 DEF Req, Sane
        <5> QED BY <1>1, <5>2, RowsType, RowsTypeNext
      <4> QED BY <2>5, <4>2, <4>3, <4>4
    <3> QED BY <2>3, <3>1, <3>2
  <2> QED BY <2>3, <2>4, <2>5
<1>4. \A r \in Request : req'[r] # Idle => req'[r].w \in Ws
  BY <1>1 DEF TypeOK, Req
<1>5. SUFFICES ASSUME NEW r \in Request, req'[r] # Idle, req'[r].limit # 0
               PROVE  /\ req'[r].kind \in {"create", "accept"}
                      /\ (Live(req[r].w) /\ ~ws[req[r].w].lowered =>
                            req[r].limit <= Seats[PlanOf(req[r].w)])'
  BY <1>2 DEF RowsInv, Live
<1>6. PICK w \in Ws : w = req'[r].w
  BY <1>4, <1>5
<1>7. /\ req'[r].kind \in {"create", "accept"}
      /\ ws'[w].life = "live" /\ ~ws'[w].lowered =>
           req'[r].limit <= Seats[PlanOf(w)']
  BY <1>3, <1>5, <1>6
<1> QED BY <1>6, <1>7 DEF Live, PlanOf

\* SeatInv is inductive.
LEMMA SeatInvStep == ASSUME Sane, SeatInv, [Next]_vars PROVE SeatInv'
BY StepInv, UnbornStep, RowsStep DEF SeatInv, WInv

\* SeatInv holds at the beginning.
LEMMA SeatInvInit == ASSUME Sane, Init PROVE SeatInv
<1>1. UnbornInv
  BY DEF Init, UnbornInv, MembersOf
<1>2. ASSUME NEW w \in Ws, Live(w) PROVE Rows(w) <= Seats[PlanOf(w)]
  <2>1. w = First
    BY <1>2 DEF Init, Live
  <2>2. PICK M, P : M = MembersOf(w) /\ P = {u \in User : invite[w][u].status = "pending"}
    OBVIOUS
  <2>3. M = {Founder} /\ P = {}
    BY <2>1, <2>2 DEF Init, MembersOf, Sane
  <2>4. Cardinality(M) = 1 /\ Cardinality(P) = 0
    BY <2>3, FS_Singleton, FS_EmptySet
  <2>5. Rows(w) = Cardinality(M) + Cardinality(P)
    BY <2>2 DEF Rows
  <2>6. PlanOf(w) = "free"
    BY <2>1 DEF Init, PlanOf
  <2>7. Seats["free"] \in Nat \ {0}
    BY DEF Sane
  <2> QED BY <2>4, <2>5, <2>6, <2>7
<1>3. RowsInv
  BY <1>2 DEF Init, RowsInv, Idle
<1> QED BY <1>1, <1>3, InitInv DEF SeatInv

\* A login that has taken a free home has one, or an operator has made it free.
LEMMA HomeStep == ASSUME Sane, SeatInv, [Next]_vars PROVE TakesOneHome
<1>1. TypeOK
  BY DEF SeatInv, WInv
<1> SUFFICES ASSUME NEW u \in User,
                    Cardinality(FreeHomes(u))' > Cardinality(FreeHomes(u))
             PROVE  \/ Cardinality(FreeHomes(u))' <= 1
                    \/ \E w \in Ws : PlanOf(w) = "paid" /\ PlanOf(w)' = "free"
  BY DEF TakesOneHome
<1>2. PICK F1 : F1 = FreeHomes(u)'
  OBVIOUS
<1>3. /\ IsFiniteSet(F1) /\ IsFiniteSet(FreeHomes(u))
      /\ Cardinality(F1) \in Nat /\ Cardinality(FreeHomes(u)) \in Nat
  <2>1. IsFiniteSet(Ws) /\ F1 \subseteq Ws /\ FreeHomes(u) \subseteq Ws
    BY <1>2 DEF Sane, FreeHomes
  <2> QED BY <2>1, FS_Subset, FS_CardinalityType
<1>4. PICK w \in Ws : w \in F1 /\ w \notin FreeHomes(u)
  <2>1. ~(F1 \subseteq FreeHomes(u))
    <3>1. F1 \subseteq FreeHomes(u) => Cardinality(F1) <= Cardinality(FreeHomes(u))
      BY <1>3, FS_Subset
    <3> QED BY <1>2, <1>3, <3>1
  <2> QED BY <1>2, <2>1 DEF FreeHomes
<1>5. /\ ws'[w].life = "live" /\ member'[w][u] # "none" /\ PlanOf(w)' = "free"
      /\ \/ ws[w].life # "live" \/ member[w][u] = "none" \/ PlanOf(w) # "free"
  BY <1>2, <1>4 DEF FreeHomes, Live
<1>6. ASSUME FreeHomes(u) = {},
             \A v \in Ws : v # w => ws'[v] = ws[v] /\ member'[v] = member[v]
      PROVE  Cardinality(FreeHomes(u))' <= 1
  <2>1. ASSUME NEW v \in Ws, v # w, v \in F1 PROVE v \in FreeHomes(u)
    BY <1>2, <1>6, <2>1 DEF FreeHomes, Live, PlanOf
  <2>2. F1 \subseteq {w}
    BY <1>2, <1>6, <2>1 DEF FreeHomes
  <2>3. Cardinality(F1) <= Cardinality({w}) /\ Cardinality({w}) = 1
    BY <2>2, FS_Singleton, FS_Subset
  <2> QED BY <1>2, <2>3
<1>7. CASE member[w][u] = "none"
  <2>1. PICK r \in Request : Joins(r, w, u) \/ Founds(r, w, u)
    BY <1>1, <1>5, <1>7, MemberMoves
  <2>2. FreeHomes(u) = {}
    <3>1. Joins(r, w, u) => PlanOf(w)' = PlanOf(w)
      BY DEF Joins, PlanOf
    <3> QED BY <1>5, <2>1, <3>1 DEF Joins, Founds
  <2>3. \A v \in Ws : v # w => ws'[v] = ws[v] /\ member'[v] = member[v]
    BY <1>1, <2>1 DEF Joins, Founds, TypeOK
  <2> QED BY <1>6, <2>2, <2>3
<1>8. CASE member[w][u] # "none"
  <2>1. ws[w].life = "live"
    <3>1. ws[w].life \in {"live", "none"}
      BY <1>1, <1>5, LifeMoves
    <3>2. ws[w].life # "none"
      BY <1>8 DEF SeatInv, UnbornInv, MembersOf
    <3> QED BY <3>1, <3>2
  <2>2. PlanOf(w) \in {"free", "paid"}
    BY <1>1 DEF TypeOK, PlanOf
  <2> QED BY <1>5, <1>8, <2>1, <2>2
<1> QED BY <1>7, <1>8

-----------------------------------------------------------------------------
(* Theorems.                                                               *)

\* The inductive invariant holds of every behaviour.
LEMMA WInvHolds == ASSUME Sane PROVE Spec => []WInv
<1>1. Init => WInv
  BY InitInv
<1>2. WInv /\ [Next]_vars => WInv'
  BY StepInv
<1> QED BY <1>1, <1>2, PTL DEF Spec

\* Every value has its type: a role, a plan and a number in their ranges, and
\* a request in progress names a workspace, a login and a plan's seats.
THEOREM WorkspacesType == ASSUME Sane PROVE Spec => []TypeOK
BY WInvHolds, PTL DEF WInv

\* However many owners remove or demote one another at the same time, a live
\* workspace has an owner (notSoleOwner in the statement that writes).
THEOREM AlwaysOwnedHolds == ASSUME Sane PROVE Spec => []AlwaysOwned
BY WInvHolds, PTL DEF WInv

\* An acceptance that was under way when its workspace was deleted does not
\* join it.
THEOREM RetiredIsEmptyHolds == ASSUME Sane PROVE Spec => []RetiredIsEmpty
BY WInvHolds, PTL DEF WInv

\* The inductive invariant of seats and homes holds of every behaviour.
LEMMA SeatInvHolds == ASSUME Sane PROVE Spec => []SeatInv
<1>1. Init => SeatInv
  BY SeatInvInit
<1>2. SeatInv /\ [Next]_vars => SeatInv'
  BY SeatInvStep
<1> QED BY <1>1, <1>2, PTL DEF Spec

\* Whatever requests race for the last seat and whenever invitations lapse, a
\* step that adds a member or an invitation stays within the plan its request
\* has resolved (SEAT_GUARD_SQL, ACCEPT_SEAT_GUARD_SQL).
THEOREM SeatsAlwaysHold == ASSUME Sane PROVE Spec => SeatsHold
<1>1. SeatInv /\ [Next]_vars => [TakesASeatThereIs]_vars
  BY SeatStep
<1> QED BY <1>1, SeatInvHolds, PTL DEF Spec, SeatsHold

\* A plan that was never lowered is never oversold: for any life of an
\* invitation, members and live invitations fit in it, although an acceptance
\* counts the members alone (FLIP_LAPSED_SQL in the batch of every insert).
THEOREM PlanIsNeverOversold == ASSUME Sane PROVE Spec => []PlanIsNotOversold
<1>1. SeatInv => PlanIsNotOversold
  BY RowsCover DEF SeatInv, WInv
<1> QED BY <1>1, SeatInvHolds, PTL

\* Whatever a login founds and accepts at the same time, it takes a second
\* free workspace only by a downgrade (FREE_SLOT_GUARD_SQL).
THEOREM OneHomeAlways == ASSUME Sane PROVE Spec => OneFreeHome
<1>1. SeatInv /\ [Next]_vars => [TakesOneHome]_vars
  BY HomeStep
<1> QED BY <1>1, SeatInvHolds, PTL DEF Spec, OneFreeHome
=============================================================================
