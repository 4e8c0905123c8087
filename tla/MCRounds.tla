----------------------------- MODULE MCRounds ------------------------------
(***************************************************************************)
(* Instances for TLC of three safety questions: what starts a review, what *)
(* it looks at, and who has a seat.  They have no variable in common: a    *)
(* behaviour is one of CommentClaims, of Increment or of Workspaces, its   *)
(* lane, while the others stay where they begin.                           *)
(***************************************************************************)
EXTENDS MCCommentClaims

CONSTANTS Sha, NoSha, History, Empty, MaxFaults   \* Increment

CONSTANTS Ws, First, User, Founder, Request, Kinds, Seats, MaxInvites, MaxClock,
          InviteTtl                               \* Workspaces

VARIABLES lane, head, round, journal, rows, staged, inherited, faults,
          ws, member, invite, req, clock

I == INSTANCE Increment WITH pub <- journal

\* Three commits on top of each other.
MCHistory == [c \in Sha |-> 1..c]

ASSUME RoundsAreSane == I!Sane

W == INSTANCE WorkspaceProofs

\* A plan changes between two seats and three.
MCSeats == [p \in {"free", "paid"} |-> IF p = "free" THEN 2 ELSE 3]

ASSUME SeatsAreSane == W!Sane

ivars == <<head, round, journal, rows, staged, inherited, faults>>
wvars == <<ws, member, invite, req, clock>>

LanesInit == lane \in {"claims", "rounds", "seats"} /\ Init /\ I!Init /\ W!Init

LanesNext ==
    /\ UNCHANGED lane
    /\ \/ lane = "claims" /\ Next /\ UNCHANGED <<ivars, wvars>>
       \/ lane = "rounds" /\ I!Next /\ UNCHANGED <<vars, wvars>>
       \/ lane = "seats" /\ W!Next /\ UNCHANGED <<vars, ivars>>

LanesSpec == LanesInit /\ [][LanesNext]_<<lane, vars, ivars, wvars>>

\* Increment: what whole reviews stand for has been in a diff.
Covered == I!Covered

\* Workspaces: who adds to the members and invitations leaves them within the
\* plan its request has resolved.  (TLC need not look at the other lanes, in
\* which none of this changes.)
SeatsHold == [][lane = "seats" => W!TakesASeatThereIs]_wvars

\* Workspaces: members and live invitations stay within a plan that was never
\* lowered.
PlanIsNotOversold == lane = "seats" => W!PlanIsNotOversold
=============================================================================
