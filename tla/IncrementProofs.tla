-------------------------- MODULE IncrementProofs --------------------------
(***************************************************************************)
(* Proofs about Increment, as lane "rounds" of MCRounds: type correctness, *)
(* and that what whole reviews and acked commits stand for has been in a   *)
(* diff.  For any commits, any history and any number of faults.  At the   *)
(* end, what WorkspaceProofs shows of seats, for the lane "seats".         *)
(***************************************************************************)
EXTENDS MCRounds, Sequences, TLAPS

-----------------------------------------------------------------------------
(* Type correctness.                                                       *)

\* Storing a review adds its commit, once.
LEMMA PutType ==
    ASSUME rows \in Seq(Sha), NEW c \in Sha, I!Put(c)
    PROVE  /\ rows' \in Seq(Sha)
           /\ I!Stored' = I!Stored \cup {c}
<1>1. CASE c \in I!Stored
  BY <1>1 DEF I!Put, I!Stored
<1>2. CASE c \notin I!Stored
  <2>1. rows' = Append(rows, c)
    BY <1>2 DEF I!Put
  <2>2. /\ rows' \in Seq(Sha) /\ Len(rows') = Len(rows) + 1
        /\ \A i \in 1..Len(rows) : rows'[i] = rows[i]
        /\ rows'[Len(rows) + 1] = c
    BY <2>1
  <2>3. Len(rows) \in Nat
    OBVIOUS
  <2>4. 1..Len(rows') = 1..Len(rows) \cup {Len(rows) + 1}
    BY <2>2, <2>3
  <2>5. I!Stored' = {rows'[i] : i \in 1..Len(rows')}
    BY DEF I!Stored
  <2>6. ASSUME NEW x PROVE x \in I!Stored' <=> x \in I!Stored \cup {c}
    BY <2>2, <2>4, <2>5 DEF I!Stored
  <2> QED BY <2>2, <2>6
<1> QED BY <1>1, <1>2

\* A phase is all that the writes of the journal change.
LEMMA PhaseType ==
    ASSUME journal \in [Sha -> I!Payload], NEW c \in Sha,
           NEW phase \in {"none", "applied", "failed"} \cup I!Open, I!Phase(c, phase)
    PROVE  /\ journal' \in [Sha -> I!Payload]
           /\ journal'[c] = [journal[c] EXCEPT !.phase = phase]
           /\ \A b \in Sha \ {c} : journal'[b] = journal[b]
BY DEF I!Phase, I!Payload

\* The fields of a publication other than its phase.
Same(c) == /\ journal'[c].since = journal[c].since /\ journal'[c].diff = journal[c].diff
           /\ journal'[c].complete = journal[c].complete /\ journal'[c].stale = journal[c].stale

LEMMA PhaseKeeps ==
    ASSUME journal \in [Sha -> I!Payload], NEW c \in Sha, journal[c].phase # "none",
           NEW phase \in {"applied", "failed"} \cup I!Open, I!Phase(c, phase)
    PROVE  /\ journal' \in [Sha -> I!Payload]
           /\ \A b \in Sha : Same(b) /\ (journal[b].phase # "none" <=> journal'[b].phase # "none")
<1>1. /\ journal' \in [Sha -> I!Payload]
      /\ journal'[c] = [journal[c] EXCEPT !.phase = phase]
      /\ \A b \in Sha \ {c} : journal'[b] = journal[b]
  BY PhaseType
<1>2. journal[c] \in I!Payload /\ phase # "none"
  BY DEF I!Open
<1>3. Same(c) /\ journal'[c].phase # "none"
  BY <1>1, <1>2 DEF Same, I!Payload
<1>4. \A b \in Sha \ {c} : Same(b) /\ journal'[b].phase = journal[b].phase
  BY <1>1 DEF Same
<1> QED BY <1>1, <1>3, <1>4

LEMMA RoundType ==
    ASSUME I!Sane, I!TypeOK
    PROVE  /\ I!NoRound \in I!Round
           /\ round.at # "none" => round.sha \in Sha
BY DEF I!TypeOK, I!Round, I!NoRound, I!Steps, I!Sane

\* A failure or none counts at most once.
LEMMA FaultType ==
    ASSUME I!Sane, I!TypeOK, I!Fault \/ UNCHANGED faults
    PROVE  faults' \in 0..MaxFaults
BY DEF I!Sane, I!TypeOK, I!Fault

-----------------------------------------------------------------------------
(* The inductive invariant.                                                *)

\* A base is a commit with a whole review, and stays one: for the round that
\* has chosen it as for the publication that was staged over it.
BasesAreWhole ==
    /\ \A c \in Sha : journal[c].phase # "none" => journal[c].since \in I!Whole \cup {NoSha}
    /\ round.since \in I!Whole \cup {NoSha}

\* A row is that of a staged payload, and so is what a round sends.
RowsAreStaged ==
    /\ \A c \in I!Stored : journal[c].phase # "none"
    /\ round.at \in {"send", "apply"} => journal[round.sha].phase # "none"
    /\ round.at = "increment" => round.since # NoSha

IncInv == I!TypeOK /\ BasesAreWhole /\ RowsAreStaged /\ I!Covered

-----------------------------------------------------------------------------
(* What was looked at only grows.                                          *)

\* Rows come, none goes, and the payload of a row stays.
LEMMA Grows ==
    ASSUME I!Stored \subseteq I!Stored', \A c \in I!Stored : Same(c)
    PROVE  /\ I!Whole \subseteq I!Whole'
           /\ I!Seen \subseteq I!Seen'
           /\ I!Rewritten \subseteq I!Rewritten'
<1>1. I!Whole \subseteq I!Whole'
  BY DEF I!Whole, Same
<1>2. \A w \in I!Whole : I!Shown(w)' = I!Shown(w) /\ journal'[w].since = journal[w].since
  BY DEF I!Whole, Same, I!Shown
<1>3. I!Seen \subseteq I!Seen'
  BY <1>1, <1>2 DEF I!Seen
<1>4. I!Rewritten \subseteq I!Rewritten'
  BY <1>1, <1>2 DEF I!Rewritten
<1> QED BY <1>1, <1>3, <1>4

\* A whole review covers its commit: what it has not shown is its base's, which
\* is covered, or was rewritten away.
LEMMA WholeIsCovered ==
    ASSUME I!Covered, I!Whole \subseteq I!Whole',
           I!Seen \subseteq I!Seen', I!Rewritten \subseteq I!Rewritten',
           NEW c \in I!Whole', journal'[c].since \in I!Whole \cup {NoSha}
    PROVE  History[c] \ Empty \subseteq I!Seen' \cup I!Rewritten'
<1>1. I!Shown(c)' \subseteq I!Seen'
  BY DEF I!Seen
<1>2. CASE journal'[c].since = NoSha
  <2>1. History[c] \ I!Shown(c)' \subseteq I!Rewritten'
    BY <1>2 DEF I!Rewritten
  <2> QED BY <1>1, <2>1
<1>3. CASE journal'[c].since # NoSha
  <2> DEFINE b == journal'[c].since
  <2>1. b \in I!Whole
    BY <1>3
  <2>2. History[b] \ Empty \subseteq I!Seen \cup I!Rewritten
    BY <2>1 DEF I!Covered
  <2>3. I!Shown(c)' = History[c] \ History[b]
    BY <1>3 DEF I!Shown
  <2> QED BY <1>1, <2>2, <2>3
<1> QED BY <1>2, <1>3

\* The conditions under which a step preserves the invariant.
LEMMA StepKeeps ==
    ASSUME IncInv, I!TypeOK',
           I!Stored \subseteq I!Stored',
           \A c \in I!Stored' : journal'[c].phase # "none",
           \A c \in Sha : journal[c].phase # "none" => Same(c),
           \A c \in Sha : journal'[c].phase # "none" =>
               journal[c].phase # "none" \/ journal'[c].since \in I!Whole \cup {NoSha},
           round'.since \in I!Whole \cup {NoSha},
           round'.at \in {"send", "apply"} => journal'[round'.sha].phase # "none",
           round'.at = "increment" => round'.since # NoSha,
           \A c \in inherited' \ inherited :
               \E b \in I!Whole : History[c] \ Empty \subseteq History[b]
    PROVE  IncInv'
<1>1. I!Stored \subseteq Sha /\ I!Stored' \subseteq Sha
  BY DEF IncInv, I!TypeOK, I!Stored
<1>2. /\ I!Whole \subseteq I!Whole'
      /\ I!Seen \subseteq I!Seen'
      /\ I!Rewritten \subseteq I!Rewritten'
  BY <1>1, Grows DEF IncInv, RowsAreStaged
<1>3. \A c \in Sha : journal'[c].phase # "none" => journal'[c].since \in I!Whole \cup {NoSha}
  BY DEF IncInv, BasesAreWhole, Same
<1>4. BasesAreWhole'
  BY <1>2, <1>3 DEF BasesAreWhole
<1>5. RowsAreStaged'
  BY DEF RowsAreStaged
<1>6. ASSUME NEW c \in I!Whole' \cup inherited'
      PROVE  History[c] \ Empty \subseteq I!Seen' \cup I!Rewritten'
  <2>1. CASE c \in I!Whole'
    <3>1. journal'[c].since \in I!Whole \cup {NoSha}
      BY <1>1, <1>3, <2>1 DEF I!Whole
    <3> QED BY <1>2, <2>1, <3>1, WholeIsCovered DEF IncInv
  <2>2. CASE c \in inherited
    BY <1>2, <2>2 DEF IncInv, I!Covered
  <2>3. CASE c \in inherited' \ inherited
    <3>1. PICK b \in I!Whole : History[c] \ Empty \subseteq History[b]
      BY <2>3
    <3>2. History[b] \ Empty \subseteq I!Seen \cup I!Rewritten
      BY DEF IncInv, I!Covered
    <3> QED BY <1>2, <3>1, <3>2
  <2> QED BY <1>6, <2>1, <2>2, <2>3
<1>7. I!Covered'
  BY <1>6 DEF I!Covered
<1> QED BY <1>4, <1>5, <1>7 DEF IncInv

-----------------------------------------------------------------------------
(* The steps.                                                              *)

\* The invariant holds at the beginning.
LEMMA InitInv == ASSUME I!Sane, I!Init PROVE IncInv
<1>1. rows = <<>> /\ Len(rows) = 0 /\ I!Stored = {}
  BY DEF I!Init, I!Stored
<1>2. I!NoPayload \in I!Payload /\ I!NoRound \in I!Round
  BY DEF I!NoPayload, I!Payload, I!NoRound, I!Round, I!Steps
<1>3. I!TypeOK
  <2>1. /\ journal \in [Sha -> I!Payload] /\ rows \in Seq(Sha) /\ staged \in Seq(Sha)
        /\ 0 \in 0..MaxFaults
    BY <1>2 DEF I!Init, I!Sane
  <2>2. round.at = "none"
    BY DEF I!Init, I!NoRound
  <2> QED BY <1>2, <2>1, <2>2 DEF I!Init, I!TypeOK
<1>4. BasesAreWhole /\ RowsAreStaged
  BY <1>1 DEF I!Init, BasesAreWhole, RowsAreStaged, I!NoRound, I!NoPayload
<1>5. I!Covered
  BY <1>1 DEF I!Init, I!Covered, I!Whole
<1> QED BY <1>3, <1>4, <1>5 DEF IncInv

\* Steps that leave the tables alone.
LEMMA TablesStay ==
    ASSUME IncInv, I!TypeOK', UNCHANGED <<journal, rows, inherited>>,
           round'.since \in I!Whole \cup {NoSha},
           round'.at \in {"send", "apply"} => journal[round'.sha].phase # "none",
           round'.at = "increment" => round'.since # NoSha
    PROVE  IncInv'
<1>1. I!Stored' = I!Stored
  BY DEF I!Stored
<1>2. \A c \in Sha : Same(c)
  BY DEF Same
<1>3. \A c \in I!Stored : journal[c].phase # "none"
  BY DEF IncInv, RowsAreStaged
<1> QED BY <1>1, <1>2, <1>3, StepKeeps

\* Steps that put a row, or none, and that change the phase of what is staged.
LEMMA RowComes ==
    ASSUME IncInv, I!TypeOK', NEW c \in Sha, journal[c].phase # "none",
           I!Put(c) \/ UNCHANGED rows,
           \/ \E phase \in {"applied", "failed"} \cup I!Open : I!Phase(c, phase)
           \/ UNCHANGED journal,
           UNCHANGED inherited,
           round'.since \in I!Whole \cup {NoSha},
           round'.at \in {"send", "apply"} => journal[round'.sha].phase # "none",
           round'.at # "none" => round'.sha \in Sha,
           round'.at = "increment" => round'.since # NoSha
    PROVE  IncInv'
<1>1. I!Stored' = I!Stored \/ I!Stored' = I!Stored \cup {c}
  <2>1. rows \in Seq(Sha)
    BY DEF IncInv, I!TypeOK
  <2> QED BY <2>1, PutType DEF I!Stored
<1>2. \A b \in Sha : Same(b) /\ (journal[b].phase # "none" <=> journal'[b].phase # "none")
  <2>1. journal \in [Sha -> I!Payload]
    BY DEF IncInv, I!TypeOK
  <2>2. CASE UNCHANGED journal
    BY <2>2 DEF Same
  <2>3. CASE \E phase \in {"applied", "failed"} \cup I!Open : I!Phase(c, phase)
    BY <2>1, <2>3, PhaseKeeps
  <2> QED BY <2>2, <2>3
<1>3. I!Stored \subseteq Sha /\ \A b \in I!Stored : journal[b].phase # "none"
  <2>1. rows \in Seq(Sha)
    BY DEF IncInv, I!TypeOK
  <2>2. I!Stored \subseteq Sha
    BY <2>1 DEF I!Stored
  <2> QED BY <2>2 DEF IncInv, RowsAreStaged
<1>4. /\ I!Stored \subseteq I!Stored'
      /\ \A b \in I!Stored' : journal'[b].phase # "none"
  BY <1>1, <1>2, <1>3
<1>5. round'.at \in {"send", "apply"} => journal'[round'.sha].phase # "none"
  BY <1>2
<1> QED BY <1>2, <1>4, <1>5, StepKeeps

\* Every step keeps the types.
LEMMA NextType == ASSUME I!Sane, I!TypeOK, [I!Next]_ivars PROVE I!TypeOK'
<1> USE DEF I!Steps, I!Open
<1>0. /\ I!NoRound \in I!Round /\ (round.at # "none" => round.sha \in Sha)
      /\ round \in I!Round /\ journal \in [Sha -> I!Payload] /\ rows \in Seq(Sha)
      /\ staged \in Seq(Sha)
      /\ head \in Sha \cup {NoSha} /\ I!NoRound.at = "none"
  BY RoundType DEF I!TypeOK, I!NoRound
<1>1. ASSUME NEW c \in Sha, I!Push(c) PROVE I!TypeOK'
  BY <1>0, <1>1 DEF I!Push, I!TypeOK
<1>2. CASE I!Checkout
  BY <1>0, <1>2 DEF I!Checkout, I!TypeOK, I!Round, I!NoRound, I!Sane
<1>3. ASSUME NEW c \in Sha, I!ApplyPending(c) PROVE I!TypeOK'
  BY <1>0, <1>3, PutType, PhaseType DEF I!ApplyPending, I!TypeOK, I!Round, I!Payload
<1>4. ASSUME NEW c \in Sha, I!PendingFails(c) PROVE I!TypeOK'
  BY <1>0, <1>4, PutType, FaultType DEF I!PendingFails, I!TypeOK, I!Round
<1>5. CASE I!PendingDone
  BY <1>0, <1>5 DEF I!PendingDone, I!TypeOK, I!Round
<1>6. CASE I!FindBase
  <2>1. I!Ahead \subseteq Sha
    BY <1>0, <1>6 DEF I!FindBase, I!Ahead, I!Sane
  <2>2. PICK failed \in BOOLEAN :
          /\ I!MayFail(failed)
          /\ round' = [round EXCEPT !.at = "diff",
                         !.since = IF failed \/ I!Ahead = {} THEN NoSha
                                   ELSE CHOOSE c \in I!Ahead : TRUE]
    BY <1>6 DEF I!FindBase
  <2>3. round' \in I!Round /\ round'.sha = round.sha
    BY <1>0, <2>1, <2>2 DEF I!Round
  <2>4. faults' \in 0..MaxFaults
    BY <2>2, FaultType DEF I!MayFail
  <2> QED BY <1>0, <1>6, <2>3, <2>4 DEF I!FindBase, I!TypeOK
<1>7. CASE I!FullDiff
  BY <1>0, <1>7, FaultType DEF I!FullDiff, I!MayFail, I!TypeOK, I!Round
<1>8. CASE I!Capture
  BY <1>0, <1>8, FaultType DEF I!Capture, I!MayFail, I!TypeOK, I!Round
<1>9. CASE I!Skip
  BY <1>0, <1>9 DEF I!Skip, I!TypeOK
<1>10. CASE I!Stage
  <2>1. CASE journal[round.sha].phase # "none"
    BY <1>0, <1>10, <2>1 DEF I!Stage, I!TypeOK
  <2>2. CASE journal[round.sha].phase = "none"
    <3>1. PICK stopped, failed \in BOOLEAN :
            /\ I!MayFail(stopped \/ failed)
            /\ journal' = [journal EXCEPT ![round.sha] =
                         [phase |-> "prepared", since |-> round.since,
                          diff |-> round.diff, complete |-> ~stopped,
                          stale |-> round.stale \/ failed]]
      BY <1>10, <2>2 DEF I!Stage
    <3>2. [phase |-> "prepared", since |-> round.since, diff |-> round.diff,
           complete |-> ~stopped, stale |-> round.stale \/ failed] \in I!Payload
      BY <1>0 DEF I!Payload, I!Round
    <3>3. journal' \in [Sha -> I!Payload]
      BY <1>0, <3>1, <3>2
    <3>4. faults' \in 0..MaxFaults
      BY <3>1, FaultType DEF I!MayFail
    <3>5. round' = [round EXCEPT !.at = "send"] /\ staged' = Append(staged, round.sha)
      BY <1>10, <2>2 DEF I!Stage
    <3>6. round' \in I!Round /\ round'.sha = round.sha
      BY <1>0, <3>5 DEF I!Round
    <3>7. staged' \in Seq(Sha)
      BY <1>0, <1>10, <3>5 DEF I!Stage
    <3> QED BY <1>10, <3>3, <3>4, <3>6, <3>7 DEF I!Stage, I!TypeOK
  <2> QED BY <2>1, <2>2
<1>11. CASE I!Send
  BY <1>0, <1>11, FaultType, PhaseType DEF I!Send, I!TypeOK, I!Round, I!Payload
<1>12. CASE I!Finish
  BY <1>0, <1>12, FaultType, PutType, PhaseType DEF I!Finish, I!Apply, I!TypeOK, I!Payload
<1>13. CASE I!Die
  BY <1>0, <1>13, FaultType DEF I!Die, I!TypeOK
<1>14. ASSUME NEW c \in Sha, I!Discover(c) PROVE I!TypeOK'
  BY <1>0, <1>14, PhaseType DEF I!Discover, I!TypeOK, I!Payload
<1>15. ASSUME NEW c \in Sha, I!Recover(c) PROVE I!TypeOK'
  BY <1>0, <1>15, FaultType, PutType, PhaseType DEF I!Recover, I!Apply, I!TypeOK, I!Payload
<1>16. CASE UNCHANGED ivars
  BY <1>16 DEF ivars, I!TypeOK
<1> QED BY <1>1, <1>2, <1>3, <1>4, <1>5, <1>6, <1>7, <1>8, <1>9, <1>10, <1>11,
          <1>12, <1>13, <1>14, <1>15, <1>16 DEF I!Next

\* A behaviour of MCRounds is one of its lane of rounds.
LEMMA RoundsAlone == LanesSpec => I!Init /\ [][I!Next]_ivars
<1>1. LanesInit => I!Init
  BY DEF LanesInit
<1>2. [LanesNext]_<<lane, vars, ivars, wvars>> => [I!Next]_ivars
  BY DEF LanesNext
<1> QED BY <1>1, <1>2, PTL DEF LanesSpec

\* The types of the rounds hold for any commits, history and faults.
THEOREM IncrementType == LanesSpec => []I!TypeOK
<1>1. I!Init => I!TypeOK
  BY InitInv, RoundsAreSane DEF IncInv
<1>2. I!TypeOK /\ [I!Next]_ivars => I!TypeOK'
  BY NextType, RoundsAreSane
<1> QED BY <1>1, <1>2, RoundsAlone, PTL

\* The base of a round has a whole review: a skip inherits from it, a staged
\* payload is made over it.
LEMMA NextInv == ASSUME I!Sane, IncInv, [I!Next]_ivars PROVE IncInv'
<1> USE DEF I!Open
<1>0. /\ I!TypeOK' /\ I!TypeOK
      /\ I!NoRound.since = NoSha /\ I!NoRound.at = "none" /\ I!NoRound \in I!Round
      /\ round.at # "none" => round.sha \in Sha
      /\ round \in I!Round /\ journal \in [Sha -> I!Payload]
      /\ round.since \in I!Whole \cup {NoSha}
      /\ round.at \in {"send", "apply"} => journal[round.sha].phase # "none"
      /\ round.at = "increment" => round.since # NoSha
  BY NextType, RoundType DEF IncInv, I!TypeOK, BasesAreWhole, RowsAreStaged, I!NoRound
<1>1. ASSUME NEW c \in Sha, I!Push(c) PROVE IncInv'
  BY <1>0, <1>1, TablesStay DEF I!Push
<1>2. CASE I!Checkout
  <2>1. round'.since = NoSha /\ round'.at = "context"
    BY <1>2 DEF I!Checkout, I!NoRound
  <2> QED BY <1>0, <1>2, <2>1, TablesStay DEF I!Checkout
<1>3. ASSUME NEW c \in Sha, I!ApplyPending(c) PROVE IncInv'
  <2>1. /\ round'.since = round.since /\ round'.at = round.at /\ round'.sha = round.sha
        /\ round.at = "context" /\ journal[c].phase = "confirmed"
    BY <1>0, <1>3 DEF I!ApplyPending, I!Round
  <2> QED BY <1>0, <1>3, <2>1, RowComes DEF I!ApplyPending
<1>4. ASSUME NEW c \in Sha, I!PendingFails(c) PROVE IncInv'
  <2>1. /\ round'.since = round.since /\ round'.at = "base" /\ round'.sha = round.sha
        /\ round.at = "context"
    BY <1>0, <1>4 DEF I!PendingFails, I!Round
  <2>2. CASE UNCHANGED rows
    BY <1>0, <1>4, <2>1, <2>2, TablesStay DEF I!PendingFails
  <2>3. CASE journal[c].phase = "confirmed" /\ I!Put(c)
    BY <1>0, <1>4, <2>1, <2>3, RowComes DEF I!PendingFails
  <2> QED BY <1>4, <2>2, <2>3 DEF I!PendingFails
<1>5. CASE I!PendingDone
  <2>1. round'.since = round.since /\ round'.at = "base"
    BY <1>0, <1>5 DEF I!PendingDone, I!Round
  <2> QED BY <1>0, <1>5, <2>1, TablesStay DEF I!PendingDone
<1>6. CASE I!FindBase
  <2>1. I!Ahead \subseteq I!Whole
    <3>1. ASSUME NEW c \in I!Ahead PROVE c \in I!Stored /\ I!IsBase(c)
      BY DEF I!Ahead, I!Stored
    <3> QED BY <3>1 DEF I!Whole, I!IsBase
  <2>2. round'.since \in I!Whole \cup {NoSha} /\ round'.at = "diff"
    BY <1>0, <1>6, <2>1 DEF I!FindBase, I!Round
  <2> QED BY <1>0, <1>6, <2>2, TablesStay DEF I!FindBase
<1>7. CASE I!FullDiff
  <2>1. /\ round'.since = round.since
        /\ round'.at = IF round.since = NoSha THEN "stage" ELSE "increment"
    BY <1>0, <1>7 DEF I!FullDiff, I!Round
  <2> QED BY <1>0, <1>7, <2>1, TablesStay DEF I!FullDiff
<1>8. CASE I!Capture
  <2>1. round'.since = round.since /\ round'.at = "stage"
    BY <1>0, <1>8 DEF I!Capture, I!Round
  <2> QED BY <1>0, <1>8, <2>1, TablesStay DEF I!Capture
<1>9. CASE I!Skip
  <2>1. /\ I!Stored' = I!Stored /\ \A c \in Sha : Same(c)
        /\ \A c \in I!Stored : journal[c].phase # "none"
    BY <1>9 DEF I!Skip, I!Stored, Same, IncInv, RowsAreStaged
  <2>2. inherited' \ inherited \subseteq {round.sha} /\ round.since \in I!Whole
    BY <1>0, <1>9 DEF I!Skip
  <2>3. History[round.sha] \ Empty \subseteq History[round.since]
    BY <1>9 DEF I!Skip, I!Added
  <2> QED BY <1>0, <1>9, <2>1, <2>2, <2>3, StepKeeps DEF I!Skip
<1>10. CASE I!Stage
  <2>1. CASE journal[round.sha].phase # "none"
    BY <1>0, <1>10, <2>1, TablesStay DEF I!Stage
  <2>2. CASE journal[round.sha].phase = "none"
    <3>1. /\ \A c \in Sha \ {round.sha} : journal'[c] = journal[c]
          /\ journal'[round.sha].phase = "prepared"
          /\ journal'[round.sha].since = round.since
          /\ round'.at = "send" /\ round'.sha = round.sha /\ round'.since = round.since
      BY <1>0, <1>10, <2>2 DEF I!Stage, I!Round
    <3>2. I!Stored' = I!Stored /\ inherited' = inherited
      BY <1>10 DEF I!Stage, I!Stored
    <3>3. I!Stored \subseteq Sha /\ \A c \in I!Stored : journal[c].phase # "none"
      BY DEF IncInv, I!TypeOK, RowsAreStaged, I!Stored
    <3>4. \A c \in Sha : journal[c].phase # "none" => Same(c)
      BY <2>2, <3>1 DEF Same
    <3>5. \A c \in I!Stored' : journal'[c].phase # "none"
      BY <3>1, <3>2, <3>3
    <3> QED BY <1>0, <3>1, <3>2, <3>4, <3>5, StepKeeps
  <2> QED BY <2>1, <2>2
<1>11. CASE I!Send
  <2>1. /\ round.at = "send" /\ round.sha \in Sha
        /\ round' = I!NoRound \/ round' = [round EXCEPT !.at = "apply"]
    BY <1>0, <1>11 DEF I!Send
  <2>2. /\ round'.since \in I!Whole \cup {NoSha} /\ round'.at \in {"none", "apply"}
        /\ round'.at = "apply" => round'.sha = round.sha
    BY <1>0, <2>1 DEF I!Round
  <2> QED BY <1>0, <1>11, <2>1, <2>2, RowComes DEF I!Send
<1>12. CASE I!Finish
  BY <1>0, <1>12, RowComes DEF I!Finish, I!Apply
<1>13. CASE I!Die
  BY <1>0, <1>13, TablesStay DEF I!Die
<1>14. ASSUME NEW c \in Sha, I!Discover(c) PROVE IncInv'
  BY <1>0, <1>14, RowComes DEF I!Discover
<1>15. ASSUME NEW c \in Sha, I!Recover(c) PROVE IncInv'
  BY <1>0, <1>15, RowComes DEF I!Recover, I!Apply
<1>16. CASE UNCHANGED ivars
  BY <1>0, <1>16, TablesStay DEF ivars
<1> QED BY <1>1, <1>2, <1>3, <1>4, <1>5, <1>6, <1>7, <1>8, <1>9, <1>10, <1>11,
          <1>12, <1>13, <1>14, <1>15, <1>16 DEF I!Next

\* Every change of a commit with a whole review, or acked over one, was in the
\* diff of a whole review, unless a rewrite took it from a full diff.
THEOREM CoveredHolds == LanesSpec => []Covered
<1>1. I!Init => IncInv
  BY InitInv, RoundsAreSane
<1>2. IncInv /\ [I!Next]_ivars => IncInv'
  BY NextInv, RoundsAreSane
<1>3. IncInv => Covered
  BY DEF IncInv, Covered
<1> QED BY <1>1, <1>2, <1>3, RoundsAlone, PTL

-----------------------------------------------------------------------------
(* Workspaces: what WorkspaceProofs proves of any instance.                 *)

\* A behaviour of MCRounds is one of its lane of seats, and keeps the invariant
\* of the seats.
LEMMA SeatsAlone == LanesSpec => [][W!Next]_(W!vars) /\ []W!SeatInv
<1>1. LanesInit => W!SeatInv
  BY SeatsAreSane, W!SeatInvInit DEF LanesInit
<1>2. [LanesNext]_<<lane, vars, ivars, wvars>> => [W!Next]_(W!vars)
  BY DEF LanesNext, wvars, W!vars
<1>3. W!SeatInv /\ [W!Next]_(W!vars) => W!SeatInv'
  BY SeatsAreSane, W!SeatInvStep
<1> QED BY <1>1, <1>2, <1>3, PTL DEF LanesSpec

\* Who adds to the members and invitations of a workspace leaves them within the
\* plan that its request has resolved, for invitations of any life, clocks of
\* requests of any age, and any changes of the plan.
THEOREM LanesSeatsHold == LanesSpec => SeatsHold
<1>1. W!SeatInv /\ [W!Next]_(W!vars) => [lane = "seats" => W!TakesASeatThereIs]_wvars
  BY SeatsAreSane, W!SeatStep DEF W!SeatInv
<1> QED BY <1>1, SeatsAlone, PTL DEF SeatsHold

\* Members and live invitations stay within a plan that was never lowered,
\* although an acceptance counts members only.
THEOREM LanesPlanIsNotOversold == LanesSpec => []PlanIsNotOversold
<1>1. W!SeatInv => PlanIsNotOversold
  BY SeatsAreSane, W!RowsCover DEF W!SeatInv, W!WInv, PlanIsNotOversold
<1> QED BY <1>1, SeatsAlone, PTL
=============================================================================
