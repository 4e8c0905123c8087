------------------------- MODULE PublicationProofs -------------------------
(***************************************************************************)
(* Proofs about Publication: the types, that a prepared row has never been *)
(* sent, and that the journal implements PublishOnce, for any heads, any   *)
(* number of attempts and rows per pass, and every disturbance.            *)
(*                                                                         *)
(* The argument: a body is sent only from the claim that takes its row out *)
(* of "prepared".  That claim is the consumer's, with the statement after  *)
(* the staging, or that of a cron pass which has read the row as prepared; *)
(* a claim since that read is still live, so the pass finds the row as it  *)
(* read it or does not get it.  Afterwards the row is only looked for.     *)
(***************************************************************************)
EXTENDS Publication, WellFoundedInduction, TLAPS

\* Between the claim and the mutation.
SendSteps == {"claimed", "updating", "creating", "rejected"}

\* Phases of a row whose body has not been sent.
Unsent == {"absent", "prepared", "failed", "superseded"}

Places ==
    /\ at["consumer"] \notin {"row", "stale", "checked", "discovering"}
    /\ at["cron"] \notin {"context", "planned", "staged"}
    /\ at["consumer"] = "idle" => todo["consumer"] = <<>>
    /\ at["consumer"] # "idle" => cur \in Commit
    /\ at["consumer"] \in SendSteps \cup {"planned", "staged", "sent"} =>
         todo["consumer"] = <<>>
    /\ at["cron"] = "idle" => todo["cron"] = <<>>
    /\ at["cron"] \notin {"idle", "row"} => todo["cron"] # <<>>

Stamps ==
    /\ \A i, j \in DOMAIN stamps : stamps[i] = stamps[j] => i = j
    /\ \A i \in DOMAIN stamps : row[stamps[i][1]].phase # "absent"
    /\ \A h \in Commit : row[h].phase = "absent" => row[h].next = "none"

\* What a cron pass has read of a row, against the row.
AsRead(it) ==
    LET r == row[it.head]
    IN  /\ r.phase # "absent"
        /\ it.phase # "prepared" => r.phase # "prepared"
        /\ it.phase = "prepared" =>
             \/ r.phase \notin Claimable \ {"prepared"}
             \/ r.live /\ it.head \in young

Passes ==
    /\ \A i, j \in DOMAIN todo["cron"] :
         todo["cron"][i].head = todo["cron"][j].head => i = j
    /\ \A i \in DOMAIN todo["cron"] : AsRead(todo["cron"][i])
    /\ at["cron"] \in SendSteps \cup {"stale", "checked"} =>
         todo["cron"][1].phase = "prepared"
    /\ at["cron"] \in {"stale", "checked"} => row[On("cron")].aged

Staged ==
    at["consumer"] = "staged" => row[cur].phase = "prepared" /\ ~row[cur].aged

Senders ==
    /\ \A a \in Actor : at[a] \in SendSteps =>
         row[On(a)].phase \in {"sending", "unknown"} /\ landed[On(a)] = 0
    /\ at["consumer"] \in SendSteps /\ at["cron"] \in SendSteps =>
         On("consumer") # On("cron")

Landings ==
    /\ \A a \in Actor : at[a] = "sent" => landed[On(a)] = 1
    /\ \A i \in DOMAIN comments : comments[i] \in Commit => landed[comments[i]] = 1
    /\ \A h \in Commit :
         /\ landed[h] \in {0, 1}
         /\ row[h].phase \in Unsent => landed[h] = 0
         /\ row[h].proof => landed[h] = 1
         /\ row[h].stored => row[h].proof

PInv == TypeOK /\ Places /\ Stamps /\ Passes /\ Staged /\ Senders /\ Landings
-----------------------------------------------------------------------------
(* Statements on a row.                                                    *)

\* What every statement after the staging leaves as it is.
Keeps(q, r) ==
    /\ q \in Row
    /\ q.target = r.target /\ q.aged = r.aged
    /\ (r.live => r.owner # "none") => (q.live => q.owner # "none")

SameReview(q, r) == q.proof = r.proof /\ q.stored = r.stored

LEMMA ClaimedRow ==
    ASSUME NEW r \in Row, NEW a \in Actor
    PROVE  LET q == Claimed(a, r)
           IN  /\ Keeps(q, r) /\ q.live /\ SameReview(q, r)
               /\ q.phase = IF r.phase = "prepared" THEN "sending" ELSE r.phase
<1>1. (IF r.attempts < MaxAttempts THEN r.attempts + 1 ELSE r.attempts) \in 0..MaxAttempts
  BY PublicationAssumption DEF Row
<1>2. (IF r.phase = "prepared" THEN "sending" ELSE r.phase) \in Phase
  BY DEF Row, Phase, Claimable
<1>3. Claimed(a, r) \in Row
  BY ZenonT(30), <1>1, <1>2 DEF Claimed, Row, Actor
<1>4. Claimed(a, r).owner # "none"
  BY DEF Claimed, Row, Actor
<1> QED BY <1>3, <1>4 DEF Claimed, Row, Keeps, SameReview

LEMMA FreeRow ==
    ASSUME NEW r \in Row
    PROVE  /\ Free(r) \in Row /\ Keeps(Free(r), r) /\ ~Free(r).live
           /\ Free(r).phase = r.phase /\ SameReview(Free(r), r)
           /\ Free(r).attempts = r.attempts
<1>1. Free(r) \in Row
  BY DEF Free, Row
<1> QED BY <1>1 DEF Free, Row, Keeps, SameReview

\* A free row with another phase.
LEMMA FreedRow ==
    ASSUME NEW r \in Row, NEW p \in Phase
    PROVE  LET q == [Free(r) EXCEPT !.phase = p]
           IN  Keeps(q, r) /\ q.phase = p /\ SameReview(q, r) /\ ~q.live
<1> DEFINE q == [Free(r) EXCEPT !.phase = p]
<1>1. q \in Row
  BY FreeRow DEF Row
<1> QED BY <1>1 DEF Free, Row, Keeps, SameReview

LEMMA FailedRow ==
    ASSUME NEW r \in Row
    PROVE  LET q == Failed(r)
           IN  Keeps(q, r) /\ q.phase = "failed" /\ SameReview(q, r)
BY FreedRow DEF Failed, Phase

LEMMA DoneRow ==
    ASSUME NEW r \in Row, NEW p \in Phase
    PROVE  LET q == [Free(r) EXCEPT !.phase = p, !.recovery = "done"]
           IN  Keeps(q, r) /\ q.phase = p /\ SameReview(q, r)
<1> DEFINE q == [Free(r) EXCEPT !.phase = p, !.recovery = "done"]
<1>1. q \in Row
  BY ZenonT(30), FreeRow DEF Row
<1> QED BY <1>1 DEF Free, Row, Keeps, SameReview

LEMMA UnspentRow ==
    ASSUME NEW r \in Row, r.attempts > 0
    PROVE  LET q == Unspent(r)
           IN  Keeps(q, r) /\ q.phase = "prepared" /\ SameReview(q, r)
<1>1. r.attempts - 1 \in 0..MaxAttempts
  BY PublicationAssumption DEF Row
<1>2. Free(r).attempts - 1 \in 0..MaxAttempts
  BY <1>1, FreeRow
<1>3. "prepared" \in Phase
  BY DEF Phase, Claimable
<1>4. Unspent(r) \in Row
  BY ZenonT(30), <1>2, <1>3, FreeRow DEF Unspent, Row
<1> QED BY <1>4 DEF Unspent, Free, Row, Keeps, SameReview

LEMMA OrphanedRow ==
    ASSUME NEW r \in Row, NEW a \in Actor
    PROVE  LET q == Orphaned(a, r)
           IN  /\ Keeps(q, r) /\ q.phase = r.phase /\ SameReview(q, r)
               /\ q.live = r.live
<1>1. [r EXCEPT !.owner = "dead"] \in Row
  BY DEF Row
<1>2. Orphaned(a, r) \in Row
  BY <1>1 DEF Orphaned
<1> QED BY <1>2 DEF Orphaned, Row, Keeps, SameReview

LEMMA SettledRow ==
    ASSUME NEW r \in Row, NEW n \in 0..MaxAttempts, NEW u \in BOOLEAN
    PROVE  LET q == Settled(r, n, u)
           IN  /\ Keeps(q, r) /\ SameReview(q, r)
               /\ q.phase = r.phase \/ (r.phase = "sending" /\ q.phase = "unknown")
<1> DEFINE phase == IF u /\ r.phase = "sending" THEN "unknown" ELSE r.phase
<1> DEFINE q1 == [Free(r) EXCEPT !.recovery = "local-error"]
<1> DEFINE q2 == [Free(r) EXCEPT !.next = "later", !.phase = phase]
<1>1. phase \in Phase
  BY DEF Row, Phase, Claimable
<1>2. q1 \in Row /\ q2 \in Row
  <2>1. Free(r) \in Row
    BY FreeRow
  <2>2. q1 \in Row
    BY <2>1 DEF Row
  <2>3. [Free(r) EXCEPT !.next = "later"] \in Row
    BY <2>1 DEF Row
  <2>4. q2 = [[Free(r) EXCEPT !.next = "later"] EXCEPT !.phase = phase]
    BY <2>1 DEF Row
  <2>5. q2 \in Row
    <3>1. ASSUME NEW p \in Row PROVE [p EXCEPT !.phase = phase] \in Row
      BY <1>1, <3>1 DEF Row
    <3> HIDE DEF q2
    <3> QED BY <2>3, <2>4, <3>1
  <2> QED BY <2>2, <2>5
<1>3. Keeps(q1, r) /\ SameReview(q1, r) /\ q1.phase = r.phase
  BY <1>2 DEF Free, Row, Keeps, SameReview
<1>4. Keeps(q2, r) /\ SameReview(q2, r) /\ q2.phase = phase
  BY <1>2 DEF Free, Row, Keeps, SameReview
<1>5. Keeps(r, r) /\ SameReview(r, r)
  BY DEF Keeps, SameReview
<1>6. Settled(r, n, u) \in {r, q1, q2}
  BY FreeRow DEF Settled
<1> HIDE DEF q1, q2
<1> QED BY <1>3, <1>4, <1>5, <1>6

LEMMA ProvedRow ==
    ASSUME NEW r \in Row
    PROVE  LET q == Proved(r)
           IN  /\ Keeps(q, r) /\ q.phase = "confirmed" /\ q.live = r.live
               /\ q.proof /\ q.stored = r.stored
<1>1. Proved(r) \in Row
  BY DEF Proved, Row, Phase, Claimable
<1> QED BY <1>1 DEF Proved, Row, Keeps
-----------------------------------------------------------------------------
(* Where the actors stand.                                                 *)

LEMMA TailFacts ==
    ASSUME NEW S, NEW s \in Seq(S), s # <<>>
    PROVE  /\ Tail(s) \in Seq(S) /\ 1 \in DOMAIN s /\ s[1] \in S
           /\ \A i \in DOMAIN Tail(s) : /\ i \in Nat /\ i > 0 /\ i + 1 \in DOMAIN s
                                        /\ Tail(s)[i] = s[i + 1]
OBVIOUS

\* The head an actor works on.
LEMMA OnType ==
    ASSUME TypeOK, Places, NEW a \in Actor, at[a] \notin {"idle", "row"}
    PROVE  On(a) \in Commit
<1>1. \A b \in Actor : todo[b] \in Seq(Items)
  BY DEF TypeOK
<1>2. \A b \in Actor : todo[b] # <<>> => todo[b][1] \in Items
  BY <1>1
<1>3. \A b \in Actor : todo[b] # <<>> => todo[b][1].head \in Commit
  BY <1>2 DEF Items
<1> QED BY <1>3 DEF Places, Actor, On

\* How an actor leaves a row.
LEMMA DoneEffect ==
    ASSUME TypeOK, NEW a \in Actor, NEW ok \in BOOLEAN, Done(a, ok),
           at[a] # "idle", a = "cron" => todo["cron"] # <<>>, Places
    PROVE  /\ at' \in [Actor -> {"idle", "row", "context"} \cup {at[b] : b \in Actor}]
           /\ \A b \in Actor \ {a} : at'[b] = at[b] /\ todo'[b] = todo[b]
           /\ todo' \in [Actor -> Seq(Items)]
           /\ a = "cron" => /\ at'[a] = "row" /\ todo'[a] = Tail(todo[a])
                            /\ UNCHANGED <<cur, plan>>
           /\ a = "consumer" => /\ \/ at'[a] = "idle" /\ todo'[a] = <<>>
                                      /\ plan' = NoPlan /\ cur' = NoCommit
                                   \/ at'[a] = "context" /\ UNCHANGED <<cur, plan>>
<1>1. todo[a] \in Seq(Items) /\ todo \in [Actor -> Seq(Items)]
  BY DEF TypeOK
<1>2. at \in [Actor -> {at[b] : b \in Actor}]
  BY DEF TypeOK
<1>3. a = "consumer" \/ a = "cron"
  BY DEF Actor
<1>4. <<>> \in Seq(Items) /\ (todo[a] # <<>> => Tail(todo[a]) \in Seq(Items))
  BY <1>1
<1>5. CASE a = "cron"
  BY <1>1, <1>2, <1>4, <1>5 DEF Done, Actor
<1>6. CASE a = "consumer" /\ todo["consumer"] = <<>>
  BY <1>1, <1>2, <1>4, <1>6 DEF Done, EndRound, Actor
<1>7. CASE a = "consumer" /\ todo["consumer"] # <<>>
  BY <1>1, <1>2, <1>4, <1>7 DEF Done, Actor
<1> QED BY <1>3, <1>5, <1>6, <1>7

\* What the sending of a body, or nothing, does to the surface.
Posted(h) ==
    /\ comments' \in Seq(Commit \cup {Prior, Gone})
    /\ Len(comments') >= Len(comments)
    /\ landed' \in [Commit -> Nat] /\ landed'[h] \in {0, 1}
    /\ \A g \in Commit : landed'[g] = landed[g] \/ (g = h /\ landed'[g] = 1)
    /\ \A i \in DOMAIN comments' : comments'[i] \in Commit => landed'[comments'[i]] = 1

\* The step of the abstract journal, if any, that a step on row h is.
Dropped == {"failed", "superseded"}

OnceRow(h, q) ==
    LET r == row[h]
    IN  \/ /\ landed' = landed /\ SameReview(q, r)
           /\ q.phase \in Dropped <=> r.phase \in Dropped
        \/ /\ landed[h] = 0 /\ landed' = [landed EXCEPT ![h] = 1] /\ SameReview(q, r)
           /\ r.phase \notin Dropped /\ q.phase \notin Dropped
        \/ /\ landed' = landed /\ landed[h] = 1 /\ ~r.proof /\ q.proof /\ q.stored = r.stored
           /\ r.phase \notin Dropped /\ q.phase \notin Dropped
        \/ /\ landed' = landed /\ r.proof /\ q.proof /\ ~r.stored /\ q.stored
           /\ q.phase \in Dropped <=> r.phase \in Dropped
        \/ /\ landed' = landed /\ landed[h] = 0 /\ SameReview(q, r)
           /\ r.phase \notin Dropped /\ q.phase \in Dropped

OnceStep == [Once!Next]_(Once!vars)

LEMMA OnceOfRow ==
    ASSUME NEW h \in Commit, NEW q, row \in [Commit -> Row], row' = [row EXCEPT ![h] = q],
           OnceRow(h, q)
    PROVE  OnceStep
<1> DEFINE proofs == {g \in Commit : row[g].proof}
<1> DEFINE stores == {g \in Commit : row[g].stored}
<1> DEFINE drops == {g \in Commit : row[g].phase \in Dropped}
<1>1. \A g \in Commit : row'[g] = IF g = h THEN q ELSE row[g]
  OBVIOUS
<1>2. /\ proofs' = IF q.proof THEN proofs \cup {h} ELSE proofs \ {h}
      /\ stores' = IF q.stored THEN stores \cup {h} ELSE stores \ {h}
      /\ drops' = IF q.phase \in Dropped THEN drops \cup {h} ELSE drops \ {h}
  BY <1>1
<1>3. /\ h \in proofs <=> row[h].proof
      /\ h \in stores <=> row[h].stored
      /\ h \in drops <=> row[h].phase \in Dropped
  OBVIOUS
<1>4. /\ OnceStep <=> [\E g \in Commit :
              \/ /\ landed[g] = 0 /\ g \notin drops /\ landed' = [landed EXCEPT ![g] = 1]
                 /\ UNCHANGED <<proofs, stores, drops>>
              \/ /\ landed[g] = 1 /\ g \notin proofs \cup drops /\ proofs' = proofs \cup {g}
                 /\ UNCHANGED <<landed, stores, drops>>
              \/ /\ g \in proofs \ stores /\ stores' = stores \cup {g}
                 /\ UNCHANGED <<landed, proofs, drops>>
              \/ /\ landed[g] = 0 /\ g \notin drops /\ drops' = drops \cup {g}
                 /\ UNCHANGED <<landed, proofs, stores>>]_<<landed, proofs, stores, drops>>
  BY DEF OnceStep, Once!Next, Once!vars, Once!Post, Once!Record, Once!Keep, Once!Drop,
         WithPhase, Dropped
<1> HIDE DEF proofs, stores, drops
<1> QED BY <1>2, <1>3, <1>4 DEF OnceRow, SameReview

\* A cron pass leaves a row that it has read.
LEMMA PassesTail ==
    ASSUME TypeOK, Passes, todo["cron"] # <<>>,
           todo'["cron"] = Tail(todo["cron"]), at'["cron"] = "row",
           \A g \in Commit : g # todo["cron"][1].head =>
             /\ row'[g].phase = row[g].phase
             /\ row[g].live /\ g \in young => row'[g].live /\ g \in young'
    PROVE  Passes'
<1>1. todo["cron"] \in Seq(Items)
  BY DEF TypeOK, Actor
<1>2. /\ 1 \in DOMAIN todo["cron"]
      /\ \A i \in DOMAIN todo'["cron"] :
           /\ i \in Nat /\ i > 0 /\ i + 1 \in DOMAIN todo["cron"]
           /\ todo'["cron"][i] = todo["cron"][i + 1]
  BY <1>1, TailFacts
<1>3. ASSUME NEW i \in DOMAIN todo'["cron"]
      PROVE  AsRead(todo["cron"][i])'
  <2>1. AsRead(todo["cron"][i + 1]) /\ todo["cron"][i + 1].head # todo["cron"][1].head
    BY <1>2 DEF Passes
  <2>2. todo["cron"][i + 1] \in Items
    BY <1>1, <1>2
  <2>3. todo["cron"][i + 1].head \in Commit
    BY <2>2 DEF Items
  <2> QED BY <1>2, <2>1, <2>3 DEF AsRead
<1>4. ASSUME NEW i \in DOMAIN todo'["cron"], NEW j \in DOMAIN todo'["cron"],
             todo'["cron"][i].head = todo'["cron"][j].head
      PROVE  i = j
  <2>1. i + 1 = j + 1
    BY <1>2, <1>4 DEF Passes
  <2> QED BY <1>2, <2>1
<1>5. at'["cron"] \notin SendSteps \cup {"stale", "checked"}
  BY DEF SendSteps
<1> QED BY <1>3, <1>4, <1>5 DEF Passes

\* An actor leaves its row, which may have changed on the way.
Leaves(a, h, q) ==
    /\ at[a] # "idle" /\ (a = "cron" => todo["cron"] # <<>>) /\ h = On(a)
    /\ \E ok \in BOOLEAN : Done(a, ok)
    /\ row' = [row EXCEPT ![h] = q]
    /\ Keeps(q, row[h]) /\ SameReview(q, row[h]) /\ OnceRow(h, q)
    /\ q.phase = "absent" => row[h].phase = "absent" /\ q.next = "none"
    /\ q.phase \in Unsent => landed'[h] = 0
    /\ q.phase = row[h].phase \/ row[h].phase # "prepared" \/ row[h].aged
    /\ \A b \in Actor : b # a /\ at[b] \in SendSteps /\ On(b) = h =>
                          q.phase \in {"sending", "unknown"} /\ landed'[h] = landed[h]
    /\ a = "consumer" => \/ q.phase = row[h].phase /\ q.live = row[h].live
                         \/ q.phase \notin Claimable
    /\ Posted(h) /\ UNCHANGED <<stamps, app, young>>

LEMMA LeavesKeep ==
    ASSUME PInv, NEW a \in Actor, NEW h \in Commit, NEW q, Leaves(a, h, q)
    PROVE  PInv' /\ OnceStep
<1> USE DEF PInv, Leaves
<1>1. /\ \A b \in Actor \ {a} : at'[b] = at[b] /\ todo'[b] = todo[b]
      /\ todo' \in [Actor -> Seq(Items)]
      /\ a = "cron" => /\ at'[a] = "row" /\ todo'[a] = Tail(todo[a])
                       /\ UNCHANGED <<cur, plan>>
      /\ a = "consumer" => \/ at'[a] = "idle" /\ todo'[a] = <<>>
                              /\ plan' = NoPlan /\ cur' = NoCommit
                           \/ at'[a] = "context" /\ UNCHANGED <<cur, plan>>
  BY DoneEffect
<1>2. a = "consumer" \/ a = "cron"
  BY DEF Actor
<1>3. /\ row \in [Commit -> Row] /\ row[h] \in Row
      /\ \A g \in Commit : row'[g] = IF g = h THEN q ELSE row[g]
  BY DEF TypeOK
<1>4. TypeOK'
  <2>1. row' \in [Commit -> Row]
    BY <1>3 DEF Keeps
  <2>2. \A g \in Commit : row'[g].target <= Len(comments')
                            /\ (row'[g].live => row'[g].owner # "none")
    <3>1. \A g \in Commit : row[g].target <= Len(comments) /\ row[g].target \in Nat
                              /\ (row[g].live => row[g].owner # "none")
      BY DEF TypeOK, Row
    <3>2. Len(comments) \in Nat /\ Len(comments') \in Nat
      BY DEF TypeOK, Posted
    <3> QED BY <1>3, <3>1, <3>2 DEF Keeps, Posted
  <2>3. at' \in [Actor -> Steps]
    BY DoneEffect DEF TypeOK, Steps
  <2>4. cur' \in Commit \cup {NoCommit} /\ plan' \in [round : Nat, target : 0..Len(comments')]
    <3>1. plan \in [round : Nat, target : 0..Len(comments)] /\ cur \in Commit \cup {NoCommit}
      BY DEF TypeOK
    <3>2. Len(comments) \in Nat /\ Len(comments') \in Nat /\ Len(comments') >= Len(comments)
      BY DEF TypeOK, Posted
    <3>3. plan' = plan \/ plan' = NoPlan
      BY <1>1, <1>2
    <3>4. cur' = cur \/ cur' = NoCommit
      BY <1>1, <1>2
    <3> QED BY <3>1, <3>2, <3>3, <3>4 DEF NoPlan
  <2> QED BY <1>1, <2>1, <2>2, <2>3, <2>4 DEF TypeOK, Posted
<1>5. Places'
  BY <1>1, <1>2 DEF Places, SendSteps, Actor
<1>6. Stamps'
  <2>1. \A g \in Commit : /\ row'[g].phase = "absent" => row[g].phase = "absent"
                          /\ row'[g].phase = "absent" => row'[g].next = "none"
    BY <1>3 DEF Stamps
  <2>2. stamps \in Seq(Commit \X {"created", "due"})
    BY DEF TypeOK
  <2>3. \A i \in DOMAIN stamps : stamps[i][1] \in Commit
    BY <2>2
  <2>4. \A i \in DOMAIN stamps : row'[stamps[i][1]].phase # "absent"
    BY <2>1, <2>3 DEF Stamps
  <2> QED BY <2>1, <2>4 DEF Stamps
<1>7. Passes'
  <2>1. CASE a = "cron"
    <3>1. h = todo["cron"][1].head
      BY <2>1 DEF On
    <3> QED BY <1>1, <1>3, <2>1, <3>1, PassesTail
  <2>2. CASE a = "consumer"
    <3>1. todo'["cron"] = todo["cron"] /\ at'["cron"] = at["cron"]
      BY <1>1, <2>2 DEF Actor
    <3>2. todo["cron"] \in Seq(Items)
      BY DEF TypeOK, Actor
    <3>3. \A i \in DOMAIN todo["cron"] : todo["cron"][i] \in Items
      BY <3>2
    <3>4. \A i \in DOMAIN todo["cron"] : todo["cron"][i].head \in Commit
      BY <3>3 DEF Items
    <3>5. q.phase \notin Claimable => q.phase # "prepared"
      BY DEF Claimable
    <3>6. \A i \in DOMAIN todo["cron"] : AsRead(todo["cron"][i])'
      BY <1>3, <2>2, <3>1, <3>4, <3>5 DEF AsRead, Passes
    <3>7. at["cron"] \in {"stale", "checked"} => row'[On("cron")'].aged
      <4>1. at["cron"] \in {"stale", "checked"} =>
              1 \in DOMAIN todo["cron"] /\ todo["cron"] # <<>>
        BY <3>2 DEF Places
      <4>2. todo["cron"] # <<>> => /\ On("cron") = todo["cron"][1].head
                                  /\ On("cron")' = On("cron")
        BY <3>1 DEF On
      <4>3. at["cron"] \in {"stale", "checked"} => row[On("cron")].aged
        BY DEF Passes
      <4>4. \A g \in Commit : row'[g].aged = row[g].aged
        BY <1>3 DEF Keeps
      <4> QED BY <3>4, <4>1, <4>2, <4>3, <4>4
    <3> QED BY <3>1, <3>6, <3>7 DEF Passes
  <2> QED BY <1>2, <2>1, <2>2
<1>8. Staged'
  BY <1>1, <1>2, <1>3 DEF Staged, Keeps, Places, Actor
<1>9. \A b \in Actor : at'[b] \in SendSteps \cup {"sent"} =>
        b # a /\ at[b] = at'[b] /\ On(b)' = On(b) /\ On(b) \in Commit
  <2>1. \A b \in Actor : at'[b] \in SendSteps \cup {"sent"} => b # a /\ at[b] = at'[b]
    BY <1>1, <1>2 DEF SendSteps
  <2>2. \A b \in Actor : at[b] \in SendSteps \cup {"sent"} => On(b) \in Commit
    BY OnType DEF SendSteps
  <2> QED BY <1>1, <1>2, <2>1, <2>2 DEF On, Places, SendSteps, Actor
<1>10. Senders'
  <2>1. ASSUME NEW b \in Actor, at'[b] \in SendSteps
        PROVE  row'[On(b)'].phase \in {"sending", "unknown"} /\ landed'[On(b)'] = 0
    <3>1. row[On(b)].phase \in {"sending", "unknown"} /\ landed[On(b)] = 0
      BY <1>9, <2>1 DEF Senders
    <3>2. CASE On(b) = h
      BY <1>3, <1>9, <2>1, <3>1, <3>2
    <3>3. CASE On(b) # h
      BY <1>3, <1>9, <2>1, <3>1, <3>3 DEF Posted
    <3> QED BY <3>2, <3>3
  <2>2. ~(at'["consumer"] \in SendSteps /\ at'["cron"] \in SendSteps)
    BY <1>2, <1>9 DEF Actor
  <2> QED BY <2>1, <2>2 DEF Senders
<1>11. Landings'
  <2>1. \A b \in Actor : at'[b] = "sent" => landed'[On(b)'] = 1
    BY <1>9 DEF Landings, Posted
  <2>2. ASSUME NEW g \in Commit
        PROVE  /\ landed'[g] \in {0, 1}
               /\ row'[g].phase \in Unsent => landed'[g] = 0
               /\ row'[g].proof => landed'[g] = 1
               /\ row'[g].stored => row'[g].proof
    BY <1>3 DEF Landings, Posted, SameReview
  <2> QED BY <2>1, <2>2 DEF Landings, Posted
<1>12. OnceStep
  BY <1>3, OnceOfRow
<1> QED BY <1>4, <1>5, <1>6, <1>7, <1>8, <1>10, <1>11, <1>12

\* How an actor goes on with the row it works on.
CronOnly == {"stale", "checked", "discovering"}

Goes(a, h, q, step) ==
    /\ step \in SendSteps \cup CronOnly \cup {"sent", "proven", "put"}
    /\ at[a] # "idle" /\ (a = "cron" => todo["cron"] # <<>>) /\ h = On(a) /\ Goto(a, step)
    /\ a = "consumer" => /\ step \notin CronOnly
                         /\ step \in SendSteps \cup {"sent"} => todo["consumer"] = <<>>
    /\ a = "cron" /\ step \in SendSteps \cup {"stale", "checked"} =>
         todo["cron"][1].phase = "prepared"
    /\ step \in {"stale", "checked"} => row[h].aged
    /\ row' = [row EXCEPT ![h] = q]
    /\ Keeps(q, row[h]) /\ OnceRow(h, q) /\ q.phase # "absent"
    /\ (q.proof => landed'[h] = 1) /\ (q.stored => q.proof)
    /\ q.phase \in Unsent => landed'[h] = 0
    /\ q.phase = "prepared" => row[h].phase = "prepared"
    /\ a = "cron" => (\/ q.phase = row[h].phase
                      \/ row[h].phase # "prepared" \/ row[h].aged)
    /\ \/ q.phase = row[h].phase /\ q.live = row[h].live
       \/ row[h].phase \in Claimable \ {"prepared"} /\ q.live = row[h].live
       \/ q.live /\ (at["cron"] = "idle" \/ h \in young')
    /\ step \in SendSteps => q.phase \in {"sending", "unknown"} /\ landed'[h] = 0
    /\ step = "sent" => landed'[h] = 1
    /\ \A b \in Actor : b # a /\ at[b] \in SendSteps /\ On(b) = h =>
                          /\ q.phase \in {"sending", "unknown"}
                          /\ landed'[h] = landed[h]
                          /\ step \notin SendSteps
    /\ Posted(h) /\ young \subseteq young' /\ young' \subseteq Commit
    /\ UNCHANGED <<stamps, app>>

LEMMA GoesKeep ==
    ASSUME PInv, NEW a \in Actor, NEW h \in Commit, NEW q, NEW step, Goes(a, h, q, step)
    PROVE  PInv' /\ OnceStep
<1> USE DEF PInv, Goes
<1>1. at' = [at EXCEPT ![a] = step] /\ UNCHANGED <<todo, cur, plan>>
  BY DEF Goto
<1>2. a = "consumer" \/ a = "cron"
  BY DEF Actor
<1>3. /\ row \in [Commit -> Row] /\ row[h] \in Row
      /\ \A g \in Commit : row'[g] = IF g = h THEN q ELSE row[g]
  BY DEF TypeOK
<1>4. TypeOK'
  <2>1. row' \in [Commit -> Row]
    BY <1>3 DEF Keeps
  <2>2. \A g \in Commit : row'[g].target <= Len(comments')
                            /\ (row'[g].live => row'[g].owner # "none")
    <3>1. \A g \in Commit : row[g].target <= Len(comments) /\ row[g].target \in Nat
                              /\ (row[g].live => row[g].owner # "none")
      BY DEF TypeOK, Row
    <3>2. Len(comments) \in Nat /\ Len(comments') \in Nat
      BY DEF TypeOK, Posted
    <3> QED BY <1>3, <3>1, <3>2 DEF Keeps, Posted
  <2>3. at' \in [Actor -> Steps]
    BY <1>1 DEF TypeOK, SendSteps, CronOnly, Steps
  <2>4. cur' \in Commit \cup {NoCommit} /\ plan' \in [round : Nat, target : 0..Len(comments')]
    <3>1. plan \in [round : Nat, target : 0..Len(comments)] /\ cur \in Commit \cup {NoCommit}
      BY DEF TypeOK
    <3>2. Len(comments) \in Nat /\ Len(comments') \in Nat /\ Len(comments') >= Len(comments)
      BY DEF TypeOK, Posted
    <3> QED BY <1>1, <3>1, <3>2
  <2>5. todo' \in [Actor -> Seq(Items)]
    BY <1>1 DEF TypeOK
  <2> QED BY <2>1, <2>2, <2>3, <2>4, <2>5 DEF TypeOK, Posted
<1>5. /\ at'[a] = step /\ \A b \in Actor : b # a => at'[b] = at[b]
      /\ \A b \in Actor : On(b)' = On(b)
  BY <1>1 DEF TypeOK, On
<1>6. Places'
  BY <1>1, <1>2, <1>5 DEF Places, SendSteps, CronOnly, Actor
<1>7. Stamps'
  BY <1>3 DEF Stamps, TypeOK
<1>8. Passes'
  <2>1. todo["cron"] \in Seq(Items) /\ todo' = todo
    BY <1>1 DEF TypeOK, Actor
  <2>2. \A i \in DOMAIN todo["cron"] : todo["cron"][i] \in Items
    BY <2>1
  <2>3. \A i \in DOMAIN todo["cron"] : todo["cron"][i].head \in Commit
    BY <2>2 DEF Items
  <2>4. at["cron"] = "idle" => todo["cron"] = <<>> /\ DOMAIN todo["cron"] = {}
    BY DEF Places
  <2>5. ASSUME NEW i \in DOMAIN todo["cron"]
        PROVE  AsRead(todo["cron"][i])'
    <3>1. AsRead(todo["cron"][i]) /\ at["cron"] # "idle"
      BY <2>4 DEF Passes
    <3>2. CASE todo["cron"][i].head # h
      BY <1>3, <2>1, <2>3, <3>1, <3>2 DEF AsRead
    <3>3. CASE todo["cron"][i].head = h
      BY <1>3, <2>1, <3>1, <3>3 DEF AsRead
    <3> QED BY <3>2, <3>3
  <2>6. at'["cron"] \in SendSteps \cup {"stale", "checked"} => todo["cron"][1].phase = "prepared"
    BY <1>2, <1>5 DEF Passes, Actor
  <2>7. at'["cron"] \in {"stale", "checked"} => row'[On("cron")'].aged
    <3>1. at'["cron"] \in {"stale", "checked"} => On("cron") \in Commit
      BY <1>2, <1>5, OnType DEF Actor
    <3> QED BY <1>2, <1>3, <1>5, <3>1 DEF Passes, Actor, Keeps
  <2> QED BY <2>1, <2>5, <2>6, <2>7 DEF Passes
<1>9. Staged'
  BY <1>1, <1>2, <1>3, <1>5 DEF Staged, Keeps, SendSteps, CronOnly, Actor
<1>10. \A b \in Actor : at[b] \in SendSteps \cup {"sent"} => On(b) \in Commit
  BY OnType DEF SendSteps
<1>11. Senders'
  <2>1. ASSUME NEW b \in Actor, at'[b] \in SendSteps
        PROVE  row'[On(b)'].phase \in {"sending", "unknown"} /\ landed'[On(b)'] = 0
    <3>1. CASE b = a
      BY <1>3, <1>5, <2>1, <3>1
    <3>2. CASE b # a
      <4>1. row[On(b)].phase \in {"sending", "unknown"} /\ landed[On(b)] = 0
        BY <1>5, <2>1, <3>2 DEF Senders
      <4>2. CASE On(b) = h
        BY <1>3, <1>5, <2>1, <3>2, <4>1, <4>2
      <4>3. CASE On(b) # h
        BY <1>3, <1>5, <1>10, <2>1, <3>2, <4>1, <4>3 DEF Posted
      <4> QED BY <4>2, <4>3
    <3> QED BY <3>1, <3>2
  <2>2. at'["consumer"] \in SendSteps /\ at'["cron"] \in SendSteps =>
          On("consumer")' # On("cron")'
    BY <1>2, <1>5 DEF Actor
  <2> QED BY <2>1, <2>2 DEF Senders
<1>12. Landings'
  <2>1. \A b \in Actor : at'[b] = "sent" => landed'[On(b)'] = 1
    BY <1>5, <1>10 DEF Landings, Posted
  <2>2. ASSUME NEW g \in Commit
        PROVE  /\ landed'[g] \in {0, 1}
               /\ row'[g].phase \in Unsent => landed'[g] = 0
               /\ row'[g].proof => landed'[g] = 1
               /\ row'[g].stored => row'[g].proof
    BY <1>3 DEF Landings, Posted
  <2> QED BY <2>1, <2>2 DEF Landings, Posted
<1>13. OnceStep
  BY <1>3, OnceOfRow
<1> QED BY <1>4, <1>6, <1>7, <1>8, <1>9, <1>11, <1>12, <1>13

\* What time, operators, people and dying actors do to a row.
Calm(q, r) ==
    /\ q \in Row
    /\ q.target = r.target /\ q.phase = r.phase /\ SameReview(q, r)
    /\ r.aged => q.aged
    /\ r.next = "none" => q.next = "none"
    /\ (r.live => r.owner # "none") => (q.live => q.owner # "none")

LEMMA PassesStill ==
    ASSUME TypeOK, Places, Passes,
           todo'["cron"] = todo["cron"], at'["cron"] = at["cron"],
           \A g \in Commit : /\ row'[g].phase = row[g].phase
                             /\ row[g].aged => row'[g].aged
                             /\ row[g].live /\ g \in young => row'[g].live /\ g \in young'
    PROVE  Passes'
<1>1. todo["cron"] \in Seq(Items)
  BY DEF TypeOK, Actor
<1>2. \A i \in DOMAIN todo["cron"] : todo["cron"][i] \in Items
  BY <1>1
<1>3. \A i \in DOMAIN todo["cron"] : todo["cron"][i].head \in Commit
  BY <1>2 DEF Items
<1>4. \A i \in DOMAIN todo["cron"] : AsRead(todo["cron"][i])'
  BY <1>3 DEF AsRead, Passes
<1>5. at["cron"] \in {"stale", "checked"} => row'[On("cron")'].aged
  <2>1. at["cron"] \in {"stale", "checked"} => 1 \in DOMAIN todo["cron"] /\ todo["cron"] # <<>>
    BY <1>1 DEF Places
  <2> QED BY <1>3, <2>1 DEF On, Passes
<1> QED BY <1>4, <1>5 DEF Passes

\* Nobody changes a phase or sends: an actor stays where it is, or gets
\* between two rows.
LEMMA StillKeep ==
    ASSUME PInv,
           row' \in [Commit -> Row], \A g \in Commit : Calm(row'[g], row[g]),
           stamps' = stamps \/ (stamps' \in Seq(Commit \X {"created", "due"}) /\ Stamps'),
           comments' \in Seq(Commit \cup {Prior, Gone}), Len(comments') = Len(comments),
           \A i \in DOMAIN comments' : comments'[i] \in Commit => landed[comments'[i]] = 1,
           app' \in AppState, UNCHANGED landed, young' \subseteq Commit,
           at' \in [Actor -> Steps],
           todo' \in [Actor -> Seq(Items)], cur' \in Commit \cup {NoCommit},
           plan' \in [round : Nat, target : 0..Len(comments)],
           Places', Passes',
           \A b \in Actor :
             \/ at'[b] \in {"idle", "row", "context", "planned"}
             \/ /\ at'[b] = at[b] /\ todo'[b] = todo[b]
                /\ b = "consumer" => cur' = cur,
           at["consumer"] = "staged" => (row[cur].aged \/ ~row'[cur].aged)
    PROVE  PInv' /\ OnceStep
<1> USE DEF PInv
<1>1. TypeOK'
  BY DEF TypeOK, Calm
<1>2. Stamps'
  <2>1. stamps \in Seq(Commit \X {"created", "due"})
    BY DEF TypeOK
  <2>2. \A i \in DOMAIN stamps : stamps[i][1] \in Commit
    BY <2>1
  <2>3. ASSUME stamps' = stamps
        PROVE  Stamps'
    <3>1. \A i \in DOMAIN stamps : row'[stamps[i][1]].phase # "absent"
      BY <2>2 DEF Stamps, Calm
    <3>2. \A g \in Commit : row'[g].phase = "absent" => row'[g].next = "none"
      BY DEF Stamps, Calm
    <3> QED BY <2>3, <3>1, <3>2 DEF Stamps
  <2> QED BY <2>3
<1>3. Staged'
  BY DEF Staged, Calm, Places, Actor
<1>4. \A b \in Actor : at'[b] \in SendSteps \cup {"sent"} =>
        at[b] = at'[b] /\ On(b)' = On(b) /\ On(b) \in Commit
  <2>1. \A b \in Actor : at'[b] \in SendSteps \cup {"sent"} =>
          /\ at[b] = at'[b] /\ todo'[b] = todo[b]
          /\ b = "consumer" => cur' = cur
    BY DEF SendSteps
  <2>2. \A b \in Actor : at[b] \in SendSteps \cup {"sent"} => On(b) \in Commit
    BY OnType DEF SendSteps
  <2> QED BY <2>1, <2>2 DEF On, Places, SendSteps, Actor
<1>5. Senders'
  BY <1>4 DEF Senders, Calm, Actor
<1>6. Landings'
  <2>1. \A b \in Actor : at'[b] = "sent" => landed'[On(b)'] = 1
    BY <1>4 DEF Landings
  <2>2. \A g \in Commit : /\ landed'[g] \in {0, 1}
                          /\ row'[g].phase \in Unsent => landed'[g] = 0
                          /\ row'[g].proof => landed'[g] = 1
                          /\ row'[g].stored => row'[g].proof
    BY DEF Landings, Calm, SameReview
  <2> QED BY <2>1, <2>2 DEF Landings
<1>7. OnceStep
  BY DEF OnceStep, Once!vars, WithPhase, Calm, SameReview
<1> QED BY <1>1, <1>2, <1>3, <1>5, <1>6, <1>7

\* The environment: no actor moves.
LEMMA EnvironmentKeep ==
    ASSUME PInv, UNCHANGED <<at, todo, cur, plan, young, landed>>,
           row' \in [Commit -> Row], \A g \in Commit : Calm(row'[g], row[g]),
           stamps' = stamps \/ (stamps' \in Seq(Commit \X {"created", "due"}) /\ Stamps'),
           comments' \in Seq(Commit \cup {Prior, Gone}), Len(comments') = Len(comments),
           \A i \in DOMAIN comments' : comments'[i] \in Commit => landed[comments'[i]] = 1,
           app' \in AppState,
           \A g \in Commit : row[g].live /\ g \in young => row'[g].live,
           at["consumer"] = "staged" => (row[cur].aged \/ ~row'[cur].aged)
    PROVE  PInv' /\ OnceStep
<1>1. Passes'
  BY PassesStill DEF PInv, Calm
<1>2. Places'
  BY DEF PInv, Places
<1> QED BY <1>1, <1>2, StillKeep DEF PInv, TypeOK
-----------------------------------------------------------------------------
(* The environment's steps.                                                *)

LEMMA RetryStep ==
    ASSUME PInv, NEW h \in Commit, Retry(h)
    PROVE  PInv' /\ OnceStep
<1>1. row \in [Commit -> Row] /\ comments \in Seq(Commit \cup {Prior, Gone}) /\ app \in AppState
  BY DEF PInv, TypeOK
<1> DEFINE q == [row[h] EXCEPT !.attempts = 0, !.next = "none", !.recovery = "pending"]
<1>2. row' = [row EXCEPT ![h] = q]
  BY <1>1 DEF Retry
<1>3. 0 \in 0..MaxAttempts
  BY PublicationAssumption
<1>4. q \in Row
  BY ZenonT(30), <1>1, <1>3 DEF Row
<1>5. /\ row' \in [Commit -> Row]
      /\ \A g \in Commit : Calm(row'[g], row[g]) /\ row'[g].live = row[g].live
                             /\ row'[g].aged = row[g].aged
  BY <1>1, <1>2, <1>4 DEF Calm, Row, SameReview
<1> HIDE DEF q
<1> QED BY <1>1, <1>5, EnvironmentKeep DEF Retry, work, PInv, Landings, TypeOK, Places

LEMMA ExpireStep ==
    ASSUME PInv, NEW h \in Commit, Expire(h)
    PROVE  PInv' /\ OnceStep
<1>1. row \in [Commit -> Row] /\ comments \in Seq(Commit \cup {Prior, Gone}) /\ app \in AppState
  BY DEF PInv, TypeOK
<1> DEFINE q == [row[h] EXCEPT !.live = FALSE]
<1>2. row' = [row EXCEPT ![h] = q]
  BY DEF Expire
<1>3. q \in Row
  BY ZenonT(30), <1>1 DEF Row
<1>4. /\ row' \in [Commit -> Row]
      /\ \A g \in Commit : Calm(row'[g], row[g]) /\ row'[g].aged = row[g].aged
                             /\ (g # h => row'[g].live = row[g].live)
  BY <1>1, <1>2, <1>3 DEF Calm, Row, SameReview
<1> HIDE DEF q
<1> QED BY <1>1, <1>4, EnvironmentKeep DEF Expire, work, PInv, Landings, TypeOK, Places

LEMMA AgeStep ==
    ASSUME PInv, NEW h \in Commit, Age(h)
    PROVE  PInv' /\ OnceStep
<1>1. row \in [Commit -> Row] /\ comments \in Seq(Commit \cup {Prior, Gone}) /\ app \in AppState
  BY DEF PInv, TypeOK
<1> DEFINE q == [row[h] EXCEPT !.aged = TRUE]
<1>2. row' = [row EXCEPT ![h] = q]
  BY DEF Age
<1>3. q \in Row
  BY ZenonT(30), <1>1 DEF Row
<1>4. /\ row' \in [Commit -> Row]
      /\ \A g \in Commit : Calm(row'[g], row[g]) /\ row'[g].live = row[g].live
                             /\ (g # h => row'[g].aged = row[g].aged)
  BY ZenonT(30), <1>1, <1>2, <1>3 DEF Calm, Row, SameReview
<1>5. at["consumer"] = "staged" => cur # h /\ cur \in Commit
  BY DEF Age, PInv, Places
<1> HIDE DEF q
<1> QED BY <1>1, <1>4, <1>5, EnvironmentKeep DEF Age, work, PInv, Landings

\* Rows are suspended as they are: nothing but the kind and the lease's holder.
LEMMA SuspendAllRows ==
    ASSUME PInv, NEW kind \in Suspended, SuspendAll(kind)
    PROVE  /\ row' \in [Commit -> Row]
           /\ \A g \in Commit : /\ Calm(row'[g], row[g]) /\ row'[g].aged = row[g].aged
                                /\ row[g].live => row'[g].live
<1>1. row \in [Commit -> Row]
  BY DEF PInv, TypeOK
<1>2. ASSUME NEW r \in Row
      PROVE  LET q == [Free(r) EXCEPT !.recovery = kind]
             IN  Calm(q, r) /\ q.aged = r.aged
  <2> DEFINE q == [Free(r) EXCEPT !.recovery = kind]
  <2>1. q \in Row
    BY FreeRow DEF Row
  <2> QED BY <2>1 DEF Free, Row, Calm, SameReview
<1>3. \A g \in Commit : Calm(row[g], row[g])
  BY <1>1 DEF Calm, SameReview
<1>4. \A g \in Commit : /\ Calm(row'[g], row[g]) /\ row'[g].aged = row[g].aged
                        /\ row[g].live => row'[g].live
  BY <1>1, <1>2, <1>3 DEF SuspendAll
<1>5. row' \in [Commit -> Row]
  BY <1>4 DEF SuspendAll, Calm
<1> QED BY <1>4, <1>5

LEMMA ReenableStep ==
    ASSUME PInv, Reenable \/ ReenableFails
    PROVE  PInv' /\ OnceStep
<1>1. row \in [Commit -> Row] /\ comments \in Seq(Commit \cup {Prior, Gone}) /\ app \in AppState
  BY DEF PInv, TypeOK
<1>2. ASSUME NEW r \in Row
      PROVE  LET q == [Free(r) EXCEPT !.recovery = "pending", !.next = "none"]
             IN  Calm(q, r) /\ q.aged = r.aged
  <2> DEFINE q == [Free(r) EXCEPT !.recovery = "pending", !.next = "none"]
  <2>1. q \in Row
    BY ZenonT(30), FreeRow DEF Row
  <2> QED BY <2>1 DEF Free, Row, Calm, SameReview
<1>3. \A g \in Commit : Calm(row[g], row[g])
  BY <1>1 DEF Calm, SameReview
<1>4. /\ row' \in [Commit -> Row]
      /\ \A g \in Commit : Calm(row'[g], row[g]) /\ row'[g].aged = row[g].aged
  <2>1. CASE Reenable
    <3>1. \A g \in Commit : Calm(row'[g], row[g]) /\ row'[g].aged = row[g].aged
      BY <1>1, <1>2, <1>3, <2>1 DEF Reenable
    <3>2. row' \in [Commit -> Row]
      BY <2>1, <3>1 DEF Reenable, Calm
    <3> QED BY <3>1, <3>2
  <2>2. CASE ReenableFails
    <3>1. "mismatch" \in Suspended
      BY DEF Suspended
    <3> QED BY <2>2, <3>1, SuspendAllRows DEF ReenableFails
  <2> QED BY <2>1, <2>2
<1>5. at["cron"] = "idle" /\ "cron" \in Actor
  BY DEF Reenable, ReenableFails, MayReturn, Actor
<1>6. UNCHANGED <<at, todo, cur, plan, young, landed, stamps, comments, app>>
  BY DEF Reenable, ReenableFails, work
<1>7. todo["cron"] = <<>>
  BY <1>5 DEF PInv, Places
<1>8. Passes'
  <2>1. todo'["cron"] = <<>> /\ at'["cron"] = "idle"
    BY <1>5, <1>6, <1>7
  <2> QED BY <2>1 DEF Passes, SendSteps
<1>9. Places'
  BY <1>6 DEF PInv, Places
<1>10. at["consumer"] = "staged" => cur \in Commit
  BY DEF PInv, Places
<1> QED BY <1>1, <1>4, <1>5, <1>6, <1>8, <1>9, <1>10, StillKeep DEF PInv, TypeOK, Landings

LEMMA RekeyStep ==
    ASSUME PInv, Rekey
    PROVE  PInv' /\ OnceStep
<1>1. row \in [Commit -> Row] /\ comments \in Seq(Commit \cup {Prior, Gone}) /\ app \in AppState
  BY DEF PInv, TypeOK
<1>2. \A g \in Commit : row'[g] \in {row[g], [row[g] EXCEPT !.recovery = "changed"]}
  BY DEF Rekey
<1>3. ASSUME NEW r \in Row
      PROVE  LET q == [r EXCEPT !.recovery = "changed"]
             IN  Calm(q, r) /\ q.live = r.live /\ q.aged = r.aged /\ Calm(r, r)
  <2> DEFINE q == [r EXCEPT !.recovery = "changed"]
  <2>1. q \in Row
    BY DEF Row, Suspended
  <2> QED BY <2>1 DEF Row, Calm, SameReview
<1>4. \A g \in Commit : /\ Calm(row'[g], row[g]) /\ row'[g].live = row[g].live
                        /\ row'[g].aged = row[g].aged
  BY <1>1, <1>2, <1>3
<1>5. row' \in [Commit -> Row]
  BY <1>4 DEF Rekey, Calm
<1>6. UNCHANGED <<stamps, comments, app, at, todo, cur, plan, young, landed>>
  BY DEF Rekey, work
<1>7. at["consumer"] = "staged" => cur \in Commit
  BY DEF PInv, Places
<1> QED BY <1>1, <1>4, <1>5, <1>6, <1>7, EnvironmentKeep DEF PInv, Landings

LEMMA SetAppStep ==
    ASSUME PInv, SetApp
    PROVE  PInv' /\ OnceStep
<1>1. row \in [Commit -> Row] /\ comments \in Seq(Commit \cup {Prior, Gone})
  BY DEF PInv, TypeOK
<1>2. \A g \in Commit : Calm(row[g], row[g])
  BY <1>1 DEF Calm, SameReview
<1>3. app' \in AppState /\ UNCHANGED <<row, stamps, comments, at, todo, cur, plan, young, landed>>
  BY DEF SetApp, work
<1> QED BY <1>1, <1>2, <1>3, EnvironmentKeep DEF PInv, Landings

LEMMA DeleteStep ==
    ASSUME PInv, NEW i \in DOMAIN comments, Delete(i)
    PROVE  PInv' /\ OnceStep
<1>1. row \in [Commit -> Row] /\ comments \in Seq(Commit \cup {Prior, Gone}) /\ app \in AppState
  BY DEF PInv, TypeOK
<1>2. \A g \in Commit : Calm(row[g], row[g])
  BY <1>1 DEF Calm, SameReview
<1>3. /\ comments' = [comments EXCEPT ![i] = Gone]
      /\ UNCHANGED <<row, stamps, app, at, todo, cur, plan, young, landed>>
  BY DEF Delete, work
<1>4. comments' \in Seq(Commit \cup {Prior, Gone}) /\ Len(comments') = Len(comments)
  BY <1>1, <1>3
<1>5. \A j \in DOMAIN comments' : comments'[j] \in Commit => landed[comments'[j]] = 1
  BY <1>1, <1>3, PublicationAssumption DEF PInv, Landings
<1> QED BY <1>1, <1>2, <1>3, <1>4, <1>5, EnvironmentKeep DEF PInv

\* The stamps but one.
LEMMA WithoutStamp ==
    ASSUME TypeOK, Stamps, NEW t
    PROVE  /\ Without(t) \in Seq(Commit \X {"created", "due"})
           /\ \A i \in DOMAIN Without(t) : Without(t)[i] # t
           /\ \A i, j \in DOMAIN Without(t) : Without(t)[i] = Without(t)[j] => i = j
           /\ \A i \in DOMAIN Without(t) : \E j \in DOMAIN stamps : Without(t)[i] = stamps[j]
<1> DEFINE n == Len(stamps)
<1>1. /\ stamps \in Seq(Commit \X {"created", "due"}) /\ n \in Nat /\ DOMAIN stamps = 1..n
      /\ \A i \in 1..n : stamps[i] \in Commit \X {"created", "due"}
      /\ \A i, j \in 1..n : stamps[i] = stamps[j] => i = j
  BY DEF TypeOK, Stamps
<1>2. CASE \A i \in 1..n : stamps[i] # t
  BY <1>1, <1>2 DEF Without
<1>3. CASE \E i \in 1..n : stamps[i] = t
  <2> DEFINE p == CHOOSE i \in 1..n : stamps[i] = t
  <2>1. p \in 1..n /\ stamps[p] = t
    BY <1>3
  <2>2. Without(t) = [i \in 1..(n - 1) |-> IF i < p THEN stamps[i] ELSE stamps[i + 1]]
    BY <1>3 DEF Without
  <2> HIDE DEF p
  <2>3. n - 1 \in Nat /\ \A i \in 1..(n - 1) : i \in 1..n /\ i + 1 \in 1..n
    BY <1>1, <2>1
  <2>4. \A i \in 1..(n - 1) : Without(t)[i] \in Commit \X {"created", "due"}
    BY <1>1, <2>2, <2>3
  <2>5. Without(t) \in Seq(Commit \X {"created", "due"}) /\ DOMAIN Without(t) = 1..(n - 1)
    BY <2>2, <2>3, <2>4
  <2>6. \A i \in 1..(n - 1) : Without(t)[i] # t
    BY <1>1, <2>1, <2>2, <2>3
  <2>7. \A i, j \in 1..(n - 1) : Without(t)[i] = Without(t)[j] => i = j
    BY <1>1, <2>1, <2>2, <2>3
  <2>8. \A i \in 1..(n - 1) : \E j \in 1..n : Without(t)[i] = stamps[j]
    BY <1>1, <2>2, <2>3
  <2> QED BY <1>1, <2>5, <2>6, <2>7, <2>8
<1> QED BY <1>2, <1>3

LEMMA DueStep ==
    ASSUME PInv, NEW h \in Commit, Due(h)
    PROVE  PInv' /\ OnceStep
<1>1. /\ row \in [Commit -> Row] /\ comments \in Seq(Commit \cup {Prior, Gone}) /\ app \in AppState
      /\ \A i \in DOMAIN stamps : stamps[i][1] \in Commit
  <2>1. stamps \in Seq(Commit \X {"created", "due"})
    BY DEF PInv, TypeOK
  <2>2. \A i \in DOMAIN stamps : stamps[i] \in Commit \X {"created", "due"}
    BY <2>1
  <2> QED BY <2>2 DEF PInv, TypeOK
<1> DEFINE q == [row[h] EXCEPT !.next = "due"]
<1> DEFINE t == <<h, "due">>
<1> DEFINE w == Without(t)
<1>2. row' = [row EXCEPT ![h] = q] /\ stamps' = Append(w, t) /\ row[h].next = "later"
  BY DEF Due
<1>3. q \in Row
  <2>1. row[h] \in Row
    BY <1>1
  <2> QED BY <2>1 DEF Row
<1>4. /\ row' \in [Commit -> Row]
      /\ \A g \in Commit : Calm(row'[g], row[g]) /\ row'[g].live = row[g].live
                             /\ row'[g].aged = row[g].aged
  BY ZenonT(30), <1>1, <1>2, <1>3 DEF Calm, Row, SameReview
<1>5. row[h].phase # "absent"
  BY <1>2 DEF PInv, Stamps
<1> HIDE DEF q
<1>6. /\ w \in Seq(Commit \X {"created", "due"})
      /\ \A i \in DOMAIN w : w[i] # t
      /\ \A i, j \in DOMAIN w : w[i] = w[j] => i = j
      /\ \A i \in DOMAIN w : \E j \in DOMAIN stamps : w[i] = stamps[j]
  BY WithoutStamp DEF PInv
<1> HIDE DEF w
<1>7. t \in Commit \X {"created", "due"} /\ t[1] = h
  OBVIOUS
<1> HIDE DEF t
<1>8. /\ stamps' \in Seq(Commit \X {"created", "due"})
      /\ DOMAIN stamps' = 1..(Len(w) + 1) /\ DOMAIN w = 1..Len(w) /\ Len(w) \in Nat
      /\ \A i \in DOMAIN stamps' : stamps'[i] = IF i <= Len(w) THEN w[i] ELSE t
  BY <1>2, <1>6, <1>7
<1>9. \A i \in DOMAIN stamps' : i = Len(w) + 1 \/ i \in DOMAIN w
  BY <1>8
<1>10. Stamps'
  <2>1. \A i, j \in DOMAIN stamps' : stamps'[i] = stamps'[j] => i = j
    BY <1>6, <1>8, <1>9
  <2>2. ASSUME NEW i \in DOMAIN stamps'
        PROVE  row'[stamps'[i][1]].phase # "absent"
    <3>1. CASE i \in DOMAIN w
      <4>1. PICK j \in DOMAIN stamps : w[i] = stamps[j]
        BY <1>6, <3>1
      <4> QED BY <1>1, <1>4, <1>8, <3>1, <4>1 DEF PInv, Stamps, Calm
    <3>2. CASE i = Len(w) + 1
      BY <1>4, <1>5, <1>7, <1>8, <3>2 DEF Calm, SameReview
    <3> QED BY <1>9, <3>1, <3>2
  <2>3. \A g \in Commit : row'[g].phase = "absent" => row'[g].next = "none"
    BY <1>4 DEF PInv, Stamps, Calm
  <2> QED BY <2>1, <2>2, <2>3 DEF Stamps
<1> QED BY <1>1, <1>4, <1>8, <1>10, EnvironmentKeep DEF Due, work, PInv, Landings, TypeOK, Places
-----------------------------------------------------------------------------
(* Steps that start or end a round or a pass.                              *)

\* What an actor reads of the journal.
LEMMA ReadFacts ==
    ASSUME PInv, NEW a \in Actor, NEW step, NEW those \in SUBSET (DOMAIN stamps),
           NEW n \in Nat, Read(a, step, those, n)
    PROVE  /\ at' = [at EXCEPT ![a] = step] /\ \A b \in Actor : b # a => todo'[b] = todo[b]
           /\ todo' \in [Actor -> Seq(Items)]
           /\ \E s : /\ DOMAIN todo'[a] = DOMAIN s
                     /\ \A i \in DOMAIN s : /\ i \in Nat /\ s[i] \in those
                                            /\ todo'[a][i] = Item(s[i])
                     /\ \A i, j \in DOMAIN s : s[i] = s[j] => i = j
<1>1. PICK s \in Oldest(those, n) : /\ at' = [at EXCEPT ![a] = step]
                                    /\ todo' = [todo EXCEPT ![a] = [k \in DOMAIN s |-> Item(s[k])]]
  BY DEF Read
<1>2. PICK m \in 0..n : s \in [1..m -> those]
  BY DEF Oldest
<1>3. \A i, j \in 1..m : i < j => s[i] < s[j]
  BY <1>2 DEF Oldest
<1>4. \A i \in 1..m : s[i] \in those /\ s[i] \in Nat
  <2>1. stamps \in Seq(Commit \X {"created", "due"})
    BY DEF PInv, TypeOK
  <2> QED BY <1>2, <2>1
<1>5. \A i, j \in 1..m : s[i] = s[j] => i = j
  <2> SUFFICES ASSUME NEW i \in 1..m, NEW j \in 1..m, s[i] = s[j], i # j
               PROVE  FALSE
    OBVIOUS
  <2>1. i < j \/ j < i
    OBVIOUS
  <2> QED BY <1>3, <1>4, <2>1
<1>6. \A i \in those : Item(i) \in Items
  <2>1. stamps \in Seq(Commit \X {"created", "due"}) /\ row \in [Commit -> Row]
    BY DEF PInv, TypeOK
  <2>2. \A i \in those : stamps[i][1] \in Commit
    BY <2>1
  <2>3. \A h \in Commit : row[h].phase \in Phase /\ row[h].attempts \in 0..MaxAttempts
    BY <2>1 DEF Row
  <2> QED BY <2>2, <2>3 DEF Item, Items
<1> DEFINE t == [k \in DOMAIN s |-> Item(s[k])]
<1>7. t \in Seq(Items) /\ DOMAIN t = DOMAIN s /\ DOMAIN s = 1..m
  BY <1>2, <1>4, <1>6
<1>8. todo \in [Actor -> Seq(Items)]
  BY DEF PInv, TypeOK
<1>9. todo' = [todo EXCEPT ![a] = t]
  BY <1>1
<1>10. \A i \in DOMAIN s : t[i] = Item(s[i])
  OBVIOUS
<1> HIDE DEF t
<1>11. todo'[a] = t
  BY <1>8, <1>9
<1>12. \A i \in DOMAIN s : i \in Nat /\ s[i] \in those
  BY <1>4, <1>7
<1> QED BY <1>1, <1>5, <1>7, <1>8, <1>9, <1>10, <1>11, <1>12

LEMMA BeginStep ==
    ASSUME PInv, NEW h \in Commit, Begin(h)
    PROVE  PInv' /\ OnceStep
<1> DEFINE those == {i \in Creations : /\ row[stamps[i][1]].phase = "confirmed"
                                      /\ row[stamps[i][1]].recovery = "pending"}
<1>1. /\ at["consumer"] = "idle" /\ Read("consumer", "context", those, PendingLimit) /\ cur' = h
      /\ UNCHANGED <<row, stamps, comments, app, plan, young, landed>>
  BY DEF Begin
<1>2. /\ row \in [Commit -> Row] /\ stamps \in Seq(Commit \X {"created", "due"})
      /\ at \in [Actor -> Steps]
      /\ comments \in Seq(Commit \cup {Prior, Gone}) /\ app \in AppState
  BY DEF PInv, TypeOK
<1>3. those \in SUBSET (DOMAIN stamps) /\ PendingLimit \in Nat
  BY PublicationAssumption DEF Creations
<1> HIDE DEF those
<1>4. /\ at' = [at EXCEPT !["consumer"] = "context"]
      /\ todo'["cron"] = todo["cron"] /\ todo' \in [Actor -> Seq(Items)]
  BY <1>1, <1>3, ReadFacts DEF Actor
<1>5. at'["cron"] = at["cron"] /\ at'["consumer"] = "context"
  BY <1>2, <1>4 DEF Actor
<1>6. Places'
  BY <1>1, <1>4, <1>5 DEF PInv, Places, SendSteps
<1>7. Passes'
  BY <1>1, <1>4, <1>5, PassesStill DEF PInv
<1>8. \A g \in Commit : Calm(row[g], row[g])
  BY <1>2 DEF Calm, SameReview
<1>9. \A b \in Actor : \/ at'[b] = "context"
                       \/ b = "cron" /\ at'[b] = at[b] /\ todo'[b] = todo[b]
  BY <1>4, <1>5 DEF Actor
<1>10. at' \in [Actor -> Steps]
  BY <1>2, <1>4 DEF Steps
<1> QED BY <1>1, <1>2, <1>4, <1>6, <1>7, <1>8, <1>9, <1>10, StillKeep
        DEF PInv, TypeOK, Landings

LEMMA CronStartStep ==
    ASSUME PInv, CronStart
    PROVE  PInv' /\ OnceStep
<1> DEFINE those == {i \in Current : Selectable(stamps[i][1])}
<1>1. /\ at["cron"] = "idle" /\ Read("cron", "row", those, SelectLimit) /\ young' = {}
      /\ UNCHANGED <<row, stamps, comments, app, cur, plan, landed>>
  BY DEF CronStart
<1>2. /\ row \in [Commit -> Row] /\ stamps \in Seq(Commit \X {"created", "due"})
      /\ at \in [Actor -> Steps]
      /\ comments \in Seq(Commit \cup {Prior, Gone}) /\ app \in AppState
  BY DEF PInv, TypeOK
<1>3. those \in SUBSET (DOMAIN stamps) /\ SelectLimit \in Nat
  BY PublicationAssumption DEF Current
<1>4. \A i, j \in those : stamps[i][1] = stamps[j][1] => i = j
  <2>1. \A i, j \in those : stamps[i][1] = stamps[j][1] => stamps[i][2] = stamps[j][2]
    BY DEF Current
  <2>2. \A i \in those : stamps[i] = <<stamps[i][1], stamps[i][2]>>
    <3>1. \A i \in DOMAIN stamps : stamps[i] \in Commit \X {"created", "due"}
      BY <1>2
    <3> QED BY <1>3, <3>1
  <2>3. \A i, j \in those : stamps[i][1] = stamps[j][1] => stamps[i] = stamps[j]
    BY <2>1, <2>2
  <2> QED BY <1>3, <2>3 DEF PInv, Stamps
<1> HIDE DEF those
<1>5. /\ at' = [at EXCEPT !["cron"] = "row"]
      /\ todo'["consumer"] = todo["consumer"] /\ todo' \in [Actor -> Seq(Items)]
  BY <1>1, <1>3, ReadFacts DEF Actor
<1>6. at'["consumer"] = at["consumer"] /\ at'["cron"] = "row"
  BY <1>2, <1>5 DEF Actor
<1>7. Places'
  BY <1>1, <1>5, <1>6 DEF PInv, Places, SendSteps
<1>8. PICK s : /\ DOMAIN todo'["cron"] = DOMAIN s
               /\ \A i \in DOMAIN s : /\ s[i] \in those
                                      /\ todo'["cron"][i] = Item(s[i])
               /\ \A i, j \in DOMAIN s : s[i] = s[j] => i = j
  BY <1>1, <1>3, ReadFacts DEF Actor
<1>9. Passes'
  <2>0. \A i \in DOMAIN todo'["cron"] :
          /\ todo'["cron"][i].head = stamps[s[i]][1]
          /\ todo'["cron"][i].phase = row[stamps[s[i]][1]].phase
    <3>1. \A k : Item(k).head = stamps[k][1] /\ Item(k).phase = row[stamps[k][1]].phase
      BY DEF Item
    <3> QED BY <1>8, <3>1
  <2>1. \A i, j \in DOMAIN todo'["cron"] :
          todo'["cron"][i].head = todo'["cron"][j].head => i = j
    BY <1>4, <1>8, <2>0
  <2>2. ASSUME NEW i \in DOMAIN todo'["cron"]
        PROVE  AsRead(todo["cron"][i])'
    <3>1. row[stamps[s[i]][1]].phase # "absent"
      BY <1>3, <1>8 DEF PInv, Stamps
    <3>2. \A p \in {row[stamps[s[i]][1]].phase} : p = "prepared" => p \notin Claimable \ {"prepared"}
      OBVIOUS
    <3> QED BY <1>1, <2>0, <3>1, <3>2 DEF AsRead
  <2>3. at'["cron"] \notin SendSteps \cup {"stale", "checked"}
    BY <1>6 DEF SendSteps
  <2> QED BY <2>1, <2>2, <2>3 DEF Passes
<1>10. \A g \in Commit : Calm(row[g], row[g])
  BY <1>2 DEF Calm, SameReview
<1>11. \A b \in Actor : \/ at'[b] = "row"
                        \/ at'[b] = at[b] /\ todo'[b] = todo[b] /\ cur' = cur
  BY <1>1, <1>5, <1>6 DEF Actor
<1>12. at' \in [Actor -> Steps]
  BY <1>2, <1>5 DEF Steps
<1> QED BY <1>1, <1>2, <1>5, <1>7, <1>9, <1>10, <1>11, <1>12, StillKeep
        DEF PInv, TypeOK, Landings

LEMMA CronEndStep ==
    ASSUME PInv, CronEnd
    PROVE  PInv' /\ OnceStep
<1>1. /\ row \in [Commit -> Row]
      /\ at \in [Actor -> Steps]
      /\ comments \in Seq(Commit \cup {Prior, Gone}) /\ app \in AppState
  BY DEF PInv, TypeOK
<1>2. /\ at["cron"] = "row" /\ todo["cron"] = <<>> /\ young' = {}
      /\ at' = [at EXCEPT !["cron"] = "idle"]
      /\ UNCHANGED <<row, stamps, comments, app, todo, cur, plan, landed>>
  BY DEF CronEnd
<1>3. at'["consumer"] = at["consumer"] /\ at'["cron"] = "idle"
  BY <1>1, <1>2 DEF Actor
<1>4. Places'
  BY <1>2, <1>3 DEF PInv, Places, SendSteps
<1>5. Passes'
  <2>1. todo'["cron"] = <<>>
    BY <1>2
  <2> QED BY <1>3, <2>1 DEF Passes, SendSteps
<1>6. \A g \in Commit : Calm(row[g], row[g])
  BY <1>1 DEF Calm, SameReview
<1>7. \A b \in Actor : at'[b] = "idle" \/ at'[b] = at[b]
  BY <1>3 DEF Actor
<1>8. at' \in [Actor -> Steps]
  BY <1>1, <1>2 DEF Steps
<1> QED BY <1>1, <1>2, <1>4, <1>5, <1>6, <1>7, <1>8, StillKeep DEF PInv, TypeOK, Landings

\* The first marker comment.
LEMMA FirstFacts ==
    ASSUME TypeOK, Markers # {}
    PROVE  First \in Markers /\ First \in DOMAIN comments /\ comments[First] \in Commit \cup {Prior}
<1>1. comments \in Seq(Commit \cup {Prior, Gone}) /\ Markers \subseteq Nat
      /\ Markers \subseteq DOMAIN comments
  BY DEF TypeOK, Markers
<1> DEFINE R == OpToRel(<, Nat)
<1>2. IsWellFoundedOn(R, Nat) /\ \A i, j \in Nat : j < i => <<j, i>> \in R
  BY NatLessThanWellFounded DEF OpToRel
<1> HIDE DEF R
<1>3. PICK i \in Markers : \A j \in Markers : <<j, i>> \notin R
  BY <1>1, <1>2, WFMin
<1>4. ASSUME NEW j \in Markers
      PROVE  i <= j
  <2>1. i \in Nat /\ j \in Nat
    BY <1>1
  <2>2. ~(j < i)
    BY <1>2, <1>3, <2>1, Zenon
  <2> QED BY <2>1, <2>2
<1>5. First \in Markers
  BY <1>4 DEF First
<1> QED BY <1>1, <1>5 DEF Markers

LEMMA RoundType ==
    ASSUME TypeOK, NEW b \in Commit \cup {Prior}
    PROVE  RoundOf(b) \in Nat
<1>1. row \in [Commit -> Row]
  BY DEF TypeOK
<1>2. \A h \in Commit : row[h].round \in Nat
  BY <1>1 DEF Row
<1> QED BY <1>2 DEF RoundOf

LEMMA PlanStep ==
    ASSUME PInv, Plan
    PROVE  PInv' /\ OnceStep
<1>1. /\ row \in [Commit -> Row] /\ at \in [Actor -> Steps]
      /\ comments \in Seq(Commit \cup {Prior, Gone}) /\ app \in AppState
  BY DEF PInv, TypeOK
<1>2. /\ at["consumer"] = "context" /\ todo["consumer"] = <<>> /\ plan' = NextPlan
      /\ at' = [at EXCEPT !["consumer"] = "planned"]
      /\ UNCHANGED <<row, stamps, comments, app, todo, cur, young, landed>>
  BY DEF Plan
<1>3. at'["cron"] = at["cron"] /\ at'["consumer"] = "planned"
  BY <1>1, <1>2 DEF Actor
<1>4. plan' \in [round : Nat, target : 0..Len(comments)]
  <2>1. CASE Markers = {}
    BY <1>1, <1>2, <2>1 DEF NextPlan
  <2>2. CASE Markers # {}
    <3>1. First \in 1..Len(comments) /\ RoundOf(comments[First]) \in Nat
      BY <1>1, <2>2, FirstFacts, RoundType DEF PInv
    <3> QED BY <1>1, <1>2, <2>2, <3>1 DEF NextPlan
  <2> QED BY <2>1, <2>2
<1>5. Places'
  BY <1>2, <1>3 DEF PInv, Places, SendSteps
<1>6. Passes'
  BY <1>2, <1>3, PassesStill DEF PInv
<1>7. \A g \in Commit : Calm(row[g], row[g])
  BY <1>1 DEF Calm, SameReview
<1>8. \A b \in Actor : at'[b] = "planned" \/ at'[b] = at[b]
  BY <1>3 DEF Actor
<1>9. at' \in [Actor -> Steps]
  BY <1>1, <1>2 DEF Steps
<1> QED BY <1>1, <1>2, <1>4, <1>5, <1>6, <1>7, <1>8, <1>9, StillKeep DEF PInv, TypeOK, Landings

LEMMA DieStep ==
    ASSUME PInv, NEW a \in Actor, Die(a)
    PROVE  PInv' /\ OnceStep
<1>1. /\ row \in [Commit -> Row] /\ at \in [Actor -> Steps] /\ todo \in [Actor -> Seq(Items)]
      /\ comments \in Seq(Commit \cup {Prior, Gone}) /\ app \in AppState
      /\ cur \in Commit \cup {NoCommit} /\ plan \in [round : Nat, target : 0..Len(comments)]
  BY DEF PInv, TypeOK
<1>2. /\ row' = [g \in Commit |-> Orphaned(a, row[g])]
      /\ UNCHANGED <<stamps, comments, app, landed>>
  BY DEF Die
<1>3. \A g \in Commit : /\ Calm(row'[g], row[g]) /\ row'[g] \in Row
                        /\ row'[g].live = row[g].live /\ row'[g].aged = row[g].aged
  <2>1. ASSUME NEW r \in Row
        PROVE  /\ Calm(Orphaned(a, r), r) /\ Orphaned(a, r) \in Row
               /\ Orphaned(a, r).live = r.live /\ Orphaned(a, r).aged = r.aged
    <3>1. Orphaned(a, r).next = r.next
      BY DEF Orphaned, Row
    <3> QED BY <3>1, OrphanedRow DEF Keeps, Calm
  <2> QED BY <1>1, <1>2, <2>1
<1>4. row' \in [Commit -> Row]
  BY <1>2, <1>3
<1>5. a = "consumer" \/ a = "cron"
  BY DEF Actor
<1>6. /\ at' = [at EXCEPT ![a] = "idle"] /\ todo' = [todo EXCEPT ![a] = <<>>]
      /\ a = "consumer" => cur' = NoCommit /\ plan' = NoPlan /\ young' = young
      /\ a = "cron" => UNCHANGED <<cur, plan>> /\ young' = {}
  BY <1>5 DEF Die, EndRound
<1>7. at'[a] = "idle" /\ todo'[a] = <<>>
      /\ \A b \in Actor : b # a => at'[b] = at[b] /\ todo'[b] = todo[b]
  BY <1>1, <1>6
<1>8. Places'
  BY <1>5, <1>6, <1>7 DEF PInv, Places, SendSteps, Actor
<1>9. Passes'
  <2>1. CASE a = "cron"
    BY <1>7, <2>1 DEF Passes, SendSteps
  <2>2. CASE a = "consumer"
    BY <1>3, <1>6, <1>7, <2>2, PassesStill DEF PInv, Calm, Actor
  <2> QED BY <1>5, <2>1, <2>2
<1>10. /\ at' \in [Actor -> Steps] /\ todo' \in [Actor -> Seq(Items)]
       /\ cur' \in Commit \cup {NoCommit} /\ plan' \in [round : Nat, target : 0..Len(comments)]
       /\ young' \subseteq Commit
  <2>1. young \subseteq Commit /\ Len(comments) \in Nat
    BY <1>1 DEF PInv, TypeOK
  <2>2. /\ at' \in [Actor -> Steps] /\ todo' \in [Actor -> Seq(Items)]
    BY <1>1, <1>6 DEF Steps
  <2> QED BY <1>1, <1>5, <1>6, <2>1, <2>2 DEF NoPlan
<1>11. at["consumer"] = "staged" => cur \in Commit
  BY DEF PInv, Places
<1>12. \A b \in Actor : \/ at'[b] \in {"idle", "row", "context", "planned"}
                        \/ /\ at'[b] = at[b] /\ todo'[b] = todo[b]
                           /\ b = "consumer" => cur' = cur
  BY <1>5, <1>6, <1>7
<1> QED BY <1>1, <1>2, <1>3, <1>4, <1>8, <1>9, <1>10, <1>11, <1>12, StillKeep
        DEF PInv, TypeOK, Landings

LEMMA CronSuspendStep ==
    ASSUME PInv, CronSuspend
    PROVE  PInv' /\ OnceStep
<1>1. /\ row \in [Commit -> Row] /\ at \in [Actor -> Steps] /\ todo \in [Actor -> Seq(Items)]
      /\ comments \in Seq(Commit \cup {Prior, Gone}) /\ app \in AppState /\ young \subseteq Commit
      /\ cur \in Commit \cup {NoCommit} /\ plan \in [round : Nat, target : 0..Len(comments)]
  BY DEF PInv, TypeOK
<1>2. /\ at["cron"] = "row" /\ todo["cron"] # <<>>
      /\ at' = [at EXCEPT !["cron"] = "row"]
      /\ todo' = [todo EXCEPT !["cron"] = Tail(@)]
      /\ UNCHANGED <<cur, plan, stamps, comments, app, young, landed>>
  BY DEF CronSuspend, Reads, Done
<1>3. /\ at'["cron"] = "row" /\ todo'["cron"] = Tail(todo["cron"])
      /\ \A b \in Actor : b # "cron" => at'[b] = at[b] /\ todo'[b] = todo[b]
      /\ at' \in [Actor -> Steps] /\ todo' \in [Actor -> Seq(Items)]
  <2>1. Tail(todo["cron"]) \in Seq(Items) /\ "cron" \in Actor /\ "row" \in Steps
    BY <1>1, <1>2 DEF Actor, Steps
  <2> QED BY <1>1, <1>2, <2>1
<1>4. PICK kind \in Suspended : SuspendAll(kind)
  BY DEF CronSuspend, Suspended
<1>5. /\ row' \in [Commit -> Row]
      /\ \A g \in Commit : /\ Calm(row'[g], row[g]) /\ row'[g].aged = row[g].aged
                           /\ row[g].live => row'[g].live
  BY <1>4, SuspendAllRows
<1>6. Places'
  BY <1>2, <1>3 DEF PInv, Places, SendSteps, Actor
<1>7. Passes'
  BY <1>2, <1>3, <1>5, PassesTail DEF PInv, Calm
<1>8. \A b \in Actor : at'[b] = "row" \/ (at'[b] = at[b] /\ todo'[b] = todo[b])
  BY <1>3
<1>9. at["consumer"] = "staged" => cur \in Commit
  BY DEF PInv, Places
<1> QED BY <1>1, <1>2, <1>3, <1>5, <1>6, <1>7, <1>8, <1>9, StillKeep
        DEF PInv, TypeOK, Landings
-----------------------------------------------------------------------------
(* Steps of an actor on its row.                                           *)

LEMMA NothingPosted ==
    ASSUME PInv, NEW h \in Commit, UNCHANGED <<comments, landed>>
    PROVE  Posted(h) /\ landed'[h] = landed[h]
<1>1. comments \in Seq(Commit \cup {Prior, Gone}) /\ landed \in [Commit -> Nat]
  BY DEF PInv, TypeOK
<1>2. Len(comments) \in Nat
  BY <1>1
<1> QED BY <1>1, <1>2 DEF Posted, PInv, Landings

LEMMA SameRow ==
    ASSUME PInv, NEW h \in Commit
    PROVE  /\ row[h] \in Row /\ Keeps(row[h], row[h]) /\ row = [row EXCEPT ![h] = row[h]]
           /\ row[h].phase = "absent" => row[h].next = "none"
           /\ row[h].phase \in Unsent => landed[h] = 0
           /\ row[h].proof => landed[h] = 1
           /\ row[h].stored => row[h].proof
           /\ UNCHANGED landed => OnceRow(h, row[h])
BY DEF PInv, TypeOK, Stamps, Landings, Keeps, OnceRow, SameReview

\* What holds of the row a cron pass works on.
LEMMA CronRow ==
    ASSUME PInv, todo["cron"] # <<>>
    PROVE  /\ On("cron") \in Commit /\ On("cron") = todo["cron"][1].head
           /\ AsRead(todo["cron"][1]) /\ todo["cron"][1].attempts \in 0..MaxAttempts
           /\ row[On("cron")].phase # "absent"
<1>1. todo["cron"] \in Seq(Items)
  BY DEF PInv, TypeOK, Actor
<1>2. todo["cron"][1] \in Items /\ 1 \in DOMAIN todo["cron"]
  BY <1>1
<1>3. On("cron") = todo["cron"][1].head
  BY DEF On
<1> QED BY <1>2, <1>3 DEF Items, PInv, Passes, AsRead

\* Two senders are at two heads.
LEMMA SenderAlone ==
    ASSUME PInv, NEW a \in Actor, at[a] \in SendSteps, NEW b \in Actor, b # a, at[b] \in SendSteps
    PROVE  On(a) # On(b)
BY DEF PInv, Senders, Actor

LEMMA LandingFacts ==
    ASSUME PInv, NEW a \in Actor, at[a] \in {"updating", "creating"}, Landing(a)
    PROVE  /\ Posted(On(a)) /\ landed'[On(a)] = 1
           /\ landed[On(a)] = 0 /\ landed' = [landed EXCEPT ![On(a)] = 1]
<1> DEFINE h == On(a)
<1> DEFINE t == row[h].target
<1>1. at[a] \in SendSteps /\ h \in Commit
  BY OnType DEF SendSteps, PInv
<1>2. comments \in Seq(Commit \cup {Prior, Gone}) /\ landed \in [Commit -> Nat]
  BY DEF PInv, TypeOK
<1>3. landed[h] = 0
  BY <1>1 DEF PInv, Senders
<1>4. landed' = [landed EXCEPT ![h] = 1]
  BY <1>3 DEF Landing
<1>5. \/ comments' = [comments EXCEPT ![t] = h]
      \/ comments' = Append(comments, h)
  BY DEF Landing
<1> HIDE DEF h, t
<1>6. /\ landed' \in [Commit -> Nat] /\ landed'[h] = 1
      /\ \A g \in Commit : landed'[g] = landed[g] \/ (g = h /\ landed'[g] = 1)
  BY <1>1, <1>2, <1>4
<1>7. CASE comments' = [comments EXCEPT ![t] = h]
  <2> DEFINE S == Commit \cup {Prior, Gone}
  <2>0. comments \in Seq(S) /\ h \in S
    BY <1>1, <1>2
  <2> HIDE DEF S
  <2>1. /\ comments' \in Seq(S) /\ Len(comments') = Len(comments)
        /\ Len(comments) \in Nat /\ DOMAIN comments' = DOMAIN comments
        /\ \A i \in DOMAIN comments : comments'[i] = comments[i] \/ comments'[i] = h
    <3>1. comments \in [1..Len(comments) -> S] /\ Len(comments) \in Nat
      BY <2>0
    <3>2. /\ comments' \in [1..Len(comments) -> S]
          /\ \A i \in DOMAIN comments : comments'[i] = comments[i] \/ comments'[i] = h
      BY <1>7, <2>0, <3>1
    <3> QED BY <3>1, <3>2
  <2> USE DEF S
  <2> QED BY <1>3, <1>4, <1>6, <2>1 DEF Posted, PInv, Landings, h
<1>8. CASE comments' = Append(comments, h)
  <2>1. /\ comments' \in Seq(Commit \cup {Prior, Gone}) /\ Len(comments') = Len(comments) + 1
        /\ Len(comments) \in Nat
        /\ \A i \in DOMAIN comments' : \/ i \in DOMAIN comments /\ comments'[i] = comments[i]
                                       \/ comments'[i] = h
    BY <1>1, <1>2, <1>8
  <2> QED BY <1>3, <1>4, <1>6, <2>1 DEF Posted, PInv, Landings, h
<1> QED BY <1>3, <1>4, <1>5, <1>6, <1>7, <1>8 DEF h

LEMMA ScanStep ==
    ASSUME PInv, NEW a \in Actor, Scan(a)
    PROVE  PInv' /\ OnceStep
<1> DEFINE h == On(a)
<1>1. /\ at[a] = "claimed" /\ Goto(a, Decision(h))
      /\ UNCHANGED <<row, stamps, comments, app, young, landed>>
  BY DEF Scan
<1>2. at[a] \in SendSteps /\ h \in Commit
  BY <1>1, OnType DEF SendSteps, PInv
<1>3. row[h].phase \in {"sending", "unknown"} /\ landed[h] = 0
  BY <1>2 DEF PInv, Senders
<1>4. Decision(h) \in {"creating", "rejected", "updating", "sent"}
  BY DEF Decision
<1>5. Decision(h) = "sent" => landed[h] = 1
  <2>1. comments \in Seq(Commit \cup {Prior, Gone}) /\ row[h].target \in Nat
        /\ row[h].target <= Len(comments)
    BY <1>2 DEF PInv, TypeOK, Row
  <2>2. row[h].target # 0 => row[h].target \in DOMAIN comments
    BY <2>1
  <2>3. Decision(h) = "sent" => \/ Markers # {} /\ comments[First] = h
                                \/ row[h].target # 0 /\ comments[row[h].target] = h
    BY DEF Decision
  <2> QED BY <1>2, <2>2, <2>3, FirstFacts DEF PInv, Landings
<1>6. a = "consumer" \/ a = "cron"
  BY DEF Actor
<1>7. /\ a = "cron" => todo["cron"] # <<>> /\ todo["cron"][1].phase = "prepared"
      /\ a = "consumer" => todo["consumer"] = <<>>
  BY <1>1, <1>2 DEF PInv, Places, Passes
<1>8. Posted(h) /\ UNCHANGED landed /\ young \subseteq Commit
  BY <1>1, <1>2, NothingPosted DEF PInv, TypeOK
<1>9. \A b \in Actor : ~(b # a /\ at[b] \in SendSteps /\ On(b) = h)
  BY <1>2, SenderAlone
<1>10. /\ Decision(h) \in SendSteps \cup CronOnly \cup {"sent", "proven", "put"}
       /\ Decision(h) \notin CronOnly
  BY <1>4 DEF SendSteps, CronOnly
<1>11. Keeps(row[h], row[h]) /\ row' = [row EXCEPT ![h] = row[h]] /\ (row[h].proof => landed[h] = 1)
       /\ (row[h].stored => row[h].proof) /\ OnceRow(h, row[h])
  BY <1>1, <1>2, SameRow
<1> DEFINE step == Decision(h)
<1> HIDE DEF step
<1>12. Goes(a, h, row[h], step)
  BY <1>1, <1>2, <1>3, <1>5, <1>7, <1>8, <1>9, <1>10, <1>11
     DEF Goes, SendSteps, CronOnly, Unsent, step
<1> QED BY <1>2, <1>12, GoesKeep

LEMMA SendStep ==
    ASSUME PInv, NEW a \in Actor, Send(a)
    PROVE  PInv' /\ OnceStep
<1> DEFINE h == On(a)
<1>1. /\ at[a] \in {"updating", "creating"} /\ Landing(a) /\ Goto(a, "sent")
      /\ UNCHANGED <<row, stamps, app, young>>
  BY DEF Send
<1>2. at[a] \in SendSteps /\ h \in Commit
  BY <1>1, OnType DEF SendSteps, PInv
<1>3. row[h].phase \in {"sending", "unknown"}
  BY <1>2 DEF PInv, Senders
<1>4. a = "consumer" \/ a = "cron"
  BY DEF Actor
<1>5. /\ a = "cron" => todo["cron"] # <<>>
      /\ a = "consumer" => todo["consumer"] = <<>>
  BY <1>1, <1>2 DEF PInv, Places
<1>6. /\ Posted(h) /\ landed'[h] = 1 /\ young \subseteq Commit
      /\ landed[h] = 0 /\ landed' = [landed EXCEPT ![h] = 1]
  BY <1>1, LandingFacts DEF PInv, TypeOK
<1>7. \A b \in Actor : ~(b # a /\ at[b] \in SendSteps /\ On(b) = h)
  BY <1>2, SenderAlone
<1>8. /\ Keeps(row[h], row[h]) /\ row' = [row EXCEPT ![h] = row[h]]
      /\ (row[h].stored => row[h].proof)
  BY <1>1, <1>2, SameRow
<1>9. h = On(a)
  OBVIOUS
<1> HIDE DEF h
<1>10. OnceRow(h, row[h])
  BY <1>3, <1>6 DEF OnceRow, SameReview, Dropped
<1>11. Goes(a, h, row[h], "sent")
  BY <1>1, <1>3, <1>4, <1>5, <1>6, <1>7, <1>8, <1>9, <1>10 DEF Goes, SendSteps, CronOnly, Unsent
<1> QED BY <1>2, <1>11, GoesKeep

LEMMA ProveStep ==
    ASSUME PInv, NEW a \in Actor, Prove(a)
    PROVE  PInv' /\ OnceStep
<1> DEFINE h == On(a)
<1> DEFINE q == Proved(row[h])
<1>1. /\ at[a] = "sent" /\ MayProve(a, row[h]) /\ Goto(a, "proven")
      /\ row' = [row EXCEPT ![h] = q]
      /\ UNCHANGED <<stamps, comments, app, young, landed>>
  BY DEF Prove
<1>2. h \in Commit /\ landed[h] = 1
  BY <1>1, OnType DEF PInv, Landings
<1>3. row[h].phase \in Claimable \ {"prepared"}
  BY <1>1, <1>2 DEF PInv, Landings, Unsent, MayProve
<1>4. /\ Keeps(q, row[h]) /\ q.phase = "confirmed" /\ q.live = row[h].live
      /\ q.proof /\ q.stored = row[h].stored
  BY <1>2, SameRow, ProvedRow
<1>5. a = "cron" => todo["cron"] # <<>>
  BY <1>1 DEF PInv, Places
<1>6. Posted(h) /\ landed'[h] = 1 /\ young \subseteq Commit
  BY <1>1, <1>2, NothingPosted DEF PInv, TypeOK
<1>7. \A b \in Actor : ~(b # a /\ at[b] \in SendSteps /\ On(b) = h)
  BY <1>2 DEF PInv, Senders
<1>8. h = On(a)
  OBVIOUS
<1> HIDE DEF h, q
<1>9. OnceRow(h, q)
  <2>1. row[h].proof \in BOOLEAN
    BY <1>2, SameRow DEF Row
  <2> QED BY <1>1, <1>2, <1>3, <1>4, <2>1 DEF OnceRow, SameReview, Dropped, Claimable
<1>10. Goes(a, h, q, "proven")
  BY <1>1, <1>3, <1>4, <1>5, <1>6, <1>7, <1>8, <1>9 DEF Goes, SendSteps, CronOnly, Unsent
<1> QED BY <1>2, <1>10, GoesKeep

LEMMA PutStep ==
    ASSUME PInv, NEW a \in Actor, Put(a)
    PROVE  PInv' /\ OnceStep
<1> DEFINE h == On(a)
<1> DEFINE q == [row[h] EXCEPT !.stored = TRUE]
<1>1. /\ at[a] = "proven" /\ MayApply(a, row[h]) /\ Goto(a, "put")
      /\ UNCHANGED <<stamps, comments, app, young, landed>>
  BY DEF Put
<1>2. h \in Commit
  BY <1>1, OnType DEF PInv
<1>3. row[h].phase = "confirmed" /\ row[h].proof /\ landed[h] = 1 /\ row[h] \in Row
  BY <1>1, <1>2, SameRow DEF MayApply
<1>4. q \in Row
  BY <1>3 DEF Row
<1>5. /\ Keeps(q, row[h]) /\ q.phase = row[h].phase /\ q.live = row[h].live
      /\ q.proof = row[h].proof /\ q.stored
  BY <1>3, <1>4 DEF Keeps, Row
<1>6. row' = [row EXCEPT ![h] = q]
  BY <1>2 DEF Put, PInv, TypeOK
<1>7. a = "cron" => todo["cron"] # <<>>
  BY <1>1 DEF PInv, Places
<1>8. Posted(h) /\ landed'[h] = 1 /\ young \subseteq Commit
  BY <1>1, <1>2, <1>3, NothingPosted DEF PInv, TypeOK
<1>9. \A b \in Actor : ~(b # a /\ at[b] \in SendSteps /\ On(b) = h)
  BY <1>3 DEF PInv, Senders
<1>10. h = On(a)
  OBVIOUS
<1> HIDE DEF h, q
<1>11. OnceRow(h, q)
  BY <1>1, <1>3, <1>5 DEF OnceRow, SameReview, Row
<1>12. Goes(a, h, q, "put")
  BY <1>1, <1>3, <1>5, <1>6, <1>7, <1>8, <1>9, <1>10, <1>11 DEF Goes, SendSteps, CronOnly, Unsent
<1> QED BY <1>2, <1>12, GoesKeep

LEMMA CronPlanStep ==
    ASSUME PInv, CronPlan
    PROVE  PInv' /\ OnceStep
<1> DEFINE h == On("cron")
<1>1. /\ at["cron"] = "row" /\ todo["cron"] # <<>> /\ todo["cron"][1].phase = "prepared"
      /\ row[h].aged /\ UNCHANGED <<row, stamps, comments, app, young, landed>>
  BY DEF CronPlan, Reads
<1>2. PICK step \in {"stale", "checked"} : Goto("cron", step)
  BY DEF CronPlan
<1>3. h \in Commit /\ row[h].phase # "absent" /\ "cron" \in Actor
  BY <1>1, CronRow DEF Actor
<1>4. \A b \in Actor : b # "cron" /\ at[b] \in SendSteps /\ On(b) = h =>
                         row[h].phase \in {"sending", "unknown"}
  BY DEF PInv, Senders
<1>5. Posted(h) /\ landed'[h] = landed[h] /\ young \subseteq Commit
  BY <1>1, <1>3, NothingPosted DEF PInv, TypeOK
<1>6. /\ Keeps(row[h], row[h]) /\ row' = [row EXCEPT ![h] = row[h]]
      /\ row[h].phase \in Unsent => landed[h] = 0
      /\ row[h].proof => landed[h] = 1
      /\ row[h].stored => row[h].proof
      /\ OnceRow(h, row[h])
  BY <1>1, <1>3, SameRow
<1>7. h = On("cron")
  OBVIOUS
<1> HIDE DEF h
<1>8. Goes("cron", h, row[h], step)
  BY <1>1, <1>2, <1>3, <1>4, <1>5, <1>6, <1>7 DEF Goes, SendSteps, CronOnly
<1> QED BY <1>3, <1>8, GoesKeep

LEMMA DiscoverStep ==
    ASSUME PInv, Discover
    PROVE  PInv' /\ OnceStep
<1> DEFINE h == On("cron")
<1>1. /\ at["cron"] = "discovering" /\ Goto("cron", "sent")
      /\ UNCHANGED <<row, stamps, comments, app, young, landed>>
  BY DEF Discover
<1>2. todo["cron"] # <<>> /\ "cron" \in Actor
  BY <1>1 DEF PInv, Places, Actor
<1>3. h \in Commit /\ row[h].phase # "absent"
  BY <1>2, CronRow
<1>4. landed[h] = 1
  BY <1>3 DEF Discover, Markers, PInv, Landings
<1>5. \A b \in Actor : ~(b # "cron" /\ at[b] \in SendSteps /\ On(b) = h)
  BY <1>4 DEF PInv, Senders
<1>6. Posted(h) /\ landed'[h] = landed[h] /\ young \subseteq Commit
  BY <1>1, <1>3, NothingPosted DEF PInv, TypeOK
<1>7. /\ Keeps(row[h], row[h]) /\ row' = [row EXCEPT ![h] = row[h]]
      /\ row[h].phase \in Unsent => landed[h] = 0
      /\ row[h].proof => landed[h] = 1
      /\ row[h].stored => row[h].proof
      /\ OnceRow(h, row[h])
  BY <1>1, <1>3, SameRow
<1>8. h = On("cron")
  OBVIOUS
<1> HIDE DEF h
<1>9. Goes("cron", h, row[h], "sent")
  BY <1>1, <1>2, <1>3, <1>4, <1>5, <1>6, <1>7, <1>8 DEF Goes, SendSteps, CronOnly
<1> QED BY <1>2, <1>3, <1>9, GoesKeep

\* An actor leaves its row as it is.
LEMMA LeavesSame ==
    ASSUME PInv, NEW a \in Actor, NEW ok \in BOOLEAN, Done(a, ok),
           at[a] # "idle", a = "cron" => todo["cron"] # <<>>, On(a) \in Commit,
           UNCHANGED <<row, stamps, comments, app, young, landed>>
    PROVE  PInv' /\ OnceStep
<1> DEFINE h == On(a)
<1>1. Posted(h) /\ landed'[h] = landed[h]
  BY NothingPosted
<1>2. /\ Keeps(row[h], row[h]) /\ row' = [row EXCEPT ![h] = row[h]]
      /\ row[h].phase = "absent" => row[h].next = "none"
      /\ row[h].phase \in Unsent => landed[h] = 0
      /\ OnceRow(h, row[h]) /\ SameReview(row[h], row[h])
  BY SameRow DEF SameReview
<1>3. \A b \in Actor : b # a /\ at[b] \in SendSteps /\ On(b) = h =>
                         row[h].phase \in {"sending", "unknown"}
  BY DEF PInv, Senders
<1>4. h = On(a)
  OBVIOUS
<1> HIDE DEF h
<1>5. Leaves(a, h, row[h])
  BY <1>1, <1>2, <1>3, <1>4 DEF Leaves
<1> QED BY <1>4, <1>5, LeavesKeep

LEMMA CronSkipStep ==
    ASSUME PInv, CronSkip \/ CronDefer
    PROVE  PInv' /\ OnceStep
<1>1. /\ at["cron"] = "row" /\ todo["cron"] # <<>> /\ Done("cron", TRUE) /\ "cron" \in Actor
      /\ UNCHANGED <<row, stamps, comments, app, young, landed>>
  BY DEF CronSkip, CronDefer, Reads, Actor
<1>2. On("cron") \in Commit
  BY <1>1, CronRow
<1> QED BY <1>1, <1>2, LeavesSame

LEMMA AlreadyAppliedStep ==
    ASSUME PInv, NEW a \in Actor, AlreadyApplied(a)
    PROVE  PInv' /\ OnceStep
<1>1. /\ at[a] = "proven" /\ Done(a, TRUE)
      /\ UNCHANGED <<row, stamps, comments, app, young, landed>>
  BY DEF AlreadyApplied
<1>2. On(a) \in Commit
  BY <1>1, OnType DEF PInv
<1>3. a = "cron" => todo["cron"] # <<>>
  BY <1>1 DEF PInv, Places
<1> QED BY <1>1, <1>2, <1>3, LeavesSame

\* A failed step, after a mutation or without one.
LEMMA FailsStep ==
    ASSUME PInv, NEW a \in Actor, NEW u \in BOOLEAN, Fails(a, u), at[a] \notin {"idle", "row"},
           Posted(On(a)),
           row[On(a)].phase \in Unsent => landed'[On(a)] = 0,
           \/ landed' = landed
           \/ /\ at[a] \in SendSteps /\ landed[On(a)] = 0
              /\ landed' = [landed EXCEPT ![On(a)] = 1],
           UNCHANGED <<stamps, app, young>>
    PROVE  PInv' /\ OnceStep
<1> DEFINE h == On(a)
<1> DEFINE q == IF a = "cron" THEN Settled(row[h], todo["cron"][1].attempts, u)
                ELSE Orphaned(a, row[h])
<1>1. h \in Commit
  BY OnType DEF PInv
<1>2. row' = [row EXCEPT ![h] = q] /\ Done(a, FALSE)
  BY DEF Fails
<1>3. a = "cron" => /\ todo["cron"] # <<>> /\ row[h].phase # "absent"
                    /\ todo["cron"][1].attempts \in 0..MaxAttempts
  BY CronRow DEF PInv, Places
<1>4. row[h] \in Row /\ (row[h].phase = "absent" => row[h].next = "none")
  BY <1>1, SameRow
<1>5. a = "consumer" \/ a = "cron"
  BY DEF Actor
<1>6. /\ Keeps(q, row[h]) /\ SameReview(q, row[h])
      /\ q.phase = row[h].phase \/ (row[h].phase = "sending" /\ q.phase = "unknown")
      /\ a = "consumer" => q.phase = row[h].phase /\ q.live = row[h].live
      /\ q.phase = "absent" => row[h].phase = "absent" /\ q.next = "none"
  <2>1. CASE a = "cron"
    BY <1>3, <1>4, <2>1, SettledRow
  <2>2. CASE a = "consumer"
    <3>1. q.next = row[h].next
      BY <1>4, <2>2 DEF Orphaned, Row
    <3> QED BY <1>4, <2>2, <3>1, OrphanedRow
  <2> QED BY <1>5, <2>1, <2>2
<1>7. \A b \in Actor : b # a /\ at[b] \in SendSteps /\ On(b) = h =>
                         row[h].phase \in {"sending", "unknown"} /\ landed'[h] = landed[h]
  BY SenderAlone DEF PInv, Senders
<1>8. h = On(a)
  OBVIOUS
<1> HIDE DEF h, q
<1>9. OnceRow(h, q)
  <2>1. at[a] \in SendSteps => row[h].phase \in {"sending", "unknown"}
    BY <1>8 DEF PInv, Senders
  <2> QED BY <1>6, <1>8, <2>1 DEF OnceRow, Dropped
<1>10. Leaves(a, h, q)
  BY <1>2, <1>3, <1>6, <1>7, <1>8, <1>9 DEF Leaves, Unsent
<1> QED BY <1>1, <1>10, LeavesKeep

LEMMA FailuresStep ==
    ASSUME PInv, NEW a \in Actor, ProveFails(a) \/ ApplyFails(a) \/ (a = "cron" /\ DiscoverFails)
    PROVE  PInv' /\ OnceStep
<1>1. /\ at[a] \in {"sent", "proven", "put", "discovering"}
      /\ \E u \in BOOLEAN : Fails(a, u)
      /\ UNCHANGED <<stamps, comments, app, young, landed>>
  BY DEF ProveFails, ApplyFails, DiscoverFails
<1>2. On(a) \in Commit
  BY <1>1, OnType DEF PInv
<1>3. /\ Posted(On(a)) /\ landed' = landed
      /\ row[On(a)].phase \in Unsent => landed[On(a)] = 0
  BY <1>1, <1>2, NothingPosted, SameRow
<1> QED BY <1>1, <1>3, FailsStep

LEMMA SendFailsStep ==
    ASSUME PInv, NEW a \in Actor, SendFails(a)
    PROVE  PInv' /\ OnceStep
<1>1. /\ at[a] \in SendSteps /\ at[a] \notin {"idle", "row"}
      /\ Fails(a, TRUE) /\ UNCHANGED <<stamps, app, young>>
  BY DEF SendFails, SendSteps
<1>2. On(a) \in Commit /\ row[On(a)].phase \in {"sending", "unknown"}
  BY <1>1, OnType DEF PInv, Senders
<1>3. /\ Posted(On(a))
      /\ \/ landed' = landed
         \/ landed[On(a)] = 0 /\ landed' = [landed EXCEPT ![On(a)] = 1]
  BY <1>2, LandingFacts, NothingPosted DEF SendFails
<1>4. row[On(a)].phase \notin Unsent
  BY <1>2 DEF Unsent
<1> QED BY <1>1, <1>3, <1>4, FailsStep

LEMMA RejectStep ==
    ASSUME PInv, NEW a \in Actor, Reject(a)
    PROVE  PInv' /\ OnceStep
<1> DEFINE h == On(a)
<1> DEFINE q == IF MayFail(a, row[h]) THEN Failed(row[h]) ELSE Orphaned(a, row[h])
<1>1. /\ at[a] = "rejected" /\ Done(a, FALSE) /\ row' = [row EXCEPT ![h] = q]
      /\ UNCHANGED <<stamps, comments, app, young, landed>>
  BY DEF Reject
<1>2. at[a] \in SendSteps /\ h \in Commit
  BY <1>1, OnType DEF SendSteps, PInv
<1>3. row[h].phase \in {"sending", "unknown"} /\ landed[h] = 0 /\ row[h] \in Row
  BY <1>2, SameRow DEF PInv, Senders
<1>4. /\ Keeps(q, row[h]) /\ SameReview(q, row[h])
      /\ \/ q.phase = "failed"
         \/ q.phase = row[h].phase /\ q.live = row[h].live
  BY <1>3, FailedRow, OrphanedRow
<1>5. a = "cron" => todo["cron"] # <<>>
  BY <1>1 DEF PInv, Places
<1>6. Posted(h) /\ landed'[h] = landed[h]
  BY <1>1, <1>2, NothingPosted
<1>7. \A b \in Actor : ~(b # a /\ at[b] \in SendSteps /\ On(b) = h)
  BY <1>2, SenderAlone
<1>8. h = On(a)
  OBVIOUS
<1> HIDE DEF h, q
<1>9. OnceRow(h, q)
  BY <1>1, <1>3, <1>4 DEF OnceRow, Dropped
<1>10. Leaves(a, h, q)
  BY <1>1, <1>3, <1>4, <1>5, <1>6, <1>7, <1>8, <1>9 DEF Leaves, Claimable
<1> QED BY <1>2, <1>10, LeavesKeep

LEMMA MarkStep ==
    ASSUME PInv, NEW a \in Actor, Mark(a)
    PROVE  PInv' /\ OnceStep
<1> DEFINE h == On(a)
<1> DEFINE q == Applied(row[h])
<1>1. /\ at[a] = "put" /\ MayMark(a, row[h]) /\ Done(a, TRUE) /\ row' = [row EXCEPT ![h] = q]
      /\ UNCHANGED <<stamps, comments, app, young, landed>>
  BY DEF Mark
<1>2. h \in Commit
  BY <1>1, OnType DEF PInv
<1>3. row[h].phase = "confirmed" /\ landed[h] = 1 /\ row[h] \in Row
  BY <1>1, <1>2, SameRow DEF MayMark
<1>4. Keeps(q, row[h]) /\ SameReview(q, row[h]) /\ q.phase = "applied"
  <2>1. "applied" \in Phase
    BY DEF Phase
  <2> QED BY <1>3, <2>1, DoneRow DEF Applied
<1>5. a = "cron" => todo["cron"] # <<>>
  BY <1>1 DEF PInv, Places
<1>6. Posted(h) /\ landed'[h] = landed[h]
  BY <1>1, <1>2, NothingPosted
<1>7. \A b \in Actor : ~(b # a /\ at[b] \in SendSteps /\ On(b) = h)
  BY <1>3 DEF PInv, Senders
<1>8. h = On(a)
  OBVIOUS
<1> HIDE DEF h, q
<1>9. OnceRow(h, q)
  BY <1>1, <1>3, <1>4 DEF OnceRow, Dropped
<1>10. Leaves(a, h, q)
  BY <1>1, <1>3, <1>4, <1>5, <1>6, <1>7, <1>8, <1>9 DEF Leaves, Claimable, Unsent
<1> QED BY <1>2, <1>10, LeavesKeep

LEMMA CronSupersedeStep ==
    ASSUME PInv, CronSupersede
    PROVE  PInv' /\ OnceStep
<1> DEFINE h == On("cron")
<1> DEFINE q == IF MayClaim(row[h]) THEN Superseded(row[h]) ELSE row[h]
<1>1. /\ at["cron"] = "stale" /\ Done("cron", TRUE) /\ row' = [row EXCEPT ![h] = q]
      /\ UNCHANGED <<stamps, comments, app, young, landed>>
  BY DEF CronSupersede
<1>2. /\ todo["cron"] # <<>> /\ "cron" \in Actor
      /\ row[h].aged /\ todo["cron"][1].phase = "prepared"
  BY <1>1 DEF PInv, Places, Passes, Actor
<1>3. h \in Commit /\ h = todo["cron"][1].head /\ AsRead(todo["cron"][1])
  BY <1>2, CronRow
<1>4. /\ row[h] \in Row /\ Keeps(row[h], row[h])
      /\ row[h].phase = "absent" => row[h].next = "none"
      /\ row[h].phase \in Unsent => landed[h] = 0
  BY <1>3, SameRow
<1>5. MayClaim(row[h]) => row[h].phase = "prepared"
  BY <1>2, <1>3 DEF AsRead, MayClaim
<1>6. CASE MayClaim(row[h])
  <2>1. Keeps(q, row[h]) /\ SameReview(q, row[h]) /\ q.phase = "superseded"
    <3>1. "superseded" \in Phase
      BY DEF Phase
    <3> QED BY <1>4, <1>6, <3>1, DoneRow DEF Superseded
  <2>2. landed[h] = 0
    BY <1>4, <1>5, <1>6 DEF Unsent
  <2>3. \A b \in Actor : ~(b # "cron" /\ at[b] \in SendSteps /\ On(b) = h)
    BY <1>5, <1>6 DEF PInv, Senders
  <2>4. Posted(h) /\ landed'[h] = landed[h]
    BY <1>1, <1>3, NothingPosted
  <2>5. h = On("cron")
    OBVIOUS
  <2> HIDE DEF h, q
  <2>6. OnceRow(h, q)
    BY <1>1, <1>5, <1>6, <2>1, <2>2 DEF OnceRow, Dropped
  <2>7. Leaves("cron", h, q)
    BY <1>1, <1>2, <2>1, <2>2, <2>3, <2>4, <2>5, <2>6 DEF Leaves
  <2> QED BY <1>2, <1>3, <2>7, LeavesKeep
<1>7. CASE ~MayClaim(row[h])
  <2>1. row' = row
    BY <1>1, <1>3, <1>7 DEF PInv, TypeOK
  <2> QED BY <1>1, <1>2, <1>3, <2>1, LeavesSame
<1> QED BY <1>6, <1>7

LEMMA CronRefusedStep ==
    ASSUME PInv, CronRefused
    PROVE  PInv' /\ OnceStep
<1> DEFINE h == On("cron")
<1> DEFINE q == IF MayUnspend("cron", row[h]) THEN Unspent(row[h]) ELSE Orphaned("cron", row[h])
<1>1. /\ at["cron"] \in {"claimed", "updating", "creating"} /\ Done("cron", TRUE)
      /\ row' = [row EXCEPT ![h] = q] /\ UNCHANGED <<stamps, comments, app, young, landed>>
  BY DEF CronRefused
<1>2. at["cron"] \in SendSteps /\ "cron" \in Actor /\ todo["cron"] # <<>>
  BY <1>1 DEF SendSteps, Actor, PInv, Places
<1>3. h \in Commit
  BY <1>2, CronRow
<1>4. row[h].phase \in {"sending", "unknown"} /\ landed[h] = 0 /\ row[h] \in Row
  BY <1>2, <1>3, SameRow DEF PInv, Senders
<1>5. /\ Keeps(q, row[h]) /\ SameReview(q, row[h])
      /\ q.phase = "prepared" \/ q.phase = row[h].phase
  BY <1>2, <1>4, UnspentRow, OrphanedRow DEF MayUnspend
<1>6. Posted(h) /\ landed'[h] = landed[h]
  BY <1>1, <1>3, NothingPosted
<1>7. \A b \in Actor : ~(b # "cron" /\ at[b] \in SendSteps /\ On(b) = h)
  BY <1>2, SenderAlone
<1>8. h = On("cron")
  OBVIOUS
<1> HIDE DEF h, q
<1>9. OnceRow(h, q)
  BY <1>1, <1>4, <1>5 DEF OnceRow, Dropped
<1>10. Leaves("cron", h, q)
  BY <1>1, <1>2, <1>4, <1>5, <1>6, <1>7, <1>8, <1>9 DEF Leaves
<1> QED BY <1>2, <1>3, <1>10, LeavesKeep
-----------------------------------------------------------------------------
(* The claims, and the staging.                                            *)

\* A claim that changes the row of actor a.
Takes(a, step) ==
    /\ MayClaim(row[On(a)])
    /\ row' = [row EXCEPT ![On(a)] = Claimed(a, @)]
    /\ young' = IF at["cron"] = "idle" THEN young ELSE young \cup {On(a)}
    /\ Goto(a, step)
    /\ UNCHANGED <<stamps, comments, app, landed>>

LEMMA TakesKeep ==
    ASSUME PInv, NEW a \in Actor, NEW step, Takes(a, step), On(a) \in Commit, at[a] # "idle",
           a = "cron" => todo["cron"] # <<>>,
           \/ /\ step = "claimed" /\ row[On(a)].phase = "prepared"
              /\ a = "cron" => row[On(a)].aged /\ todo["cron"][1].phase = "prepared"
              /\ a = "consumer" => todo["consumer"] = <<>>
           \/ a = "cron" /\ step = "discovering" /\ row[On(a)].phase # "prepared"
           \/ step = "proven" /\ (a = "cron" => row[On(a)].phase # "prepared")
    PROVE  PInv' /\ OnceStep
<1> DEFINE h == On(a)
<1> DEFINE q == Claimed(a, row[h])
<1>1. /\ row' = [row EXCEPT ![h] = q] /\ Goto(a, step) /\ row[h].phase \in Claimable
      /\ young' = IF at["cron"] = "idle" THEN young ELSE young \cup {h}
      /\ UNCHANGED <<stamps, comments, app, landed>>
  BY DEF Takes, MayClaim
<1>2. /\ row[h] \in Row /\ (row[h].phase \in Unsent => landed[h] = 0)
      /\ row[h].proof => landed[h] = 1
      /\ row[h].stored => row[h].proof
  BY SameRow
<1>3. /\ Keeps(q, row[h]) /\ q.live /\ SameReview(q, row[h])
      /\ q.phase = IF row[h].phase = "prepared" THEN "sending" ELSE row[h].phase
  BY <1>2, ClaimedRow
<1>4. Posted(h) /\ landed'[h] = landed[h]
  BY <1>1, NothingPosted
<1>5. young \subseteq young' /\ young' \subseteq Commit
  BY <1>1 DEF PInv, TypeOK
<1>6. \A b \in Actor : b # a /\ at[b] \in SendSteps /\ On(b) = h =>
                         row[h].phase \in {"sending", "unknown"}
  BY DEF PInv, Senders
<1>7. h = On(a) /\ h \in Commit
  OBVIOUS
<1> HIDE DEF h, q
<1>8. OnceRow(h, q)
  BY <1>1, <1>3 DEF OnceRow, Dropped, Claimable
<1>9. CASE step = "claimed"
  <2>1. q.phase = "sending" /\ landed'[h] = 0
    BY <1>2, <1>3, <1>4, <1>7, <1>9 DEF Unsent
  <2>2. \A b \in Actor : ~(b # a /\ at[b] \in SendSteps /\ On(b) = h)
    BY <1>6, <1>7, <1>9
  <2>3. Goes(a, h, q, step)
    BY <1>1, <1>2, <1>3, <1>4, <1>5, <1>7, <1>8, <1>9, <2>1, <2>2
       DEF Goes, SendSteps, CronOnly, Unsent, SameReview
  <2> QED BY <1>7, <2>3, GoesKeep
<1>10. CASE step # "claimed"
  <2>1. /\ step \in {"discovering", "proven"}
        /\ a = "cron" => row[h].phase # "prepared"
        /\ a = "consumer" => step = "proven"
    BY <1>7, <1>10 DEF Actor
  <2>2. q.phase \in Claimable \ {"prepared"}
    BY <1>1, <1>3 DEF Claimable
  <2>3. Goes(a, h, q, step)
    BY <1>1, <1>2, <1>3, <1>4, <1>5, <1>6, <1>7, <1>8, <2>1, <2>2
       DEF Goes, SendSteps, CronOnly, Unsent, Claimable, SameReview
  <2> QED BY <1>7, <2>3, GoesKeep
<1> QED BY <1>9, <1>10

LEMMA ClaimPendingStep ==
    ASSUME PInv, ClaimPending
    PROVE  PInv' /\ OnceStep
<1>1. at["consumer"] = "context" /\ todo["consumer"] # <<>> /\ "consumer" \in Actor
  BY DEF ClaimPending, Actor
<1>2. On("consumer") \in Commit
  BY <1>1, OnType DEF PInv
<1>3. CASE Takes("consumer", "proven")
  BY <1>1, <1>2, <1>3, TakesKeep
<1>4. CASE ~Takes("consumer", "proven")
  <2>1. /\ todo' = [todo EXCEPT !["consumer"] = <<>>]
        /\ UNCHANGED <<at, cur, plan, row, young, stamps, comments, app, landed>>
    BY <1>4 DEF ClaimPending, Claim, Takes
  <2>2. /\ row \in [Commit -> Row] /\ todo \in [Actor -> Seq(Items)]
        /\ comments \in Seq(Commit \cup {Prior, Gone}) /\ app \in AppState
    BY DEF PInv, TypeOK
  <2>3. /\ todo' \in [Actor -> Seq(Items)] /\ todo'["consumer"] = <<>>
        /\ \A b \in Actor : b # "consumer" => todo'[b] = todo[b]
    BY <1>1, <2>1, <2>2
  <2>4. Places'
    BY <1>1, <2>1, <2>3 DEF PInv, Places, Actor
  <2>5. Passes'
    BY <2>1, <2>3, PassesStill DEF PInv, Actor
  <2>6. \A g \in Commit : Calm(row[g], row[g])
    BY <2>2 DEF Calm, SameReview
  <2>7. \A b \in Actor : at'[b] = "context" \/ (at'[b] = at[b] /\ todo'[b] = todo[b])
    BY <1>1, <2>1, <2>3
  <2> QED BY <2>1, <2>2, <2>3, <2>4, <2>5, <2>6, <2>7, StillKeep DEF PInv, TypeOK, Landings
<1> QED BY <1>3, <1>4

LEMMA ClaimStagedStep ==
    ASSUME PInv, ClaimStaged
    PROVE  PInv' /\ OnceStep
<1>1. /\ at["consumer"] = "staged" /\ todo["consumer"] = <<>> /\ "consumer" \in Actor
      /\ cur \in Commit /\ On("consumer") = cur /\ row[cur].phase = "prepared"
  BY DEF ClaimStaged, Actor, PInv, Places, Staged, On
<1>2. CASE Takes("consumer", "claimed")
  BY <1>1, <1>2, TakesKeep
<1>3. CASE ~Takes("consumer", "claimed")
  <2>1. EndRound /\ UNCHANGED <<row, young, stamps, comments, app, landed>>
    BY <1>3 DEF ClaimStaged, Claim, Takes
  <2>2. Done("consumer", TRUE)
    BY <1>1, <2>1 DEF Done
  <2> QED BY <1>1, <2>1, <2>2, LeavesSame
<1> QED BY <1>2, <1>3

LEMMA CronClaimStep ==
    ASSUME PInv, CronClaim
    PROVE  PInv' /\ OnceStep
<1>1. /\ at["cron"] \in {"checked", "row"} /\ todo["cron"] # <<>> /\ "cron" \in Actor
      /\ at["cron"] = "checked" => row[On("cron")].aged /\ todo["cron"][1].phase = "prepared"
  BY DEF CronClaim, Reads, Actor, PInv, Places, Passes
<1>2. /\ On("cron") \in Commit /\ On("cron") = todo["cron"][1].head
      /\ AsRead(todo["cron"][1])
  BY <1>1, CronRow
<1>3. CASE at["cron"] = "checked" /\ Takes("cron", "claimed")
  <2>1. row[On("cron")].phase = "prepared"
    BY <1>1, <1>2, <1>3 DEF Takes, MayClaim, AsRead
  <2> QED BY <1>1, <1>2, <1>3, <2>1, TakesKeep
<1>4. CASE /\ Reads({"sending", "unknown", "confirmed"})
           /\ Takes("cron", "discovering") \/ Takes("cron", "proven")
  <2>1. row[On("cron")].phase # "prepared"
    BY <1>2, <1>4 DEF AsRead, Reads
  <2> QED BY <1>1, <1>2, <1>4, <2>1, TakesKeep
<1>5. CASE /\ ~(at["cron"] = "checked" /\ Takes("cron", "claimed"))
           /\ ~(/\ Reads({"sending", "unknown", "confirmed"})
                /\ Takes("cron", "discovering") \/ Takes("cron", "proven"))
  <2>1. Done("cron", TRUE) /\ UNCHANGED <<row, young, stamps, comments, app, landed>>
    <3>1. Reads({"sending", "unknown"}) \/ Reads({"confirmed"}) =>
            Reads({"sending", "unknown", "confirmed"})
      BY DEF Reads
    <3> QED BY <1>5, <3>1 DEF CronClaim, Claim, Takes
  <2> QED BY <1>1, <1>2, <2>1, LeavesSame
<1> QED BY <1>3, <1>4, <1>5

LEMMA NoRowType == NoRow \in Row
<1>1. "absent" \in Phase /\ 0 \in 0..MaxAttempts
  BY PublicationAssumption DEF Phase
<1> QED BY <1>1 DEF NoRow, Row

LEMMA StageStep ==
    ASSUME PInv, Stage
    PROVE  PInv' /\ OnceStep
<1>1. /\ at["consumer"] = "planned" /\ "consumer" \in Actor /\ "cron" \in Actor
      /\ todo["consumer"] = <<>> /\ cur \in Commit /\ On("consumer") = cur
  BY DEF Stage, Actor, PInv, Places, On
<1>2. CASE row[cur].phase # "absent"
  <2>1. EndRound /\ UNCHANGED <<row, stamps, comments, app, young, landed>>
    BY <1>2 DEF Stage
  <2>2. Done("consumer", TRUE)
    BY <1>1, <2>1 DEF Done
  <2> QED BY <1>1, <2>1, <2>2, LeavesSame
<1>3. CASE row[cur].phase = "absent"
  <2> DEFINE q == [NoRow EXCEPT !.phase = "prepared", !.recovery = "pending",
                                !.round = plan.round, !.target = plan.target]
  <2> DEFINE t == <<cur, "created">>
  <2>1. /\ row' = [row EXCEPT ![cur] = q] /\ stamps' = Append(stamps, t)
        /\ at' = [at EXCEPT !["consumer"] = "staged"]
        /\ UNCHANGED <<todo, cur, plan, comments, app, young, landed>>
    BY <1>3 DEF Stage, Goto
  <2>2. /\ row \in [Commit -> Row] /\ at \in [Actor -> Steps]
        /\ todo \in [Actor -> Seq(Items)]
        /\ stamps \in Seq(Commit \X {"created", "due"})
        /\ plan \in [round : Nat, target : 0..Len(comments)]
        /\ comments \in Seq(Commit \cup {Prior, Gone})
    BY DEF PInv, TypeOK
  <2>3. /\ q \in Row /\ q.phase = "prepared" /\ q.aged = FALSE /\ q.proof = FALSE
        /\ q.live = FALSE /\ q.target = plan.target /\ q.stored = FALSE
    <3>1. plan.round \in Nat /\ plan.target \in Nat /\ "prepared" \in Phase
      BY <2>2 DEF Phase, Claimable
    <3>2. q \in Row
      BY <3>1, NoRowType DEF Row
    <3>3. q.aged = FALSE /\ q.proof = FALSE /\ q.live = FALSE /\ q.stored = FALSE
      BY DEF NoRow
    <3> QED BY <3>2, <3>3 DEF NoRow
  <2>4. t \in Commit \X {"created", "due"} /\ t[1] = cur
    BY <1>1
  <2> HIDE DEF q, t
  <2>5. \A g \in Commit : row'[g] = IF g = cur THEN q ELSE row[g]
    BY <2>1, <2>2
  <2>6. at'["cron"] = at["cron"] /\ at'["consumer"] = "staged" /\ at' \in [Actor -> Steps]
    BY <1>1, <2>1, <2>2 DEF Steps
  <2>7. /\ stamps' \in Seq(Commit \X {"created", "due"})
        /\ DOMAIN stamps' = 1..(Len(stamps) + 1) /\ DOMAIN stamps = 1..Len(stamps)
        /\ Len(stamps) \in Nat
        /\ \A i \in DOMAIN stamps' : stamps'[i] = IF i <= Len(stamps) THEN stamps[i] ELSE t
    BY <2>1, <2>2, <2>4
  <2>8. \A i \in DOMAIN stamps : stamps[i][1] \in Commit /\ stamps[i][1] # cur /\ stamps[i] # t
    <3>1. \A i \in DOMAIN stamps : stamps[i] \in Commit \X {"created", "due"}
      BY <2>2
    <3>2. \A i \in DOMAIN stamps : stamps[i][1] # cur
      BY <1>3 DEF PInv, Stamps
    <3> QED BY <2>4, <3>1, <3>2
  <2>9. TypeOK'
    <3>1. row' \in [Commit -> Row]
      BY <2>1, <2>2, <2>3
    <3>2. \A g \in Commit : row'[g].target <= Len(comments)
                              /\ (row'[g].live => row'[g].owner # "none")
      <4>1. plan.target <= Len(comments)
        BY <2>2
      <4>2. \A g \in Commit : row[g].target <= Len(comments)
                              /\ (row[g].live => row[g].owner # "none")
        BY DEF PInv, TypeOK
      <4> QED BY <2>3, <2>5, <4>1, <4>2
    <3> QED BY <1>1, <2>1, <2>6, <2>7, <3>1, <3>2 DEF PInv, TypeOK
  <2>10. Places'
    BY <1>1, <2>1, <2>6 DEF PInv, Places, SendSteps
  <2>11. Stamps'
    <3>1. \A i \in DOMAIN stamps' : i \in DOMAIN stamps \/ i = Len(stamps) + 1
      BY <2>7
    <3>2. \A i, j \in DOMAIN stamps' : stamps'[i] = stamps'[j] => i = j
      BY <2>7, <2>8, <3>1 DEF PInv, Stamps
    <3>3. \A i \in DOMAIN stamps' : row'[stamps'[i][1]].phase # "absent"
      BY <1>1, <2>3, <2>4, <2>5, <2>7, <2>8, <3>1 DEF PInv, Stamps
    <3>4. \A g \in Commit : row'[g].phase = "absent" => row'[g].next = "none"
      BY <2>3, <2>5 DEF PInv, Stamps
    <3> QED BY <3>2, <3>3, <3>4 DEF Stamps
  <2>12. Passes'
    <3>1. \A i \in DOMAIN todo["cron"] : todo["cron"][i].head \in Commit
      <4>1. todo["cron"] \in Seq(Items)
        BY <1>1, <2>2
      <4>2. \A i \in DOMAIN todo["cron"] : todo["cron"][i] \in Items
        BY <4>1
      <4> QED BY <4>2 DEF Items
    <3>2. \A i \in DOMAIN todo["cron"] : todo["cron"][i].head # cur
      BY <1>3 DEF PInv, Passes, AsRead
    <3>3. \A i \in DOMAIN todo["cron"] : AsRead(todo["cron"][i])'
      BY <2>1, <2>5, <3>1, <3>2 DEF PInv, Passes, AsRead
    <3>4. at["cron"] \in {"stale", "checked"} => On("cron")' = On("cron") /\ row'[On("cron")].aged
      <4>1. at["cron"] \in {"stale", "checked"} => todo["cron"] # <<>>
        BY DEF PInv, Places
      <4>2. at["cron"] \in {"stale", "checked"} =>
              /\ On("cron") \in Commit /\ row[On("cron")].phase # "absent"
              /\ On("cron")' = On("cron") /\ row[On("cron")].aged
        BY <2>1, <4>1, CronRow DEF On, PInv, Passes
      <4> QED BY <1>3, <2>5, <4>2
    <3> QED BY <2>1, <2>6, <3>3, <3>4 DEF PInv, Passes
  <2>13. Staged'
    BY <1>1, <2>1, <2>3, <2>5 DEF Staged
  <2>14. \A b \in Actor : at'[b] \in SendSteps \cup {"sent"} =>
           b = "cron" /\ at[b] = at'[b] /\ On(b)' = On(b) /\ On(b) \in Commit
    <3>1. \A b \in Actor : at[b] \in SendSteps \cup {"sent"} => On(b) \in Commit
      BY OnType DEF SendSteps, PInv
    <3>2. \A b \in Actor : at'[b] \in SendSteps \cup {"sent"} => b = "cron"
      BY <2>6 DEF SendSteps, Actor
    <3> QED BY <2>1, <2>6, <3>1, <3>2 DEF On
  <2>15. landed[cur] = 0
    BY <1>1, <1>3, SameRow DEF Unsent
  <2>16. Senders'
    <3>1. \A b \in Actor : at[b] \in SendSteps => On(b) # cur
      BY <1>3 DEF PInv, Senders
    <3>2. \A b \in Actor : at'[b] \in SendSteps =>
            row'[On(b)'].phase \in {"sending", "unknown"} /\ landed'[On(b)'] = 0
      BY <2>1, <2>5, <2>14, <3>1 DEF PInv, Senders
    <3>3. at'["consumer"] \notin SendSteps
      BY <2>6 DEF SendSteps
    <3> QED BY <3>2, <3>3 DEF Senders
  <2>17. Landings'
    <3>1. \A b \in Actor : at'[b] = "sent" => landed'[On(b)'] = 1
      BY <2>1, <2>14 DEF PInv, Landings
    <3>2. \A g \in Commit : /\ landed[g] \in {0, 1}
                            /\ row'[g].phase \in Unsent => landed[g] = 0
                            /\ row'[g].proof => landed[g] = 1
                            /\ row'[g].stored => row'[g].proof
      BY <2>3, <2>5, <2>15 DEF PInv, Landings
    <3> QED BY <2>1, <3>1, <3>2 DEF PInv, Landings
  <2>18. OnceStep
    <3>1. /\ row[cur].proof \in BOOLEAN /\ row[cur].stored \in BOOLEAN
          /\ row[cur].proof => landed[cur] = 1
          /\ row[cur].stored => row[cur].proof
      <4>1. row[cur] \in Row
        BY <1>1, SameRow
      <4>2. row[cur].proof \in BOOLEAN /\ row[cur].stored \in BOOLEAN
        BY <4>1 DEF Row
      <4> QED BY <1>1, <4>2, SameRow
    <3>2. row[cur].proof = FALSE /\ row[cur].stored = FALSE
      <4>1. ~row[cur].proof /\ ~row[cur].stored
        BY <2>15, <3>1
      <4> QED BY <3>1, <4>1, Zenon
    <3>3. SameReview(q, row[cur])
      BY <2>3, <3>2 DEF SameReview
    <3>4. OnceRow(cur, q)
      BY <1>3, <2>1, <2>3, <3>3 DEF OnceRow, Dropped
    <3> QED BY <1>1, <2>1, <2>2, <3>4, OnceOfRow
  <2> QED BY <2>9, <2>10, <2>11, <2>12, <2>13, <2>16, <2>17, <2>18 DEF PInv
<1> QED BY <1>2, <1>3
-----------------------------------------------------------------------------
(* The invariant.                                                          *)

LEMMA InitPInv ==
    ASSUME Init
    PROVE  PInv
<1>1. /\ row = [h \in Commit |-> NoRow] /\ stamps = <<>> /\ todo = [a \in Actor |-> <<>>]
      /\ at = [a \in Actor |-> "idle"] /\ cur = NoCommit /\ young = {}
      /\ landed = [h \in Commit |-> 0] /\ comments \in {<<>>, <<Prior>>}
  BY DEF Init
<1>2. /\ comments \in Seq(Commit \cup {Prior, Gone}) /\ Len(comments) \in Nat
      /\ \A i \in DOMAIN comments : comments[i] = Prior
  <2>1. CASE comments = <<>>
    BY <2>1
  <2>2. CASE comments = <<Prior>>
    <3>1. /\ comments \in Seq({Prior}) /\ \A i \in DOMAIN comments : comments[i] = Prior
          /\ Len(comments) = 1
      BY <2>2
    <3> QED BY <2>2, <3>1
  <2> QED BY <1>1, <2>1, <2>2
<1>3. "consumer" \in Actor /\ "cron" \in Actor
  BY DEF Actor
<1>4. TypeOK
  <2>1. row \in [Commit -> Row] /\ \A h \in Commit : row[h] = NoRow
    BY <1>1, NoRowType
  <2>2. plan \in [round : Nat, target : 0..Len(comments)]
    BY <1>2 DEF Init, NoPlan
  <2>3. \A h \in Commit : row[h].target <= Len(comments)
                            /\ (row[h].live => row[h].owner # "none")
    <3>1. NoRow.target = 0 /\ ~NoRow.live
      BY DEF NoRow
    <3>2. 0 <= Len(comments)
      BY <1>2
    <3> QED BY <2>1, <3>1, <3>2
  <2>4. app \in AppState
    BY PublicationAssumption DEF Init
  <2>5. todo \in [Actor -> Seq(Items)]
    BY <1>1
  <2> QED BY <1>1, <1>2, <2>1, <2>2, <2>3, <2>4, <2>5 DEF TypeOK, Steps
<1>5. Places
  BY <1>1, <1>3 DEF Places, SendSteps
<1>6. Stamps
  BY <1>1 DEF Stamps, NoRow
<1>7. Passes
  BY <1>1, <1>3 DEF Passes, SendSteps
<1>8. Staged /\ Senders
  BY <1>1, <1>3 DEF Staged, Senders, SendSteps
<1>9. Landings
  BY <1>1, <1>2, <1>3, PublicationAssumption DEF Landings, NoRow
<1> QED BY <1>4, <1>5, <1>6, <1>7, <1>8, <1>9 DEF PInv

LEMMA StepPInv ==
    ASSUME PInv, [Next]_vars
    PROVE  PInv' /\ OnceStep
<1>1. CASE UNCHANGED vars
  BY ZenonT(30), <1>1 DEF vars, PInv, TypeOK, Places, Stamps, Passes, AsRead, Staged, Senders,
              Landings, On, OnceStep, Once!vars, WithPhase
<1>2. CASE \E h \in Commit : Begin(h)
  BY <1>2, BeginStep
<1>3. CASE ConsumerStep
  BY <1>3, ClaimPendingStep, PlanStep, StageStep, ClaimStagedStep DEF ConsumerStep
<1>4. CASE CronStep
  <2>1. "cron" \in Actor
    BY DEF Actor
  <2> QED BY <1>4, <2>1, CronStartStep, CronEndStep, CronSkipStep, CronSuspendStep, CronPlanStep,
             CronSupersedeStep, CronClaimStep, DiscoverStep, FailuresStep, CronRefusedStep
             DEF CronStep
<1>5. CASE \E a \in Actor : Publish(a) \/ Die(a)
  <2>1. PICK a \in Actor : Publish(a) \/ Die(a)
    BY <1>5
  <2>2. CASE Die(a)
    BY <2>2, DieStep
  <2>3. CASE Publish(a)
    BY <2>3, ScanStep, SendStep, SendFailsStep, RejectStep, ProveStep, PutStep, MarkStep,
       AlreadyAppliedStep, FailuresStep DEF Publish
  <2> QED BY <2>1, <2>2, <2>3
<1>6. CASE Reenable \/ ReenableFails \/ Rekey \/ SetApp
  BY <1>6, ReenableStep, RekeyStep, SetAppStep
<1>7. CASE \E h \in Commit : Retry(h) \/ Expire(h) \/ Due(h) \/ Age(h)
  BY <1>7, RetryStep, ExpireStep, DueStep, AgeStep
<1>8. CASE \E i \in DOMAIN comments : Delete(i)
  BY <1>8, DeleteStep
<1> QED BY <1>1, <1>2, <1>3, <1>4, <1>5, <1>6, <1>7, <1>8 DEF Next

\* The invariant holds: each step of either actor, of time, of operators and
\* of people keeps it.
THEOREM PInvHolds == Spec => []PInv
<1>1. Init => PInv
  BY InitPInv
<1>2. PInv /\ [Next]_vars => PInv'
  BY StepPInv
<1> QED BY <1>1, <1>2, PTL DEF Spec

\* Every state of the journal, of the comments and of the two writers has its
\* type: no attempt count leaves its range, and a live lease has a holder.
THEOREM PublicationType == Spec => []TypeOK
<1>1. PInv => TypeOK
  BY DEF PInv
<1> QED BY <1>1, PInvHolds, PTL

\* A row that stands as "prepared" has never reached the pull request, on
\* whichever road it came to be prepared again.
THEOREM PreparedIsUnsentHolds == Spec => []PreparedIsUnsent
<1>1. PInv => PreparedIsUnsent
  BY DEF PInv, Landings, PreparedIsUnsent, WithPhase, Unsent
<1> QED BY <1>1, PInvHolds, PTL

\* The journal implements PublishOnce: whatever dies, expires, gets lost or is
\* retried, no review is posted twice, none is recorded as published or kept
\* without having been posted, and none that was posted is written off.
THEOREM PublicationImplementsOnce == Spec => PublishesOnce
<1>1. Init => Once!Init
  BY DEF Init, Once!Init, NoRow, WithPhase
<1>2. PInv /\ [Next]_vars => [Once!Next]_(Once!vars)
  BY StepPInv DEF OnceStep
<1> QED BY <1>1, <1>2, PInvHolds, PTL DEF Spec, PublishesOnce, Once!Spec
=============================================================================
