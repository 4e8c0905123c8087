-------------------------- MODULE AdmissionProofs --------------------------
(***************************************************************************)
(* Proofs about Admission.  LockInv strengthens RowOutlivesRound: a round  *)
(* owns its row and the row has more ticks left than the delivery that     *)
(* runs it, so no tick can expire the row under its round.                 *)
(*                                                                         *)
(* BackoffInv strengthens FirstHolder: as long as one level only was read  *)
(* for a pull request, what is left of the row that first refused a        *)
(* message is at most what is left of the message's delays.                *)
(***************************************************************************)
EXTENDS Admission, FiniteSetTheorems, TLAPS

LockInv ==
    /\ \A m \in Msg : wall[m] <= Wall
    /\ \A m \in Msg : InRound(m) => /\ rows[PrOf[m]].owner = AttemptId(m)
                                    /\ rows[PrOf[m]].left > wall[m]

IInv == TypeOK /\ LockInv

-----------------------------------------------------------------------------
(* Lemmas about the helpers.                                               *)

\* SomeLevel is a level: a delivery that ended forgets its own.
LEMMA SomeLevelType == SomeLevel \in Level
BY TimesAssumption DEF SomeLevel

\* The row an insert writes is a row, with a life longer than any delivery.
LEMMA RowsWithType ==
    ASSUME TypeOK, NEW m \in Msg, attempts[m] \in 1..MaxDeliveries
    PROVE  RowsWith(m) \in [PR -> Row]
BY MapsAssumption, TimesAssumption DEF TypeOK, RowsWith, Row, Attempt, AttemptId, TtlOf

\* A release leaves a table of rows.
LEMMA RowsWithoutType ==
    ASSUME TypeOK, NEW m \in Msg
    PROVE  RowsWithout(m) \in [PR -> Row]
BY MapsAssumption DEF TypeOK, RowsWithout, Row, NoRow

\* Forgetting keeps the types of what a delivery read.
LEMMA ForgetType ==
    ASSUME TypeOK, NEW m \in Msg, Forget(m)
    PROVE  /\ wall' \in [Msg -> Nat]
           /\ level' \in [Msg -> Level]
           /\ cap' \in [Msg -> [system : Nat, workspace : Nat]]
           /\ threw' \in [Msg -> BOOLEAN]
BY SomeLevelType DEF TypeOK, Forget, NoCaps

\* Handing a message back keeps the types of the queue.
LEMMA RequeueType ==
    ASSUME TypeOK, NEW m \in Msg, Requeue(m)
    PROVE  /\ phase' \in [Msg -> {"queued"} \cup Processing \cup Ended]
           /\ wait' \in [Msg -> Nat]
           /\ firstHeld' \in [Msg -> Attempt \cup {NoAttempt}]
           /\ phase'[m] \notin Processing
           /\ phase'[m] = "queued" => attempts[m] < MaxDeliveries
           /\ \A n \in Msg \ {m} : phase'[n] = phase[n]
BY DEF TypeOK, Requeue, Processing, Ended

\* So does holding it back, whatever the reason.
LEMMA GuardHeldType ==
    ASSUME TypeOK, NEW m \in Msg, NEW reason, GuardHeld(m, reason),
           phase[m] \in Processing
    PROVE  /\ phase' \in [Msg -> {"queued"} \cup Processing \cup Ended]
           /\ wait' \in [Msg -> Nat]
           /\ firstHeld' \in [Msg -> Attempt \cup {NoAttempt}]
           /\ drop' \in [Msg -> {"none", "silent", "traced"}]
           /\ phase'[m] \notin Processing
           /\ phase'[m] = "queued" => attempts[m] < MaxDeliveries
           /\ \A n \in Msg \ {m} : phase'[n] = phase[n]
<1>1. rows[PrOf[m]].owner \in Attempt \cup {NoAttempt}
  BY MapsAssumption DEF TypeOK, Row
<1>2. CASE attempts[m] < MaxDeliveries
  <2>1. attempts[m] \in 1..(MaxDeliveries - 1)
    BY <1>2, TimesAssumption DEF TypeOK
  <2>2. DelayOf(m) \in Nat
    BY <2>1, TimesAssumption DEF TypeOK, DelayOf
  <2> QED BY <1>1, <1>2, <2>2 DEF TypeOK, GuardHeld, DelayOf, Processing, Ended
<1>3. CASE ~(attempts[m] < MaxDeliveries)
  BY <1>3 DEF TypeOK, GuardHeld, Processing, Ended
<1> QED BY <1>2, <1>3

-----------------------------------------------------------------------------
(* Type correctness.                                                       *)

\* Type correctness is inductive.
LEMMA InitType == Init => TypeOK
BY SomeLevelType, TimesAssumption, MapsAssumption
   DEF Init, Fresh, TypeOK, Row, NoRow, NoCaps, Processing

LEMMA NextType == TypeOK /\ [Next]_vars => TypeOK'
<1> SUFFICES ASSUME TypeOK, [Next]_vars PROVE TypeOK'
  OBVIOUS
<1>1. CASE Tick
  <2>1. wall' \in [Msg -> Nat]
    BY <1>1 DEF Tick, TypeOK
  <2>2. wait' \in [Msg -> Nat]
    BY <1>1 DEF Tick, TypeOK, LessOne
  <2>3. rows' \in [PR -> Row]
    <3>1. ASSUME NEW p \in PR PROVE [rows[p] EXCEPT !.left = LessOne(@)] \in Row
      <4>1. rows[p] \in Row
        BY DEF TypeOK
      <4>2. LessOne(rows[p].left) \in Nat
        BY <4>1 DEF Row, LessOne
      <4> QED BY <4>1, <4>2 DEF Row
    <3> QED BY <1>1, <3>1 DEF Tick
  <2> QED BY <1>1, <2>1, <2>2, <2>3 DEF Tick, TypeOK
<1>2. ASSUME NEW m \in Msg, Deliver(m) PROVE TypeOK'
  <2>1. /\ phase' \in [Msg -> {"queued"} \cup Processing \cup Ended]
        /\ attempts' \in [Msg -> 0..MaxDeliveries]
        /\ attempts'[m] \in 1..MaxDeliveries
        /\ phase'[m] # "queued"
    BY SMTT(20), <1>2, TimesAssumption DEF Deliver, Deliverable, TypeOK, Processing
  <2>2. /\ wall' \in [Msg -> Nat]
        /\ level' \in [Msg -> Level]
        /\ cap' \in [Msg -> [system : Nat, workspace : Nat]]
        /\ consumed' \subseteq Msg
    BY SMTT(20), <1>2, TimesAssumption DEF Deliver, TypeOK
  <2>3. seen' \in [PR -> SUBSET Level]
    <3>1. PICK l \in Level : seen' = [seen EXCEPT ![PrOf[m]] = @ \cup {l}]
      BY <1>2 DEF Deliver
    <3>2. seen[PrOf[m]] \cup {l} \in SUBSET Level
      BY MapsAssumption DEF TypeOK
    <3> QED BY <3>1, <3>2 DEF TypeOK
  <2> QED BY <1>2, <2>1, <2>2, <2>3 DEF Deliver, TypeOK
<1>3. ASSUME NEW m \in Msg, SkipConsumed(m) PROVE TypeOK'
  <2>1. /\ phase' \in [Msg -> {"queued"} \cup Processing \cup Ended]
        /\ attempts' \in [Msg -> 0..MaxDeliveries]
        /\ phase'[m] \notin Processing \cup {"queued"}
    BY <1>3, TimesAssumption DEF SkipConsumed, Deliverable, TypeOK, Processing, Ended
  <2> QED BY <1>3, <2>1 DEF SkipConsumed, TypeOK
<1>4. ASSUME NEW m \in Msg, Die(m) PROVE TypeOK'
  BY <1>4, ForgetType, RequeueType DEF Die, TypeOK
<1>5. ASSUME NEW m \in Msg, Acquire(m) PROVE TypeOK'
  <2>1. rows' \in [PR -> Row]
    BY <1>5, RowsWithType DEF Acquire, TypeOK, Processing
  <2> QED BY <1>5, <2>1 DEF Acquire, TypeOK, Processing
<1>6. ASSUME NEW m \in Msg, RefuseInsert(m) PROVE TypeOK'
  BY <1>6 DEF RefuseInsert, TypeOK, Processing
<1>7. ASSUME NEW m \in Msg, Refuse(m) PROVE TypeOK'
  <2>1. phase[m] \in Processing
    BY <1>7 DEF Refuse, Processing
  <2>2. PICK reason : GuardHeld(m, reason)
    BY <1>7 DEF Refuse
  <2> QED BY <1>7, <2>1, <2>2, ForgetType, GuardHeldType DEF Refuse, TypeOK
<1>8. ASSUME NEW m \in Msg, InsertFault(m) PROVE TypeOK'
  <2>1. phase[m] \in Processing
    BY <1>8 DEF InsertFault, Processing
  <2>2. rows' \in [PR -> Row]
    BY <1>8, <2>1, RowsWithType DEF InsertFault, TypeOK
  <2> QED BY <1>8, <2>1, <2>2, ForgetType, GuardHeldType DEF InsertFault, TypeOK
<1>9. ASSUME NEW m \in Msg, Settle(m) PROVE TypeOK'
  BY <1>9 DEF Settle, TypeOK, Processing
<1>10. ASSUME NEW m \in Msg, Release(m) PROVE TypeOK'
  <2>1. rows' \in [PR -> Row]
    BY <1>10, RowsWithoutType DEF Release, TypeOK
  <2>2. CASE threw[m]
    BY <1>10, <2>1, <2>2, ForgetType, RequeueType DEF Release, TypeOK
  <2>3. CASE ~threw[m]
    <3>1. /\ phase' \in [Msg -> {"queued"} \cup Processing \cup Ended]
          /\ phase'[m] \notin Processing \cup {"queued"}
          /\ \A n \in Msg \ {m} : phase'[n] = phase[n]
      BY <1>10, <2>3 DEF Release, TypeOK, Processing, Ended
    <3> QED BY <1>10, <2>1, <2>3, <3>1, ForgetType DEF Release, TypeOK
  <2> QED BY <2>2, <2>3
<1>11. CASE UNCHANGED vars
  BY <1>11 DEF vars, TypeOK
<1> QED
  BY <1>1, <1>2, <1>3, <1>4, <1>5, <1>6, <1>7, <1>8, <1>9, <1>10, <1>11
     DEF Next, Step

\* Every reachable state is well typed, for any messages, levels and caps.
THEOREM AdmissionType == Spec => []TypeOK
BY InitType, NextType, PTL DEF Spec

-----------------------------------------------------------------------------
(* The lock.                                                               *)

\* No round is in progress on a pull request whose row is not live.
LEMMA FreeRowNoRound ==
    ASSUME IInv, NEW m \in Msg, ~Live(PrOf[m])
    PROVE  \A n \in Msg : PrOf[n] = PrOf[m] => ~InRound(n)
<1> SUFFICES ASSUME NEW n \in Msg, PrOf[n] = PrOf[m], InRound(n) PROVE FALSE
  OBVIOUS
<1>1. rows[PrOf[n]].left > wall[n] /\ wall[n] \in Nat
  BY DEF IInv, LockInv, TypeOK
<1>2. rows[PrOf[n]].left \in Nat
  BY MapsAssumption DEF IInv, TypeOK, Row
<1> QED BY <1>1, <1>2 DEF Live

\* Writing the row of m disturbs no round but its own.
LEMMA RowsWithOthers ==
    ASSUME IInv, NEW m \in Msg, MayInsert(m)
    PROVE  \A n \in Msg : InRound(n) => RowsWith(m)[PrOf[n]] = rows[PrOf[n]]
<1> SUFFICES ASSUME NEW n \in Msg, InRound(n)
             PROVE  RowsWith(m)[PrOf[n]] = rows[PrOf[n]]
  OBVIOUS
<1>1. PrOf[n] # PrOf[m]
  BY FreeRowNoRound DEF MayInsert
<1> QED BY <1>1, MapsAssumption DEF RowsWith, IInv, TypeOK

\* Nor does deleting it.
LEMMA RowsWithoutOthers ==
    ASSUME IInv, NEW m \in Msg
    PROVE  \A n \in Msg \ {m} : InRound(n) => RowsWithout(m)[PrOf[n]] = rows[PrOf[n]]
<1> SUFFICES ASSUME NEW n \in Msg \ {m}, InRound(n)
             PROVE  RowsWithout(m)[PrOf[n]] = rows[PrOf[n]]
  OBVIOUS
<1>1. rows[PrOf[n]].owner = AttemptId(n)
  BY DEF IInv, LockInv
<1>2. PrOf[n] = PrOf[m] => rows[PrOf[m]].owner # AttemptId(m)
  BY <1>1 DEF AttemptId
<1> QED BY <1>2, MapsAssumption DEF RowsWithout, IInv, TypeOK

\* LockInv is inductive.
LEMMA InitLock == Init => LockInv
BY TimesAssumption DEF Init, Fresh, LockInv, InRound

\* A step of m leaves the rounds of the other messages alone when it leaves
\* their rows alone, so that only m is left to look at.
LEMMA OthersKeep ==
    ASSUME LockInv, NEW m \in Msg,
           \A n \in Msg \ {m} : /\ phase'[n] = phase[n]
                                /\ attempts'[n] = attempts[n]
                                /\ wall'[n] = wall[n],
           \A n \in Msg \ {m} : InRound(n) => rows'[PrOf[n]] = rows[PrOf[n]],
           wall'[m] <= Wall,
           InRound(m)' => /\ rows'[PrOf[m]].owner = AttemptId(m)'
                          /\ rows'[PrOf[m]].left > wall'[m]
    PROVE  LockInv'
BY DEF LockInv, InRound, AttemptId

LEMMA NextLock == IInv /\ [Next]_vars => LockInv'
<1> SUFFICES ASSUME IInv, [Next]_vars PROVE LockInv'
  OBVIOUS
<1> USE DEF IInv
<1>1. CASE Tick
  <2>1. ASSUME NEW m \in Msg PROVE wall'[m] <= Wall
    BY <1>1, TimesAssumption DEF Tick, TypeOK, LockInv
  <2>2. ASSUME NEW m \in Msg, InRound(m)'
        PROVE  /\ rows'[PrOf[m]].owner = AttemptId(m)'
               /\ rows'[PrOf[m]].left > wall'[m]
    <3>1. InRound(m) /\ phase[m] \in Processing
      BY <1>1, <2>2 DEF Tick, InRound, Processing
    <3>2. wall'[m] = wall[m] - 1 /\ wall[m] \in Nat
      BY <1>1, <3>1 DEF Tick, TypeOK
    <3>3. /\ rows'[PrOf[m]].owner = rows[PrOf[m]].owner
          /\ rows'[PrOf[m]].left = LessOne(rows[PrOf[m]].left)
          /\ rows[PrOf[m]].left \in Nat
      BY <1>1, MapsAssumption DEF Tick, TypeOK, Row
    <3>4. rows'[PrOf[m]].left > wall'[m]
      BY <3>1, <3>2, <3>3 DEF LockInv, LessOne
    <3> QED BY <1>1, <3>1, <3>3, <3>4 DEF LockInv, Tick, AttemptId
  <2> QED BY <2>1, <2>2 DEF LockInv
<1>2. ASSUME NEW m \in Msg, Deliver(m) PROVE LockInv'
  <2>1. wall'[m] <= Wall /\ ~InRound(m)'
    BY <1>2, TimesAssumption DEF Deliver, TypeOK, InRound
  <2>2. \A n \in Msg \ {m} : /\ phase'[n] = phase[n]
                             /\ attempts'[n] = attempts[n]
                             /\ wall'[n] = wall[n]
    BY <1>2 DEF Deliver, TypeOK
  <2> QED BY <1>2, <2>1, <2>2, OthersKeep DEF Deliver
<1>3. ASSUME NEW m \in Msg, SkipConsumed(m) PROVE LockInv'
  BY <1>3, OthersKeep DEF SkipConsumed, TypeOK, InRound, LockInv
<1>4. ASSUME NEW m \in Msg, Die(m) PROVE LockInv'
  <2>1. wall'[m] <= Wall
    BY <1>4, TimesAssumption DEF Die, Forget, TypeOK
  <2>2. ~InRound(m)'
    BY <1>4, RequeueType DEF Die, InRound, TypeOK, Processing
  <2> QED BY <1>4, <2>1, <2>2, OthersKeep, RequeueType DEF Die, Forget, TypeOK
<1>5. ASSUME NEW m \in Msg, Acquire(m) PROVE LockInv'
  <2>1. /\ rows'[PrOf[m]].owner = AttemptId(m)'
        /\ rows'[PrOf[m]].left = Ttl[level[m]]
    BY <1>5, MapsAssumption DEF Acquire, RowsWith, TypeOK, AttemptId, TtlOf
  <2>2. Ttl[level[m]] > wall'[m]
    <3>1. Ttl[level[m]] \in Nat /\ Ttl[level[m]] > Wall
      BY TimesAssumption DEF TypeOK
    <3>2. wall'[m] \in Nat /\ wall'[m] <= Wall
      BY <1>5 DEF Acquire, LockInv, TypeOK
    <3> QED BY <3>1, <3>2, TimesAssumption
  <2>3. \A n \in Msg \ {m} : InRound(n) => rows'[PrOf[n]] = rows[PrOf[n]]
    BY <1>5, RowsWithOthers DEF Acquire
  <2>4. \A n \in Msg \ {m} : /\ phase'[n] = phase[n]
                             /\ attempts'[n] = attempts[n]
                             /\ wall'[n] = wall[n]
    BY <1>5 DEF Acquire, TypeOK
  <2>5. wall'[m] <= Wall
    BY <1>5 DEF Acquire, LockInv
  <2> QED BY <2>1, <2>2, <2>3, <2>4, <2>5, OthersKeep
<1>6. ASSUME NEW m \in Msg, RefuseInsert(m) PROVE LockInv'
  BY <1>6, OthersKeep DEF RefuseInsert, TypeOK, InRound, LockInv
<1>7. ASSUME NEW m \in Msg, Refuse(m) PROVE LockInv'
  <2>1. PICK reason : GuardHeld(m, reason)
    BY <1>7 DEF Refuse
  <2>2. /\ phase'[m] \notin Processing
        /\ \A n \in Msg \ {m} : phase'[n] = phase[n]
    BY <1>7, <2>1, GuardHeldType DEF Refuse, Processing
  <2>3. ~InRound(m)' /\ wall'[m] <= Wall
    BY <1>7, <2>2, TimesAssumption DEF Refuse, Forget, TypeOK, InRound, Processing
  <2> QED BY <1>7, <2>2, <2>3, OthersKeep DEF Refuse, Forget, TypeOK
<1>8. ASSUME NEW m \in Msg, InsertFault(m) PROVE LockInv'
  <2>1. /\ phase'[m] \notin Processing
        /\ \A n \in Msg \ {m} : phase'[n] = phase[n]
    BY <1>8, GuardHeldType DEF InsertFault, Processing
  <2>2. ~InRound(m)' /\ wall'[m] <= Wall
    BY <1>8, <2>1, TimesAssumption DEF InsertFault, Forget, TypeOK, InRound, Processing
  <2>3. \A n \in Msg \ {m} : InRound(n) => rows'[PrOf[n]] = rows[PrOf[n]]
    BY <1>8, RowsWithOthers DEF InsertFault
  <2> QED BY <1>8, <2>1, <2>2, <2>3, OthersKeep DEF InsertFault, Forget, TypeOK
<1>9. ASSUME NEW m \in Msg, Settle(m) PROVE LockInv'
  BY <1>9, OthersKeep DEF Settle, TypeOK, InRound, LockInv, AttemptId
<1>10. ASSUME NEW m \in Msg, Release(m) PROVE LockInv'
  <2>1. /\ phase'[m] \notin Processing
        /\ \A n \in Msg \ {m} : phase'[n] = phase[n]
    BY <1>10, RequeueType DEF Release, TypeOK, Processing
  <2>2. ~InRound(m)' /\ wall'[m] <= Wall
    BY <1>10, <2>1, TimesAssumption DEF Release, Forget, TypeOK, InRound, Processing
  <2>3. \A n \in Msg \ {m} : InRound(n) => rows'[PrOf[n]] = rows[PrOf[n]]
    BY <1>10, RowsWithoutOthers DEF Release
  <2> QED BY <1>10, <2>1, <2>2, <2>3, OthersKeep DEF Release, Forget, TypeOK
<1>11. CASE UNCHANGED vars
  BY <1>11 DEF vars, LockInv, InRound, AttemptId
<1> QED
  BY <1>1, <1>2, <1>3, <1>4, <1>5, <1>6, <1>7, <1>8, <1>9, <1>10, <1>11
     DEF Next, Step

\* With the types, LockInv is an invariant.
LEMMA IInvHolds == Spec => []IInv
<1>1. Init => IInv
  BY InitType, InitLock DEF IInv
<1>2. IInv /\ [Next]_vars => IInv'
  BY NextType, NextLock DEF IInv
<1> QED BY <1>1, <1>2, PTL DEF Spec

LEMMA LockImpliesOutlives == IInv => RowOutlivesRound
<1> SUFFICES ASSUME IInv, NEW m \in Msg, InRound(m)
             PROVE  Live(PrOf[m]) /\ rows[PrOf[m]].owner = AttemptId(m)
  BY DEF RowOutlivesRound
<1>1. rows[PrOf[m]].left \in Nat /\ wall[m] \in Nat
  BY MapsAssumption DEF IInv, TypeOK, Row
<1> QED BY <1>1 DEF IInv, LockInv, Live

LEMMA LockImpliesOneRound == IInv => OneRoundPerPr
BY DEF IInv, LockInv, OneRoundPerPr, AttemptId

\* A row stays live, and stays its own, under every round.
THEOREM RowOutlivesRoundHolds == Spec => []RowOutlivesRound
BY IInvHolds, LockImpliesOutlives, PTL

\* At most one round per pull request, for any number of messages, levels
\* and deliveries, provided the wall clock is below every level's ttl.
THEOREM OneRoundPerPrHolds == Spec => []OneRoundPerPr
BY IInvHolds, LockImpliesOneRound, PTL

-----------------------------------------------------------------------------
(* The capacity.                                                           *)

\* There are at most as many rounds on a set of pull requests as live rows:
\* a round maps to its row, and two rounds never to the same one.
LEMMA RoundsFitRows ==
    ASSUME IInv, NEW S \in SUBSET PR
    PROVE  LET live == {p \in S : Live(p)}
           IN  /\ IsFiniteSet(RoundsOn(S)) /\ IsFiniteSet(live)
               /\ Cardinality(RoundsOn(S)) \in Nat /\ Cardinality(live) \in Nat
               /\ Cardinality(RoundsOn(S)) <= Cardinality(live)
<1> DEFINE live == {p \in S : Live(p)}
           rowOf == [m \in RoundsOn(S) |-> PrOf[m]]
<1>1. IsFiniteSet(live)
  BY FS_Subset, MapsAssumption
<1>2. rowOf \in [RoundsOn(S) -> live]
  BY LockImpliesOutlives DEF RowOutlivesRound, RoundsOn
<1>3. \A m, n \in RoundsOn(S) : rowOf[m] = rowOf[n] => m = n
  BY LockImpliesOneRound DEF OneRoundPerPr, RoundsOn
<1>4. rowOf \in Injection(RoundsOn(S), live)
  BY <1>2, <1>3 DEF Injection, IsInjective
<1>5. IsFiniteSet(RoundsOn(S)) /\ Cardinality(RoundsOn(S)) <= Cardinality(live)
  BY <1>1, <1>4, FS_Injection
<1> QED BY <1>1, <1>5, FS_CardinalityType

\* A message that enters adds one round to a set that had room for it.
LEMMA OneMoreRound ==
    ASSUME IInv, NEW m \in Msg, NEW S \in SUBSET PR, NEW c \in Nat,
           Cardinality({p \in S : Live(p)}) < c,
           \A n \in Msg \ {m} : phase'[n] = phase[n]
    PROVE  Cardinality(RoundsOn(S)') <= c
<1>1. RoundsOn(S)' \in SUBSET (RoundsOn(S) \cup {m})
  BY DEF RoundsOn, InRound
<1>2. /\ IsFiniteSet(RoundsOn(S)) /\ Cardinality(RoundsOn(S)) \in Nat
      /\ Cardinality(RoundsOn(S)) < c
  BY RoundsFitRows
<1>3. /\ IsFiniteSet(RoundsOn(S) \cup {m})
      /\ Cardinality(RoundsOn(S) \cup {m}) <= Cardinality(RoundsOn(S)) + 1
  BY <1>2, FS_AddElement
<1>4. /\ Cardinality(RoundsOn(S) \cup {m}) \in Nat
      /\ Cardinality(RoundsOn(S)') \in Nat
      /\ Cardinality(RoundsOn(S)') <= Cardinality(RoundsOn(S) \cup {m})
  BY <1>1, <1>3, FS_Subset, FS_CardinalityType
<1> QED BY <1>2, <1>3, <1>4

\* Only an acquisition lets a message into its round.
LEMMA EntersByAcquire ==
    ASSUME IInv, [Next]_vars, NEW m \in Msg, Enters(m)
    PROVE  Acquire(m)
<1> USE DEF Enters, InRound
<1>1. ASSUME NEW n \in Msg, n # m, Step(n) PROVE FALSE
  <2>1. phase'[m] = phase[m]
    BY <1>1 DEF IInv, TypeOK, Step, Deliver, SkipConsumed, Die, Requeue, Acquire,
                RefuseInsert, Refuse, InsertFault, GuardHeld, Settle, Release
  <2> QED BY <2>1
<1>2. CASE Step(m)
  <2>1. ASSUME GuardHeld(m, "error") \/ GuardHeld(m, RefusalReason(m)),
               phase[m] \in Processing
        PROVE  FALSE
    BY <2>1, GuardHeldType DEF IInv, Processing
  <2>2. ASSUME Requeue(m) PROVE FALSE
    BY <2>2, RequeueType DEF IInv, Processing
  <2>3. ~Die(m) /\ ~Refuse(m) /\ ~InsertFault(m)
    BY <2>1, <2>2 DEF Die, Refuse, InsertFault, Processing
  <2> QED BY <1>2, <2>3 DEF IInv, TypeOK, Step, Deliver, SkipConsumed,
                            RefuseInsert, Settle, Release
<1>3. CASE Tick \/ UNCHANGED vars
  BY <1>3 DEF Tick, vars
<1> QED BY <1>1, <1>2, <1>3 DEF Next

LEMMA EntersUnderCap ==
    ASSUME IInv, [Next]_vars, NEW m \in Msg, Enters(m)
    PROVE  UnderCap(m)
<1> DEFINE w == WorkspaceOf[PrOf[m]]
           mine == {p \in PR : WorkspaceOf[p] = w}
<1>1. Acquire(m)
  BY EntersByAcquire
<1>2. /\ cap[m].system \in Nat /\ cap[m].workspace \in Nat
      /\ \A n \in Msg \ {m} : phase'[n] = phase[n]
  BY <1>1 DEF IInv, TypeOK, Acquire
<1>3. Cardinality({p \in PR : Live(p)}) < cap[m].system
  BY <1>1 DEF Acquire, MayInsert, LiveRows
<1>4. {p \in mine : Live(p)} = LiveRowsOf(w)
  BY DEF LiveRows, LiveRowsOf
<1>5. Cardinality({p \in mine : Live(p)}) < cap[m].workspace
  BY <1>1, <1>4 DEF Acquire, MayInsert
<1>6. Cardinality(RoundsOn(PR)') <= cap[m].system
  BY <1>2, <1>3, OneMoreRound
<1>7. mine \in SUBSET PR
  OBVIOUS
<1>8. Cardinality(RoundsOn(mine)') <= cap[m].workspace
  <2> HIDE DEF mine
  <2> QED BY <1>2, <1>5, <1>7, OneMoreRound
<1> QED BY <1>6, <1>8 DEF UnderCap

\* Rounds never outnumber the caps of the delivery that enters, for any
\* number of pull requests, tenants and cap values.
THEOREM AdmissionUnderCapHolds == Spec => AdmissionUnderCap
<1>1. IInv /\ [Next]_vars => [\A m \in Msg : Enters(m) => UnderCap(m)]_vars
  BY EntersUnderCap
<1> QED BY <1>1, IInvHolds, PTL DEF Spec, AdmissionUnderCap

-----------------------------------------------------------------------------
(* The backoff.                                                            *)

\* What is left of the delays of a level, at most, at each delivery.
Rest == [l \in Level |->
    CHOOSE rest \in [1..MaxDeliveries -> 0..Ttl[l]] :
        /\ rest[1] = Ttl[l] /\ rest[MaxDeliveries] = 0
        /\ \A k \in 1..(MaxDeliveries - 1) : rest[k] <= Delay[l][k] + rest[k + 1]]

\* An attempt that can insert no row any more.
Spent(x) ==
    x # NoAttempt =>
        \/ x[2] < attempts[x[1]]
        \/ x[2] = attempts[x[1]] /\ phase[x[1]] # "started"

\* Owners, present and remembered, never come back.
OwnersSpent ==
    /\ \A p \in PR : Spent(rows[p].owner)
    /\ \A m \in Msg : Spent(firstHeld[m])

\* Rows and delays are those of levels that were read.
LevelsSeen ==
    /\ \A m \in Msg : phase[m] \in Processing => level[m] \in seen[PrOf[m]]
    /\ \A m \in Msg : firstHeld[m] # NoAttempt => seen[PrOf[m]] # {}
    /\ \A p \in PR : rows[p].left = 0 \/ \E l \in seen[p] : rows[p].left <= Ttl[l]

Outlasts(m, l) ==
    /\ phase[m] = "queued" =>
         rows[PrOf[m]].left <= wait[m] + Rest[l][attempts[m] + 1]
    /\ phase[m] \in Processing => rows[PrOf[m]].left <= Rest[l][attempts[m]]

\* m is still up against the row that refused its first delivery, and only
\* level l was ever read for its pull request.
HeldAt(m, l) ==
    /\ seen[PrOf[m]] = {l}
    /\ firstHeld[m] # NoAttempt
    /\ rows[PrOf[m]].owner = firstHeld[m]

Schedule == \A m \in Msg, l \in Level : HeldAt(m, l) => Outlasts(m, l)

BackoffInv == OwnersSpent /\ LevelsSeen /\ Schedule

\* The schedule of a level, as BackoffAssumption gives it.
LEMMA RestCovers ==
    ASSUME NEW l \in Level
    PROVE  /\ Rest[l] \in [1..MaxDeliveries -> 0..Ttl[l]]
           /\ Rest[l][1] = Ttl[l]
           /\ Rest[l][MaxDeliveries] = 0
           /\ \A k \in 1..(MaxDeliveries - 1) :
                Rest[l][k] <= Delay[l][k] + Rest[l][k + 1]
BY BackoffAssumption DEF Rest, Covers

\* The steps of a message leave the others where they stand.
LEMMA StepFrame ==
    ASSUME TypeOK, NEW n \in Msg, Step(n), NEW m \in Msg \ {n}
    PROVE  /\ phase'[m] = phase[m]
           /\ attempts'[m] = attempts[m]
           /\ wait'[m] = wait[m]
           /\ level'[m] = level[m]
           /\ firstHeld'[m] = firstHeld[m]
<1>1. CASE Deliver(n)
  BY <1>1 DEF Deliver, TypeOK
<1>2. CASE SkipConsumed(n) \/ Acquire(n) \/ RefuseInsert(n) \/ Settle(n)
  BY <1>2 DEF SkipConsumed, Acquire, RefuseInsert, Settle, TypeOK
<1>3. CASE Die(n)
  BY <1>3 DEF Die, Requeue, Forget, TypeOK
<1>4. CASE Refuse(n)
  <2>1. PICK reason : GuardHeld(n, reason)
    BY <1>4 DEF Refuse
  <2> QED BY <1>4, <2>1 DEF Refuse, GuardHeld, Forget, TypeOK
<1>5. CASE InsertFault(n)
  BY <1>5 DEF InsertFault, GuardHeld, Forget, TypeOK
<1>6. CASE Release(n)
  BY <1>6 DEF Release, Requeue, Forget, TypeOK
<1> QED BY <1>1, <1>2, <1>3, <1>4, <1>5, <1>6 DEF Step

\* A level once read for a pull request stays in the record.
LEMMA SeenGrows ==
    ASSUME TypeOK, [Next]_vars, NEW p \in PR
    PROVE  seen[p] \subseteq seen'[p]
<1>1. ASSUME NEW m \in Msg, Deliver(m) PROVE seen[p] \subseteq seen'[p]
  <2>1. PICK l \in Level : seen' = [seen EXCEPT ![PrOf[m]] = @ \cup {l}]
    BY <1>1 DEF Deliver
  <2> QED BY <2>1 DEF TypeOK
<1>2. ASSUME NEW m \in Msg, Step(m), ~Deliver(m) PROVE UNCHANGED seen
  BY <1>2 DEF Step, SkipConsumed, Die, Acquire, RefuseInsert, Refuse,
              InsertFault, Settle, Release
<1>3. CASE Tick \/ UNCHANGED vars
  BY <1>3 DEF Tick, vars
<1> QED BY <1>1, <1>2, <1>3 DEF Next, Step

\* A delivery counts up, and only a delivery starts an attempt.
LEMMA AttemptsGo ==
    ASSUME TypeOK, [Next]_vars, NEW n \in Msg
    PROVE  \/ attempts'[n] > attempts[n]
           \/ /\ attempts'[n] = attempts[n]
              /\ phase'[n] = "started" => phase[n] = "started"
<1>1. CASE Deliver(n) \/ SkipConsumed(n)
  BY <1>1, TimesAssumption DEF Deliver, SkipConsumed, TypeOK
<1>2. CASE Die(n)
  BY <1>2 DEF Die, Requeue, TypeOK
<1>3. CASE Acquire(n) \/ RefuseInsert(n) \/ Settle(n)
  BY <1>3 DEF Acquire, RefuseInsert, Settle, TypeOK
<1>4. CASE Refuse(n)
  <2>1. PICK reason : GuardHeld(n, reason)
    BY <1>4 DEF Refuse
  <2> QED BY <1>4, <2>1 DEF Refuse, GuardHeld, TypeOK
<1>5. CASE InsertFault(n)
  BY <1>5 DEF InsertFault, GuardHeld, TypeOK
<1>6. CASE Release(n)
  BY <1>6 DEF Release, Requeue, TypeOK
<1>7. ASSUME NEW m \in Msg \ {n}, Step(m)
      PROVE  attempts'[n] = attempts[n] /\ phase'[n] = phase[n]
  BY <1>7, StepFrame
<1>8. CASE Tick \/ UNCHANGED vars
  BY <1>8 DEF Tick, vars
<1> QED BY <1>1, <1>2, <1>3, <1>4, <1>5, <1>6, <1>7, <1>8 DEF Next, Step

\* What a step does to a row: it keeps its owner and does not live longer,
\* or it is deleted, or it is written by an attempt that has just started.
LEMMA RowChange ==
    ASSUME TypeOK, [Next]_vars, NEW p \in PR
    PROVE  \/ /\ rows'[p].owner = rows[p].owner
              /\ rows'[p].left <= rows[p].left
           \/ rows'[p] = NoRow
           \/ \E n \in Msg : /\ Step(n)
                             /\ PrOf[n] = p /\ phase[n] = "started"
                             /\ phase'[n] # "started" /\ attempts'[n] = attempts[n]
                             /\ rows'[p].owner = AttemptId(n)
                             /\ rows'[p].left = Ttl[level[n]]
<1>1. rows[p].left \in Nat /\ rows[p] \in Row
  BY DEF TypeOK, Row
<1>2. ASSUME NEW n \in Msg, rows' = RowsWith(n)
      PROVE  \/ rows'[p] = rows[p]
             \/ /\ PrOf[n] = p /\ rows'[p].owner = AttemptId(n)
                /\ rows'[p].left = Ttl[level[n]]
  BY <1>2 DEF RowsWith, TtlOf, TypeOK
<1>3. ASSUME NEW n \in Msg, rows' = RowsWithout(n)
      PROVE  rows'[p] = rows[p] \/ rows'[p] = NoRow
  BY <1>3 DEF RowsWithout, TypeOK
<1>4. CASE Tick
  <2>1. rows'[p] = [rows[p] EXCEPT !.left = LessOne(@)]
    BY <1>4 DEF Tick
  <2> QED BY <1>1, <2>1 DEF Row, LessOne
<1>5. ASSUME NEW n \in Msg, Acquire(n)
      PROVE  /\ rows' = RowsWith(n) /\ phase[n] = "started"
             /\ phase'[n] # "started" /\ attempts'[n] = attempts[n]
  BY <1>5 DEF Acquire, TypeOK
<1>6. ASSUME NEW n \in Msg, InsertFault(n)
      PROVE  /\ rows' = rows \/ rows' = RowsWith(n)
             /\ phase[n] = "started"
             /\ phase'[n] # "started" /\ attempts'[n] = attempts[n]
  BY <1>6 DEF InsertFault, GuardHeld, TypeOK
<1>7. ASSUME NEW n \in Msg, Release(n)
      PROVE  rows' = rows \/ rows' = RowsWithout(n)
  BY <1>7 DEF Release
<1>8. ASSUME NEW n \in Msg, Step(n), ~Acquire(n), ~InsertFault(n), ~Release(n)
      PROVE  UNCHANGED rows
  BY <1>8 DEF Step, Deliver, SkipConsumed, Die, RefuseInsert, Refuse, Settle
<1>9. ASSUME NEW n \in Msg, Acquire(n) \/ InsertFault(n) PROVE Step(n)
  BY <1>9 DEF Step
<1>10. CASE UNCHANGED vars
  BY <1>10, <1>1 DEF vars
<1> QED BY <1>1, <1>2, <1>3, <1>4, <1>5, <1>6, <1>7, <1>8, <1>9, <1>10 DEF Next

\* A message remembers the owner that refuses its first delivery.
LEMMA FirstHeldChange ==
    ASSUME TypeOK, [Next]_vars, NEW m \in Msg
    PROVE  \/ firstHeld'[m] = firstHeld[m]
           \/ firstHeld'[m] = NoAttempt
           \/ phase[m] = "refused" /\ firstHeld'[m] = rows[PrOf[m]].owner
<1>1. CASE Die(m) \/ Release(m)
  BY <1>1 DEF Die, Release, Requeue, TypeOK
<1>2. CASE Refuse(m)
  <2>1. PICK reason : GuardHeld(m, reason)
    BY <1>2 DEF Refuse
  <2> QED BY <1>2, <2>1 DEF Refuse, GuardHeld, TypeOK
<1>3. CASE InsertFault(m)
  BY <1>3 DEF InsertFault, GuardHeld, TypeOK
<1>4. CASE Step(m) /\ ~Die(m) /\ ~Release(m) /\ ~Refuse(m) /\ ~InsertFault(m)
  BY <1>4 DEF Step, Deliver, SkipConsumed, Acquire, RefuseInsert, Settle
<1>5. ASSUME NEW n \in Msg \ {m}, Step(n) PROVE firstHeld'[m] = firstHeld[m]
  BY <1>5, StepFrame
<1>6. CASE Tick \/ UNCHANGED vars
  BY <1>6 DEF Tick, vars
<1> QED BY <1>1, <1>2, <1>3, <1>4, <1>5, <1>6 DEF Next, Step

\* BackoffInv holds at the beginning, and each of its parts is preserved.
LEMMA InitBackoff == Init => BackoffInv
BY MapsAssumption DEF Init, Fresh, NoRow, BackoffInv, OwnersSpent, Spent, LevelsSeen,
                      Schedule, HeldAt, Processing

\* A spent attempt stays spent.
LEMMA SpentStays ==
    ASSUME TypeOK, [Next]_vars, NEW x \in Attempt \cup {NoAttempt}, Spent(x)
    PROVE  Spent(x)'
<1> SUFFICES ASSUME x # NoAttempt
             PROVE  \/ x[2] < attempts'[x[1]]
                    \/ x[2] = attempts'[x[1]] /\ phase'[x[1]] # "started"
  BY DEF Spent
<1>1. x[1] \in Msg /\ x[2] \in Nat
  BY TimesAssumption DEF Attempt
<1>2. attempts[x[1]] \in Nat /\ attempts'[x[1]] \in Nat
  <2>1. TypeOK'
    BY NextType
  <2>2. attempts \in [Msg -> 0..MaxDeliveries] /\ attempts' \in [Msg -> 0..MaxDeliveries]
    BY <2>1 DEF TypeOK
  <2> QED BY <1>1, <2>2, TimesAssumption
<1> QED BY <1>1, <1>2, AttemptsGo DEF Spent

LEMMA NextOwners == TypeOK /\ OwnersSpent /\ [Next]_vars => OwnersSpent'
<1> SUFFICES ASSUME TypeOK, OwnersSpent, [Next]_vars PROVE OwnersSpent'
  OBVIOUS
<1>1. ASSUME NEW p \in PR PROVE Spent(rows[p].owner)'
  <2>1. PICK x \in Attempt \cup {NoAttempt} : x = rows[p].owner
    BY DEF TypeOK, Row
  <2>2. Spent(x)'
    BY <2>1, SpentStays DEF OwnersSpent
  <2>3. CASE rows'[p].owner = x
    BY <2>2, <2>3 DEF Spent
  <2>4. CASE rows'[p] = NoRow
    BY <2>4 DEF Spent, NoRow
  <2>5. ASSUME NEW n \in Msg, phase'[n] # "started", attempts'[n] = attempts[n],
               rows'[p].owner = AttemptId(n)
        PROVE  Spent(rows[p].owner)'
    BY <2>5 DEF Spent, AttemptId
  <2> QED BY <2>1, <2>3, <2>4, <2>5, RowChange
<1>2. ASSUME NEW m \in Msg PROVE Spent(firstHeld[m])'
  <2>1. PICK x \in Attempt \cup {NoAttempt} : x = firstHeld[m]
    BY DEF TypeOK
  <2>2. PICK y \in Attempt \cup {NoAttempt} : y = rows[PrOf[m]].owner
    BY MapsAssumption DEF TypeOK, Row
  <2>3. Spent(x)' /\ Spent(y)'
    BY <2>1, <2>2, SpentStays, MapsAssumption DEF OwnersSpent
  <2>4. firstHeld'[m] \in {x, y, NoAttempt}
    BY <2>1, <2>2, FirstHeldChange
  <2> QED BY <2>3, <2>4 DEF Spent
<1> QED BY <1>1, <1>2 DEF OwnersSpent

LEMMA NextLevels == TypeOK /\ LevelsSeen /\ [Next]_vars => LevelsSeen'
<1> SUFFICES ASSUME TypeOK, LevelsSeen, [Next]_vars PROVE LevelsSeen'
  OBVIOUS
<1>1. ASSUME NEW m \in Msg, phase'[m] \in Processing
      PROVE  level'[m] \in seen'[PrOf[m]]
  <2>1. CASE Deliver(m)
    <3>1. PICK l \in Level : /\ level' = [level EXCEPT ![m] = l]
                             /\ seen' = [seen EXCEPT ![PrOf[m]] = @ \cup {l}]
      BY <2>1 DEF Deliver
    <3> QED BY <3>1, MapsAssumption DEF TypeOK
  <2>2. CASE Acquire(m) \/ RefuseInsert(m) \/ Settle(m)
    BY <2>2 DEF Acquire, RefuseInsert, Settle, LevelsSeen, Processing
  <2>3. ~SkipConsumed(m)
    BY <1>1 DEF SkipConsumed, TypeOK, Processing
  <2>4. ~Die(m)
    BY <1>1, RequeueType DEF Die
  <2>5. ~Refuse(m) /\ ~InsertFault(m)
    BY <1>1, GuardHeldType DEF Refuse, InsertFault, Processing
  <2>6. ~Release(m)
    BY <1>1, RequeueType DEF Release, TypeOK, Processing
  <2>7. ASSUME NEW n \in Msg \ {m}, Step(n)
        PROVE  phase'[m] = phase[m] /\ level'[m] = level[m]
    BY <2>7, StepFrame
  <2>8. CASE Tick \/ UNCHANGED vars
    BY <1>1, <2>8 DEF Tick, vars, LevelsSeen
  <2>9. seen[PrOf[m]] \subseteq seen'[PrOf[m]]
    BY SeenGrows, MapsAssumption
  <2>10. ASSUME NEW n \in Msg \ {m}, Step(n) PROVE level'[m] \in seen'[PrOf[m]]
    BY <1>1, <2>7, <2>9, <2>10 DEF LevelsSeen
  <2> QED BY <2>1, <2>2, <2>3, <2>4, <2>5, <2>6, <2>8, <2>10 DEF Next, Step
<1>2. ASSUME NEW m \in Msg, firstHeld'[m] # NoAttempt PROVE seen'[PrOf[m]] # {}
  <2>1. firstHeld[m] # NoAttempt \/ phase[m] \in Processing
    BY <1>2, FirstHeldChange DEF Processing
  <2> QED BY <2>1, SeenGrows, MapsAssumption DEF LevelsSeen
<1>3. ASSUME NEW p \in PR, rows'[p].left # 0
      PROVE  \E l \in seen'[p] : rows'[p].left <= Ttl[l]
  <2>1. seen[p] \subseteq seen'[p] /\ seen[p] \subseteq Level
    BY SeenGrows DEF TypeOK
  <2>2. rows[p].left \in Nat /\ rows'[p].left \in Nat
    BY NextType DEF TypeOK, Row
  <2>3. CASE rows'[p].left <= rows[p].left
    <3>1. PICK l \in seen[p] : rows[p].left <= Ttl[l]
      BY <1>3, <2>2, <2>3 DEF LevelsSeen
    <3> QED BY <2>1, <2>2, <2>3, <3>1, TimesAssumption
  <2>4. ASSUME NEW n \in Msg, PrOf[n] = p, phase[n] = "started",
               rows'[p].left = Ttl[level[n]]
        PROVE  \E l \in seen'[p] : rows'[p].left <= Ttl[l]
    <3>1. level[n] \in seen'[p] /\ Ttl[level[n]] \in Nat
      BY <2>1, <2>4, TimesAssumption DEF LevelsSeen, Processing
    <3> QED BY <2>4, <3>1
  <2> QED BY <1>3, <2>3, <2>4, RowChange DEF NoRow
<1> QED BY <1>1, <1>2, <1>3 DEF LevelsSeen

\* One pull request read at one level has no row that outlives that level.
LEMMA RowWithinTtl ==
    ASSUME TypeOK, LevelsSeen, NEW p \in PR, NEW l \in Level, seen[p] = {l}
    PROVE  rows[p].left <= Ttl[l]
<1>1. rows[p].left \in Nat /\ Ttl[l] \in Nat
  BY TimesAssumption DEF TypeOK, Row
<1>2. rows[p].left = 0 \/ rows[p].left <= Ttl[l]
  BY DEF LevelsSeen
<1> QED BY <1>1, <1>2

\* Whatever a step does, a message that is held afterwards and was not just
\* refused for the first time was held before, by a row that has not grown.
LEMMA HeldBefore ==
    ASSUME TypeOK, BackoffInv, [Next]_vars, NEW m \in Msg, NEW l \in Level,
           HeldAt(m, l)', firstHeld'[m] = firstHeld[m]
    PROVE  HeldAt(m, l) /\ rows'[PrOf[m]].left <= rows[PrOf[m]].left
<1>1. PrOf[m] \in PR
  BY MapsAssumption
<1>2. seen[PrOf[m]] = {l}
  BY <1>1, SeenGrows DEF BackoffInv, LevelsSeen, HeldAt
<1>3. rows'[PrOf[m]] # NoRow
  BY DEF HeldAt, NoRow
<1>4. ASSUME NEW n \in Msg, phase[n] = "started", rows'[PrOf[m]].owner = AttemptId(n)
      PROVE  FALSE
  <2>1. firstHeld[m] = <<n, attempts[n]>> /\ firstHeld[m] # NoAttempt
    BY <1>4 DEF HeldAt, AttemptId
  <2>2. Spent(firstHeld[m])
    BY DEF BackoffInv, OwnersSpent
  <2>3. attempts[n] \in Nat
    BY TimesAssumption DEF TypeOK
  <2> QED BY <1>4, <2>1, <2>2, <2>3 DEF Spent
<1>5. /\ rows'[PrOf[m]].owner = rows[PrOf[m]].owner
      /\ rows'[PrOf[m]].left <= rows[PrOf[m]].left
  BY <1>1, <1>3, <1>4, RowChange
<1> QED BY <1>2, <1>5 DEF HeldAt

\* Being refused starts the schedule or moves it on by the delay of this
\* delivery, and the row has no more left than the delays still to come.
LEMMA RefusalOutlasts ==
    ASSUME TypeOK, BackoffInv, [Next]_vars, NEW m \in Msg, NEW l \in Level,
           Refuse(m), HeldAt(m, l)'
    PROVE  Outlasts(m, l)'
<1> USE DEF BackoffInv
<1>1. /\ phase[m] = "refused" /\ UNCHANGED <<seen, attempts, rows>>
      /\ phase[m] \in Processing /\ PrOf[m] \in PR
  BY MapsAssumption DEF Refuse, Processing
<1>2. PICK reason : GuardHeld(m, reason)
  BY DEF Refuse
<1>3. seen[PrOf[m]] = {l} /\ level[m] = l
  BY <1>1 DEF HeldAt, LevelsSeen
<1>4. attempts[m] \in 1..MaxDeliveries
  BY <1>1 DEF TypeOK
<1>5. CASE attempts[m] < MaxDeliveries
  <2>1. attempts[m] \in 1..(MaxDeliveries - 1) /\ MaxDeliveries \in Nat
    BY <1>4, <1>5, TimesAssumption
  <2>2. phase'[m] = "queued" /\ wait'[m] = Delay[l][attempts[m]]
    BY <1>2, <1>3, <1>5 DEF GuardHeld, DelayOf, TypeOK
  <2>3. firstHeld'[m] = IF attempts[m] = 1 THEN rows[PrOf[m]].owner ELSE firstHeld[m]
    BY <1>2, <1>5 DEF GuardHeld, TypeOK, HeldAt
  <2>4. rows[PrOf[m]].left <= Rest[l][attempts[m]]
    <3>1. CASE attempts[m] = 1
      BY <1>1, <1>3, <3>1, RowWithinTtl, RestCovers
    <3>2. CASE attempts[m] # 1
      BY <1>1, <1>3, <2>3, <3>2 DEF HeldAt, Schedule, Outlasts
    <3> QED BY <3>1, <3>2
  <2>5. Rest[l][attempts[m]] <= Delay[l][attempts[m]] + Rest[l][attempts[m] + 1]
    BY <2>1, RestCovers
  <2>6. /\ rows[PrOf[m]].left \in Nat
        /\ Rest[l][attempts[m]] \in Nat /\ Rest[l][attempts[m] + 1] \in Nat
        /\ Delay[l][attempts[m]] \in Nat
    <3>1. rows[PrOf[m]].left \in Nat
      BY <1>1 DEF TypeOK, Row
    <3>2. Delay[l][attempts[m]] \in Nat
      BY <2>1, TimesAssumption
    <3>3. attempts[m] \in 1..MaxDeliveries /\ attempts[m] + 1 \in 1..MaxDeliveries
      BY <2>1
    <3>4. \A k \in 1..MaxDeliveries : Rest[l][k] \in Nat
      BY RestCovers, TimesAssumption
    <3> QED BY <3>1, <3>2, <3>3, <3>4
  <2>7. rows[PrOf[m]].left <= wait'[m] + Rest[l][attempts[m] + 1]
    BY <2>2, <2>4, <2>5, <2>6
  <2> QED BY <1>1, <2>2, <2>7 DEF Outlasts, Processing
<1>6. CASE ~(attempts[m] < MaxDeliveries)
  BY <1>2, <1>6 DEF GuardHeld, TypeOK, Outlasts, Processing
<1> QED BY <1>5, <1>6

LEMMA NextSchedule == TypeOK /\ BackoffInv /\ [Next]_vars => Schedule'
<1> SUFFICES ASSUME TypeOK, BackoffInv, [Next]_vars,
                    NEW m \in Msg, NEW l \in Level, HeldAt(m, l)'
             PROVE  Outlasts(m, l)'
  BY DEF Schedule
<1>1. CASE Refuse(m)
  BY <1>1, RefusalOutlasts
<1>2. CASE firstHeld'[m] # firstHeld[m] /\ ~Refuse(m)
  <2>1. phase[m] = "refused"
    BY <1>2, FirstHeldChange DEF HeldAt
  <2>2. ASSUME NEW n \in Msg \ {m}, Step(n) PROVE FALSE
    BY <1>2, <2>2, StepFrame
  <2>3. ~Tick /\ ~UNCHANGED vars
    BY <1>2 DEF Tick, vars
  <2>4. Die(m)
    BY <1>2, <2>1, <2>2, <2>3
       DEF Next, Step, Deliver, Deliverable, SkipConsumed, Acquire, RefuseInsert,
           InsertFault, Settle, Release
  <2>5. firstHeld'[m] = NoAttempt
    BY <2>4 DEF Die, Requeue, TypeOK
  <2> QED BY <2>5 DEF HeldAt
<1>3. CASE firstHeld'[m] = firstHeld[m] /\ ~Refuse(m)
  <2>1. /\ HeldAt(m, l) /\ Outlasts(m, l)
        /\ rows'[PrOf[m]].left <= rows[PrOf[m]].left
    BY <1>3, HeldBefore DEF BackoffInv, Schedule
  <2>2. /\ rows[PrOf[m]].left \in Nat /\ rows'[PrOf[m]].left \in Nat
        /\ wait[m] \in Nat /\ attempts[m] \in 0..MaxDeliveries
    BY NextType, MapsAssumption DEF TypeOK, Row
  <2>3. \A k \in 1..MaxDeliveries : Rest[l][k] \in Nat
    BY RestCovers, TimesAssumption
  <2>4. phase[m] = "queued" => attempts[m] + 1 \in 1..MaxDeliveries
    BY TimesAssumption DEF TypeOK
  <2>5. phase[m] \in Processing => attempts[m] \in 1..MaxDeliveries
    BY DEF TypeOK
  <2>6. ASSUME phase'[m] = phase[m], attempts'[m] = attempts[m], wait'[m] = wait[m]
        PROVE  Outlasts(m, l)'
    BY <2>1, <2>2, <2>3, <2>4, <2>5, <2>6 DEF Outlasts
  <2>7. CASE Tick
    <3>1. /\ wait'[m] = LessOne(wait[m]) /\ phase'[m] = phase[m]
          /\ attempts'[m] = attempts[m]
          /\ rows'[PrOf[m]].left = LessOne(rows[PrOf[m]].left)
      BY <2>7, MapsAssumption DEF Tick, TypeOK, Row
    <3> QED BY <2>1, <2>2, <2>3, <2>4, <2>5, <3>1 DEF Outlasts, LessOne
  <2>8. CASE Deliver(m)
    <3>1. /\ phase[m] = "queued" /\ wait[m] = 0 /\ phase'[m] = "started"
          /\ attempts'[m] = attempts[m] + 1
      BY <2>8 DEF Deliver, Deliverable, TypeOK
    <3> QED BY <2>1, <2>2, <2>3, <2>4, <3>1 DEF Outlasts
  <2>9. CASE Acquire(m)
    <3>1. phase[m] = "started" /\ rows'[PrOf[m]].owner = AttemptId(m)
      BY <2>9, MapsAssumption DEF Acquire, RowsWith, TypeOK
    <3>2. firstHeld[m] = <<m, attempts[m]>> /\ Spent(firstHeld[m])
      BY <1>3, <3>1 DEF HeldAt, AttemptId, BackoffInv, OwnersSpent
    <3> QED BY <2>1, <2>2, <3>1, <3>2 DEF Spent, HeldAt
  <2>10. CASE RefuseInsert(m) \/ Settle(m)
    <3>1. /\ phase[m] \in Processing /\ attempts'[m] = attempts[m]
          /\ phase'[m] # "queued"
      BY <2>10 DEF RefuseInsert, Settle, Processing, TypeOK
    <3> QED BY <2>1, <2>2, <2>3, <2>5, <3>1 DEF Outlasts
  <2>11. CASE SkipConsumed(m)
    BY <2>11 DEF SkipConsumed, TypeOK, Outlasts, Processing
  <2>12. CASE Requeue(m)
    BY <2>1, <1>3, <2>12 DEF Requeue, TypeOK, HeldAt
  <2>13. CASE InsertFault(m)
    <3>1. CASE attempts[m] < MaxDeliveries
      BY <1>3, <2>1, <2>13, <3>1 DEF InsertFault, GuardHeld, TypeOK, HeldAt
    <3>2. CASE ~(attempts[m] < MaxDeliveries)
      BY <2>13, <3>2 DEF InsertFault, GuardHeld, TypeOK, Outlasts, Processing
    <3> QED BY <3>1, <3>2
  <2>14. CASE Release(m) /\ ~Requeue(m)
    BY <2>14 DEF Release, TypeOK, Outlasts, Processing
  <2>15. ASSUME NEW n \in Msg \ {m}, Step(n) PROVE Outlasts(m, l)'
    BY <2>6, <2>15, StepFrame
  <2>16. CASE UNCHANGED vars
    BY <2>6, <2>16 DEF vars
  <2>17. Die(m) => Requeue(m)
    BY DEF Die
  <2> QED BY <1>3, <2>7, <2>8, <2>9, <2>10, <2>11, <2>12, <2>13, <2>14, <2>15,
             <2>16, <2>17 DEF Next, Step
<1> QED BY <1>1, <1>2, <1>3

\* With the types and the lock, BackoffInv is an invariant.
LEMMA BackoffInvHolds == Spec => [](TypeOK /\ BackoffInv)
<1>1. TypeOK /\ BackoffInv /\ [Next]_vars => (TypeOK /\ BackoffInv)'
  BY NextType, NextOwners, NextLevels, NextSchedule DEF BackoffInv
<1> QED BY <1>1, InitType, InitBackoff, PTL DEF Spec

\* At its last delivery a message has no delays left, and neither has the
\* row that held it first.
LEMMA ScheduleImpliesFirstHolder == TypeOK /\ BackoffInv => FirstHolder
<1> SUFFICES ASSUME TypeOK, BackoffInv, NEW m \in Msg, NEW l \in Level,
                    seen[PrOf[m]] = {l}, phase[m] = "refused",
                    attempts[m] = MaxDeliveries, firstHeld[m] # NoAttempt,
                    rows[PrOf[m]].owner = firstHeld[m]
             PROVE  ~Live(PrOf[m])
  BY DEF FirstHolder
<1>1. rows[PrOf[m]].left <= Rest[l][MaxDeliveries]
  BY DEF BackoffInv, Schedule, HeldAt, Outlasts, Processing
<1>2. rows[PrOf[m]].left \in Nat
  BY MapsAssumption DEF TypeOK, Row
<1> QED BY <1>1, <1>2, RestCovers DEF Live

\* The backoff outlasts the row that held a message first, for any number of
\* messages and deliveries and any times for which the delays of each level
\* cover its ttl.
THEOREM FirstHolderHolds == Spec => []FirstHolder
BY BackoffInvHolds, ScheduleImpliesFirstHolder, PTL
=============================================================================
