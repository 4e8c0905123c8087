--------------------------- MODULE CommentProofs ---------------------------
(***************************************************************************)
(* Proofs about CommentClaims: when a send that throws has left nothing in *)
(* the queue and is over before the outbox looks, the three writers of the *)
(* claim implement CommentOnce.                                            *)
(*                                                                         *)
(* The argument: nobody but its own delivery knows of a claim while that   *)
(* delivery is sending it, so the unconditional DELETE after a failed send *)
(* can only hit a claim that no message and no sweep carries.              *)
(***************************************************************************)
EXTENDS CommentClaims, TLAPS

\* The condition under which the claim keeps its promise.
CleanSends == SendFault \subseteq {"lost"}

InSend(w) == hook[w] \in {"sending", "deleting"}

\* Neither the queue nor a running sweep carries comment c.
Unknown(c) ==
    /\ \A i \in Slot : at[i] # "free" => of[i] # c
    /\ c \notin todo
    /\ sent # c

ClaimInv ==
    /\ \A c \in Comment : state[c] # "consumed" => runs[c] = 0
    /\ \A c \in Comment : state[c] = "absent" => Unknown(c)
    /\ \A w \in Hook : InSend(w) =>
         /\ state[CommentOf[w]] = "queued"
         /\ attempts[CommentOf[w]] = 0
         /\ ~stale[CommentOf[w]]
         /\ Unknown(CommentOf[w])
    /\ \A v, w \in Hook :
         InSend(v) /\ InSend(w) /\ CommentOf[v] = CommentOf[w] => v = w

CInv == TypeOK /\ ClaimInv

-----------------------------------------------------------------------------
(* Type correctness.                                                       *)

\* The part of TypeOK about the queue.
QueueOK ==
    /\ at \in [Slot -> {"free", "queued", "running"}]
    /\ of \in [Slot -> Comment \cup {NoComment}]
    /\ tries \in [Slot -> 0..MaxDeliveries]
    /\ \A i \in Slot : /\ at[i] # "free" => of[i] \in Comment
                       /\ at[i] = "queued" => tries[i] < MaxDeliveries
    /\ held \in [Slot -> {"no", "pr-held", "cap"}]

\* A new message keeps the queue well typed.
LEMMA EnqueueType ==
    ASSUME QueueOK, NEW i \in Slot, NEW c \in Comment, Enqueue(c, i)
    PROVE  QueueOK'
BY ClaimsAssumption DEF QueueOK, Enqueue

\* So does a message that leaves.
LEMMA LeavesType ==
    ASSUME QueueOK, NEW i \in Slot, Leaves(i)
    PROVE  QueueOK'
BY ClaimsAssumption DEF QueueOK, Leaves

\* And one whose delivery throws.
LEMMA ThrowsType ==
    ASSUME QueueOK, NEW i \in Slot, at[i] # "free", NEW n \in Nat, Throws(i, n)
    PROVE  QueueOK'
<1>1. CASE n < MaxDeliveries
  BY <1>1, ClaimsAssumption DEF QueueOK, Throws
<1>2. CASE ~(n < MaxDeliveries)
  BY <1>2, LeavesType DEF Throws
<1> QED BY <1>1, <1>2

LEMMA InitTypeC == Init => TypeOK
BY ClaimsAssumption DEF Init, TypeOK

LEMMA NextTypeC == TypeOK /\ [Next]_vars => TypeOK'
<1> SUFFICES ASSUME TypeOK, [Next]_vars PROVE TypeOK'
  OBVIOUS
<1>q. QueueOK
  BY DEF TypeOK, QueueOK
<1>c. ASSUME QueueOK',
             state' \in [Comment -> {"absent", "queued"} \cup Terminal],
             attempts' \in [Comment -> Nat],
             stale' \in [Comment -> BOOLEAN],
             kv' \subseteq Comment,
             hook' \in [Hook -> {"idle", "claiming", "sending", "deleting",
                                "stamping", "ended"}],
             todo' \subseteq Comment,
             sent' \in Comment \cup {NoComment},
             runs' \in [Comment -> Nat],
             traced' \subseteq Comment
      PROVE  TypeOK'
  BY <1>c DEF TypeOK, QueueOK
<1>1. ASSUME NEW w \in Hook, HookStep(w) PROVE TypeOK'
  <2>1. CommentOf[w] \in Comment
    BY ClaimsAssumption
  <2>2. QueueOK'
    BY <1>1, <1>q, <2>1, EnqueueType
       DEF HookStep, PreCheck, Claim, ClaimFault, SendOk, SendFails,
           Delete, Stamp, HookDies, queue, QueueOK
  <2>3. /\ state' \in [Comment -> {"absent", "queued"} \cup Terminal]
        /\ attempts' \in [Comment -> Nat]
        /\ stale' \in [Comment -> BOOLEAN]
    <3>1. \/ InsertClaim(CommentOf[w])
          \/ Delete(w)
          \/ UNCHANGED claims
      BY <1>1
         DEF HookStep, PreCheck, Claim, ClaimFault, SendOk, SendFails, Stamp, HookDies
    <3>2. CASE InsertClaim(CommentOf[w])
      BY <2>1, <3>2 DEF InsertClaim, TypeOK
    <3>3. CASE Delete(w)
      BY <2>1, <3>3 DEF Delete, TypeOK
    <3>4. CASE UNCHANGED claims
      BY <3>4 DEF claims, TypeOK
    <3> QED BY <3>1, <3>2, <3>3, <3>4
  <2>4. /\ kv' \subseteq Comment
        /\ hook' \in [Hook -> {"idle", "claiming", "sending", "deleting",
                               "stamping", "ended"}]
    BY <1>1, <2>1
       DEF HookStep, PreCheck, Claim, ClaimFault, SendOk, SendFails, Delete, Stamp, HookDies, Goto, TypeOK
  <2>5. /\ todo' = todo /\ sent' = sent /\ runs' = runs /\ traced' = traced
    BY <1>1
       DEF HookStep, PreCheck, Claim, ClaimFault, SendOk, SendFails, Delete, Stamp, HookDies, sweep
  <2> QED BY <1>c, <2>2, <2>3, <2>4, <2>5 DEF TypeOK
<1>2. CASE SweepStart
  <2>1. state' \in [Comment -> {"absent", "queued"} \cup Terminal]
    BY <1>2 DEF SweepStart, TypeOK, Terminal
  <2>2. todo' \subseteq Comment
    BY <1>2 DEF SweepStart, Resendable
  <2> QED BY <1>2, <1>c, <1>q, <2>1, <2>2 DEF SweepStart, TypeOK, queue, QueueOK
<1>3. ASSUME NEW c \in Comment, SweepSend(c) PROVE TypeOK'
  <2>1. QueueOK'
    BY <1>3, <1>q, EnqueueType DEF SweepSend, queue, QueueOK
  <2> QED BY <1>3, <1>c, <2>1 DEF SweepSend, TypeOK, claims
<1>4. ASSUME NEW c \in Comment, SweepCount(c) PROVE TypeOK'
  <2>1. attempts' \in [Comment -> Nat] /\ stale' \in [Comment -> BOOLEAN]
    <3>1. CASE state[c] = "queued"
      <4>1. /\ attempts' = [attempts EXCEPT ![c] = attempts[c] + 1]
            /\ stale' = [stale EXCEPT ![c] = FALSE]
        BY <1>4, <3>1 DEF SweepCount
      <4>2. attempts[c] + 1 \in Nat
        BY DEF TypeOK
      <4>3. attempts' \in [Comment -> Nat]
        BY <4>1, <4>2 DEF TypeOK
      <4>4. stale' \in [Comment -> BOOLEAN]
        BY <4>1, Zenon DEF TypeOK
      <4> QED BY <4>3, <4>4
    <3>2. CASE state[c] # "queued"
      BY <1>4, <3>2 DEF SweepCount, TypeOK
    <3> QED BY <3>1, <3>2
  <2> QED BY <1>4, <1>c, <1>q, <2>1 DEF SweepCount, TypeOK, queue, QueueOK
<1>5. CASE SweepDies
  BY <1>5 DEF SweepDies, TypeOK, claims, queue
<1>6. ASSUME NEW i \in Slot, Consumer(i) PROVE TypeOK'
  <2>0. at[i] # "free" /\ of[i] \in Comment /\ tries[i] \in Nat
    BY <1>6, ClaimsAssumption
       DEF Consumer, Consume, AckClaimed, ConsumeFault, RunEnds, RunThrows, RunHeld, TypeOK
  <2>1. CASE Consume(i)
    <3>1. QueueOK'
      BY <2>1, <1>q, ClaimsAssumption DEF Consume, QueueOK
    <3>2. /\ state' \in [Comment -> {"absent", "queued"} \cup Terminal]
          /\ runs' \in [Comment -> Nat]
      BY <2>0, <2>1 DEF Consume, Consumed, Terminal, TypeOK
    <3> QED BY <2>1, <1>c, <3>1, <3>2 DEF Consume, TypeOK, sweep
  <2>2. CASE AckClaimed(i) \/ RunEnds(i)
    BY <2>2, <1>c, <1>q, LeavesType DEF AckClaimed, RunEnds, TypeOK, claims, sweep
  <2>3. CASE ConsumeFault(i)
    <3>1. QueueOK'
      BY <2>0, <2>3, <1>q, ThrowsType DEF ConsumeFault
    <3>2. state' \in [Comment -> {"absent", "queued"} \cup Terminal]
      BY <2>0, <2>3 DEF ConsumeFault, Consumed, Terminal, TypeOK
    <3> QED BY <2>3, <1>c, <3>1, <3>2 DEF ConsumeFault, TypeOK, sweep
  <2>4. CASE RunThrows(i)
    <3>1. QueueOK'
      BY <2>0, <2>4, <1>q, ThrowsType DEF RunThrows
    <3> QED BY <2>4, <1>c, <3>1 DEF RunThrows, TypeOK, claims, sweep
  <2>5. CASE RunHeld(i)
    <3>1. QueueOK' /\ traced' \subseteq Comment
      <4>1. CASE tries[i] < MaxDeliveries
        BY <2>5, <4>1, <1>q DEF RunHeld, QueueOK, TypeOK
      <4>2. CASE ~(tries[i] < MaxDeliveries)
        BY <2>0, <2>5, <4>2, <1>q, LeavesType DEF RunHeld, TypeOK
      <4> QED BY <4>1, <4>2
    <3> QED BY <2>5, <1>c, <3>1 DEF RunHeld, TypeOK, claims, sweep
  <2> QED BY <1>6, <2>1, <2>2, <2>3, <2>4, <2>5 DEF Consumer
<1>7. ASSUME NEW i \in Slot, Duplicate(i) PROVE TypeOK'
  <2>1. of[i] \in Comment
    BY <1>7 DEF Duplicate, TypeOK
  <2>2. QueueOK'
    BY <1>7, <1>q, <2>1, EnqueueType DEF Duplicate
  <2> QED BY <1>7, <1>c, <2>2 DEF Duplicate, TypeOK, claims, sweep
<1>8. ASSUME NEW c \in Comment, Elapse(c) \/ Lapse(c) PROVE TypeOK'
  <2>1. stale' \in [Comment -> BOOLEAN] /\ kv' \subseteq Comment
    BY <1>8 DEF Elapse, Lapse, TypeOK, claims
  <2>2. /\ state' = state /\ attempts' = attempts /\ hook' = hook
        /\ todo' = todo /\ sent' = sent /\ runs' = runs /\ traced' = traced
        /\ at' = at /\ of' = of /\ tries' = tries /\ held' = held
    BY <1>8 DEF Elapse, Lapse, claims, sweep, queue
  <2> QED BY <2>1, <2>2 DEF TypeOK
<1>9. CASE UNCHANGED vars
  BY <1>9 DEF vars, TypeOK
<1> QED
  BY <1>1, <1>2, <1>3, <1>4, <1>5, <1>6, <1>7, <1>8, <1>9
     DEF Next, SweepStep, AtRest

\* Every reachable state of the claims is well typed.
THEOREM CommentClaimsType == Spec => []TypeOK
BY InitTypeC, NextTypeC, PTL DEF Spec

-----------------------------------------------------------------------------
(* The claim under clean sends.                                            *)

LEMMA InitClaim == Init => ClaimInv
BY ClaimsAssumption DEF Init, ClaimInv, Unknown, InSend

\* A comment that was unknown stays so when no message of it is added and no
\* sweep picks it.
LEMMA UnknownStays ==
    ASSUME NEW c, Unknown(c),
           \A i \in Slot : at'[i] # "free" => of'[i] # c,
           c \notin todo', sent' # c
    PROVE  Unknown(c)'
BY DEF Unknown

\* What a step of the consumer may do to the claims and to the queue.
LEMMA ConsumerEffect ==
    ASSUME TypeOK, NEW i \in Slot, Consumer(i)
    PROVE  /\ at[i] # "free" /\ of[i] \in Comment
           /\ \A j \in Slot : at'[j] # "free" => at[j] # "free" /\ of'[j] = of[j]
           /\ UNCHANGED <<attempts, stale, hook, todo, sent>>
           /\ \/ state' = state /\ runs' = runs
              \/ /\ state[of[i]] = "queued"
                 /\ state' = Consumed(of[i])
                 /\ runs' \in {runs, [runs EXCEPT ![of[i]] = @ + 1]}
<1>1. at[i] # "free" /\ of[i] \in Comment
  BY DEF Consumer, Consume, AckClaimed, ConsumeFault, RunEnds, RunThrows, RunHeld, TypeOK
<1>2. UNCHANGED <<attempts, stale, hook, todo, sent>>
  BY DEF Consumer, Consume, AckClaimed, ConsumeFault, RunEnds, RunThrows, RunHeld,
         claims, sweep
<1>3. \/ state' = state /\ runs' = runs
      \/ /\ state[of[i]] = "queued"
         /\ state' = Consumed(of[i])
         /\ runs' \in {runs, [runs EXCEPT ![of[i]] = @ + 1]}
  BY DEF Consumer, Consume, AckClaimed, ConsumeFault, RunEnds, RunThrows, RunHeld, claims
<1>4. ASSUME Leaves(i) \/ (\E n \in Nat : Throws(i, n)) \/ Consume(i) \/ RunHeld(i),
             NEW j \in Slot, at'[j] # "free"
      PROVE  at[j] # "free" /\ of'[j] = of[j]
  BY <1>1, <1>4 DEF Leaves, Throws, Consume, RunHeld, TypeOK
<1>5. Leaves(i) \/ (\E n \in Nat : Throws(i, n)) \/ Consume(i) \/ RunHeld(i)
  <2>1. tries[i] \in Nat /\ tries[i] + 1 \in Nat
    BY ClaimsAssumption DEF TypeOK
  <2> QED BY <2>1 DEF Consumer, AckClaimed, ConsumeFault, RunEnds, RunThrows
<1> QED BY <1>1, <1>2, <1>3, <1>4, <1>5

\* ClaimInv is inductive when a send that throws leaves nothing behind.
LEMMA NextClaim ==
    ASSUME CleanSends
    PROVE  CInv /\ [Next]_vars => ClaimInv'
<1> SUFFICES ASSUME CInv, [Next]_vars PROVE ClaimInv'
  OBVIOUS
<1> USE DEF CInv
<1>1. ASSUME NEW w \in Hook, HookStep(w) PROVE ClaimInv'
  <2> DEFINE c == CommentOf[w]
  <2>0. c \in Comment
    BY ClaimsAssumption
  <2>1. CASE PreCheck(w) \/ Stamp(w) \/ HookDies(w)
    <3>1. /\ UNCHANGED <<claims, sweep, queue, runs>>
          /\ \A v \in Hook : InSend(v)' => InSend(v)
      BY <2>1 DEF PreCheck, Stamp, HookDies, Goto, InSend, TypeOK
    <3> QED BY <3>1 DEF ClaimInv, Unknown, claims, sweep, queue
  <2>2. CASE Claim(w) \/ ClaimFault(w)
    <3>1. CASE InsertClaim(c)
      <4>1. /\ UNCHANGED <<sweep, queue, runs>>
            /\ hook' = [hook EXCEPT ![w] = hook'[w]]
        BY <2>2 DEF Claim, ClaimFault, Goto, TypeOK
      <4>2. /\ state' = [state EXCEPT ![c] = "queued"]
            /\ attempts' = [attempts EXCEPT ![c] = 0]
            /\ stale' = [stale EXCEPT ![c] = FALSE]
            /\ state[c] = "absent"
        BY <3>1 DEF InsertClaim
      <4>3. \A d : Unknown(d)' <=> Unknown(d)
        BY <4>1 DEF Unknown, sweep, queue
      <4>4. \A v \in Hook : InSend(v) => CommentOf[v] # c
        BY <4>2 DEF ClaimInv
      <4>5. \A v \in Hook \ {w} : InSend(v)' <=> InSend(v)
        BY <4>1 DEF InSend, TypeOK
      <4>6. /\ state'[c] = "queued" /\ attempts'[c] = 0 /\ ~stale'[c]
            /\ Unknown(c) /\ runs'[c] = 0
            /\ \A d \in Comment \ {c} :
                 /\ state'[d] = state[d] /\ attempts'[d] = attempts[d]
                 /\ stale'[d] = stale[d] /\ runs'[d] = runs[d]
        BY ZenonT(30), <2>0, <4>1, <4>2 DEF ClaimInv, TypeOK
      <4>7. \A d \in Comment : /\ state'[d] # "consumed" => runs'[d] = 0
                               /\ state'[d] = "absent" => Unknown(d)'
        BY <4>3, <4>6 DEF ClaimInv
      <4>8. \A v \in Hook : CommentOf[v] \in Comment
        BY ClaimsAssumption
      <4>9. \A v \in Hook : InSend(v)' =>
              /\ state'[CommentOf[v]] = "queued" /\ attempts'[CommentOf[v]] = 0
              /\ ~stale'[CommentOf[v]] /\ Unknown(CommentOf[v])'
        BY <4>3, <4>4, <4>5, <4>6, <4>8 DEF ClaimInv
      <4>10. \A u, v \in Hook :
               InSend(u)' /\ InSend(v)' /\ CommentOf[u] = CommentOf[v] => u = v
        BY <4>4, <4>5 DEF ClaimInv
      <4> QED BY <4>7, <4>9, <4>10 DEF ClaimInv
    <3>2. CASE UNCHANGED claims /\ hook' = [hook EXCEPT ![w] = "ended"]
      <4>1. /\ UNCHANGED <<claims, sweep, queue, runs>>
            /\ \A v \in Hook : InSend(v)' => InSend(v)
        BY <2>2, <3>2 DEF Claim, ClaimFault, InSend, TypeOK
      <4> QED BY <4>1 DEF ClaimInv, Unknown, claims, sweep, queue
    <3> QED BY <2>2, <3>1, <3>2 DEF Claim, ClaimFault, Goto
  <2>3. CASE SendOk(w)
    <3>1. PICK i \in Slot : Enqueue(c, i)
      BY <2>3 DEF SendOk
    <3>2. InSend(w) /\ UNCHANGED <<claims, sweep, runs>>
      BY <2>3 DEF SendOk, InSend
    <3>3. /\ ~InSend(w)'
          /\ \A v \in Hook \ {w} : InSend(v)' <=> InSend(v)
      BY <2>3 DEF SendOk, Goto, InSend, TypeOK
    <3>4. \A d : d # c /\ Unknown(d) => Unknown(d)'
      BY <3>1, <3>2 DEF Enqueue, Unknown, sweep, TypeOK
    <3>5. state[c] = "queued" /\ \A v \in Hook : InSend(v)' => CommentOf[v] # c
      BY <3>2, <3>3 DEF ClaimInv
    <3> QED BY <3>2, <3>3, <3>4, <3>5 DEF ClaimInv, claims
  <2>4. CASE SendFails(w)
    <3>1. /\ UNCHANGED <<claims, sweep, queue, runs>>
          /\ \A v \in Hook : InSend(v)' => InSend(v)
      BY <2>4 DEF SendFails, CleanSends, Goto, InSend, TypeOK
    <3> QED BY <3>1 DEF ClaimInv, Unknown, claims, sweep, queue
  <2>5. CASE Delete(w)
    <3>1. /\ InSend(w) /\ UNCHANGED <<attempts, stale, sweep, queue, runs>>
          /\ state' = [state EXCEPT ![c] = "absent"]
      BY <2>5 DEF Delete, InSend
    <3>2. /\ ~InSend(w)'
          /\ \A v \in Hook \ {w} : InSend(v)' <=> InSend(v)
      BY <2>5 DEF Delete, Goto, InSend, TypeOK
    <3>3. \A d : Unknown(d)' <=> Unknown(d)
      BY <3>1 DEF Unknown, sweep, queue
    <3>4. /\ state[c] = "queued" /\ Unknown(c) /\ runs[c] = 0
          /\ \A v \in Hook : InSend(v)' => CommentOf[v] # c
      BY <2>0, <3>1, <3>2 DEF ClaimInv
    <3>5. /\ state'[c] = "absent"
          /\ \A d \in Comment \ {c} : state'[d] = state[d]
      BY <2>0, <3>1 DEF TypeOK
    <3>6. \A v \in Hook : CommentOf[v] \in Comment
      BY ClaimsAssumption
    <3> QED BY <3>1, <3>2, <3>3, <3>4, <3>5, <3>6 DEF ClaimInv
  <2> QED BY <1>1, <2>1, <2>2, <2>3, <2>4, <2>5 DEF HookStep
<1>2. CASE SweepStart
  <2>1. UNCHANGED <<attempts, stale, hook, queue, runs, sent>> /\ sent = NoComment
    BY <1>2 DEF SweepStart
  <2>2. todo' \subseteq Resendable
    BY <1>2 DEF SweepStart
  <2>3. \A c \in Comment :
          /\ state'[c] = IF c \in Exhausted THEN "expired" ELSE state[c]
          /\ Unknown(c) /\ c \notin Resendable => Unknown(c)'
    BY <1>2, <2>1, <2>2, ClaimsAssumption DEF SweepStart, Unknown, queue
  <2>4. \A w \in Hook : /\ CommentOf[w] \in Comment
                        /\ InSend(w)' <=> InSend(w)
                        /\ InSend(w) => CommentOf[w] \notin Exhausted \cup Resendable
    BY <2>1, ClaimsAssumption DEF ClaimInv, InSend, Exhausted, Resendable
  <2>5. \A c \in Comment : /\ state[c] = "absent" => c \notin Resendable
                           /\ state'[c] # "consumed" => state[c] # "consumed"
                           /\ state'[c] = "absent" => state[c] = "absent"
    BY <2>3 DEF Exhausted, Resendable
  <2> QED BY <2>1, <2>3, <2>4, <2>5 DEF ClaimInv
<1>3. ASSUME NEW c \in Comment, SweepSend(c) PROVE ClaimInv'
  <2>1. UNCHANGED <<claims, hook, runs>> /\ c \in todo
    BY <1>3 DEF SweepSend
  <2>2. /\ todo' = todo \ {c} /\ sent' = c
        /\ UNCHANGED queue \/ \E i \in Slot : Enqueue(c, i)
    BY <1>3 DEF SweepSend
  <2>3. \A d : d # c /\ Unknown(d) => Unknown(d)'
    <3>1. CASE UNCHANGED queue
      BY <2>2, <3>1 DEF Unknown, queue
    <3>2. ASSUME NEW i \in Slot, Enqueue(c, i) PROVE \A d : d # c /\ Unknown(d) => Unknown(d)'
      BY <2>2, <3>2 DEF Unknown, Enqueue, TypeOK
    <3> QED BY <2>2, <3>1, <3>2
  <2>4. ~Unknown(c)
    BY <2>1 DEF Unknown
  <2> QED BY <2>1, <2>3, <2>4 DEF ClaimInv, claims, InSend
<1>4. ASSUME NEW c \in Comment, SweepCount(c) PROVE ClaimInv'
  <2>1. /\ UNCHANGED <<state, hook, todo, queue, runs>> /\ sent = c
        /\ sent' = NoComment
    BY <1>4 DEF SweepCount
  <2>2. \A d \in Comment : Unknown(d) => Unknown(d)'
    BY <2>1, ClaimsAssumption DEF Unknown, queue
  <2>3. \A d \in Comment \ {c} : attempts'[d] = attempts[d] /\ stale'[d] = stale[d]
    <3>1. CASE state[c] = "queued"
      BY <1>4, <3>1 DEF SweepCount, TypeOK
    <3>2. CASE state[c] # "queued"
      BY <1>4, <3>2 DEF SweepCount, TypeOK
    <3> QED BY <3>1, <3>2
  <2>4. \A w \in Hook : /\ CommentOf[w] \in Comment
                        /\ InSend(w)' <=> InSend(w)
                        /\ InSend(w) => CommentOf[w] # c
    BY <2>1, ClaimsAssumption DEF ClaimInv, Unknown, InSend
  <2> QED BY <2>1, <2>2, <2>3, <2>4 DEF ClaimInv
<1>5. CASE SweepDies
  <2>1. /\ UNCHANGED <<claims, hook, queue, runs>>
        /\ todo' = {} /\ sent' = NoComment
    BY <1>5 DEF SweepDies
  <2>2. \A d \in Comment : Unknown(d) => Unknown(d)'
    BY <2>1, ClaimsAssumption DEF Unknown, queue
  <2> QED BY <2>1, <2>2, ClaimsAssumption DEF ClaimInv, claims, InSend
<1>6. ASSUME NEW i \in Slot, Consumer(i) PROVE ClaimInv'
  <2>1. /\ of[i] \in Comment /\ at[i] # "free"
        /\ \A j \in Slot : at'[j] # "free" => at[j] # "free" /\ of'[j] = of[j]
        /\ UNCHANGED <<attempts, stale, hook, todo, sent>>
    BY <1>6, ConsumerEffect
  <2>2. \A d : Unknown(d) => Unknown(d)'
    BY <2>1 DEF Unknown
  <2>3. ~Unknown(of[i])
    BY <2>1 DEF Unknown
  <2>4. \A d \in Comment : /\ state'[d] = state[d] \/ (d = of[i] /\ state'[d] = "consumed")
                           /\ d # of[i] => runs'[d] = runs[d]
                           /\ state'[d] # "consumed" => runs'[d] = runs[d]
    BY <1>6, ConsumerEffect DEF Consumed, TypeOK
  <2>5. \A w \in Hook : /\ CommentOf[w] \in Comment
                        /\ InSend(w)' <=> InSend(w)
                        /\ InSend(w) => CommentOf[w] # of[i]
    BY <2>1, <2>3, ClaimsAssumption DEF ClaimInv, InSend
  <2>6. \A d \in Comment : /\ state'[d] # "consumed" => runs'[d] = 0
                           /\ state'[d] = "absent" => Unknown(d)'
    BY <2>2, <2>4 DEF ClaimInv
  <2> QED BY <2>1, <2>2, <2>4, <2>5, <2>6 DEF ClaimInv
<1>7. ASSUME NEW i \in Slot, Duplicate(i) PROVE ClaimInv'
  <2>1. UNCHANGED <<claims, hook, sweep, runs>> /\ ~Unknown(of[i])
    BY <1>7 DEF Duplicate, Unknown
  <2>2. PICK j \in Slot : Enqueue(of[i], j)
    BY <1>7 DEF Duplicate
  <2>3. \A d : d # of[i] /\ Unknown(d) => Unknown(d)'
    BY <2>1, <2>2 DEF Enqueue, Unknown, sweep, TypeOK
  <2> QED BY <2>1, <2>3 DEF ClaimInv, claims, InSend
<1>8. ASSUME NEW c \in Comment, Elapse(c) \/ Lapse(c) PROVE ClaimInv'
  <2>1. /\ UNCHANGED <<state, attempts, hook, sweep, queue, runs>>
        /\ \A d : Unknown(d)' <=> Unknown(d)
    BY <1>8 DEF Elapse, Lapse, claims, Unknown, sweep, queue
  <2>2. \A w \in Hook : InSend(w) => stale'[CommentOf[w]] = stale[CommentOf[w]]
    <3>1. CASE Lapse(c)
      BY <3>1 DEF Lapse, claims
    <3>2. CASE Elapse(c)
      <4>1. ~Sending(c) /\ stale' = [stale EXCEPT ![c] = TRUE]
        BY <3>2 DEF Elapse, CleanSends
      <4>2. \A w \in Hook : InSend(w) => CommentOf[w] # c
        BY <4>1 DEF Sending, InSend
      <4> QED BY <4>1, <4>2, ClaimsAssumption DEF TypeOK
    <3> QED BY <1>8, <3>1, <3>2
  <2> QED BY <2>1, <2>2 DEF ClaimInv, InSend
<1>9. CASE UNCHANGED vars
  BY <1>9 DEF vars, ClaimInv, Unknown, InSend
<1> QED
  BY <1>1, <1>2, <1>3, <1>4, <1>5, <1>6, <1>7, <1>8, <1>9
     DEF Next, SweepStep, AtRest

\* Under clean sends the claim's invariant holds in every reachable state.
LEMMA CInvHolds ==
    ASSUME CleanSends
    PROVE  Spec => []CInv
<1>1. Init => CInv
  BY InitTypeC, InitClaim DEF CInv
<1>2. CInv /\ [Next]_vars => CInv'
  BY NextTypeC, NextClaim DEF CInv
<1> QED BY <1>1, <1>2, PTL DEF Spec

\* An expired claim has started no review, for any number of comments,
\* deliveries, messages and re-sends.
THEOREM ExpiredNeverRanHolds ==
    ASSUME CleanSends
    PROVE  Spec => []ExpiredNeverRan
<1>1. CInv => ExpiredNeverRan
  BY DEF CInv, ClaimInv, ExpiredNeverRan
<1> QED BY <1>1, CInvHolds, PTL

-----------------------------------------------------------------------------
(* The refinement of CommentOnce.                                          *)

LEMMA InitOnce == Init => Once!Init
BY DEF Init, Once!Init, Settled, Terminal

\* A step that neither touches a terminal row nor starts a review is a step
\* of CommentOnce that gives up the claims it settles.
LEMMA GivesUp ==
    ASSUME TypeOK, runs' = runs,
           \A c \in Comment : state[c] \in Terminal => state'[c] \in Terminal
    PROVE  [Once!Next]_<<Settled, runs>>
<1> DEFINE S == Settled' \ Settled
<1>1. S \in SUBSET Comment /\ S \cap Settled = {} /\ Settled' = Settled \cup S
  BY DEF Settled
<1>2. Once!GiveUp(S)
  BY <1>1 DEF Once!GiveUp
<1> QED BY <1>1, <1>2 DEF Once!Next

\* Every step is one of CommentOnce or leaves its variables alone.
LEMMA StepOnce ==
    ASSUME CleanSends
    PROVE  CInv /\ [Next]_vars => [Once!Next]_<<Settled, runs>>
<1> SUFFICES ASSUME CInv, [Next]_vars PROVE [Once!Next]_<<Settled, runs>>
  OBVIOUS
<1> USE DEF CInv
<1>1. ASSUME NEW w \in Hook, HookStep(w) PROVE [Once!Next]_<<Settled, runs>>
  <2>1. runs' = runs
    BY <1>1 DEF HookStep, PreCheck, Claim, ClaimFault, SendOk, SendFails, Delete, Stamp, HookDies
  <2>2. \A c \in Comment : state[c] \in Terminal => state'[c] \in Terminal
    <3>1. CommentOf[w] \in Comment
      BY ClaimsAssumption
    <3>2. CASE Delete(w)
      BY <3>1, <3>2 DEF Delete, InSend, ClaimInv, Terminal, TypeOK
    <3>3. CASE InsertClaim(CommentOf[w])
      BY <3>1, <3>3 DEF InsertClaim, Terminal, TypeOK
    <3>4. CASE UNCHANGED claims
      BY <3>4 DEF claims
    <3> QED BY <1>1, <3>2, <3>3, <3>4
            DEF HookStep, PreCheck, Claim, ClaimFault, SendOk, SendFails, Stamp, HookDies
  <2> QED BY <2>1, <2>2, GivesUp
<1>2. CASE SweepStart
  BY <1>2, GivesUp DEF SweepStart, Terminal
<1>3. ASSUME NEW c \in Comment, SweepSend(c) \/ SweepCount(c)
      PROVE  [Once!Next]_<<Settled, runs>>
  BY <1>3, GivesUp DEF SweepSend, SweepCount, claims
<1>4. CASE SweepDies
  BY <1>4, GivesUp DEF SweepDies, claims
<1>5. ASSUME NEW i \in Slot, Consumer(i) PROVE [Once!Next]_<<Settled, runs>>
  <2> DEFINE c == of[i]
  <2>1. c \in Comment
    BY <1>5, ConsumerEffect
  <2>2. CASE state' = state /\ runs' = runs
    BY <2>2, GivesUp
  <2>3. CASE state[c] = "queued" /\ state' = Consumed(c) /\ runs' = runs
    BY <2>1, <2>3, GivesUp DEF Consumed, Terminal, TypeOK
  <2>4. CASE /\ state[c] = "queued" /\ state' = Consumed(c)
             /\ runs' = [runs EXCEPT ![c] = @ + 1]
    <3>1. c \notin Settled /\ Settled' = Settled \cup {c}
      BY <2>1, <2>4 DEF Settled, Consumed, Terminal, TypeOK
    <3>2. Once!Run(c)
      BY <2>4, <3>1 DEF Once!Run
    <3> QED BY <2>1, <3>2 DEF Once!Next
  <2> QED BY <1>5, <2>2, <2>3, <2>4, ConsumerEffect
<1>6. ASSUME NEW i \in Slot, Duplicate(i) PROVE [Once!Next]_<<Settled, runs>>
  BY <1>6, GivesUp DEF Duplicate, claims
<1>7. ASSUME NEW c \in Comment, Elapse(c) \/ Lapse(c)
      PROVE  [Once!Next]_<<Settled, runs>>
  BY <1>7, GivesUp DEF Elapse, Lapse, claims
<1>8. CASE UNCHANGED vars
  BY <1>8, GivesUp DEF vars
<1> QED
  BY <1>1, <1>2, <1>3, <1>4, <1>5, <1>6, <1>7, <1>8
     DEF Next, SweepStep, AtRest

\* The claim implements "at most one review per comment, settled for good"
\* for every interleaving of webhook deliveries, sweeps and consumers.
THEOREM ClaimsImplementOnce ==
    ASSUME CleanSends
    PROVE  Spec => StartsAtMostOnce
<1>1. Spec => Once!Init
  BY InitOnce DEF Spec
<1> QED BY <1>1, StepOnce, CInvHolds, PTL DEF Spec, StartsAtMostOnce, Once!Spec
=============================================================================
