-------------------------- MODULE AppConfigProofs --------------------------
(***************************************************************************)
(* Proofs about AppConfig: the types, that every stored key belongs to a   *)
(* declaration at the endpoint it was verified against, and the two caps,  *)
(* for any providers, endpoints, keys, chains and requests in progress.    *)
(* The three together are inductive.                                       *)
(***************************************************************************)
EXTENDS AppConfig, FiniteSetTheorems, TLAPS

IInv == TypeOK /\ KeysAtTheirEndpoint /\ CapsHold

-----------------------------------------------------------------------------
(* Lemmas about the helpers.                                               *)

\* A request that is asked takes its place.
LEMMA AskType ==
    ASSUME TypeOK, NEW r \in Request, NEW w \in KeyWrites \cup SeatWrites, Ask(r, w)
    PROVE  TypeOK'
BY DEF TypeOK, Ask

\* A place that is freed is idle.
LEMMA AnswerType ==
    ASSUME TypeOK, NEW r \in Request, Answer(r)
    PROVE  req' \in [Request -> {Idle} \cup KeyWrites \cup SeatWrites]
BY DEF TypeOK, Answer

\* The operation tells what a request holds.
LEMMA KeyWriteType ==
    ASSUME TypeOK, NEW r \in Request, req[r].op \in {"create", "redeclare", "append"}
    PROVE  req[r] \in KeyWrites
BY DEF TypeOK, Idle, SeatWrites

LEMMA SeatWriteType ==
    ASSUME TypeOK, NEW r \in Request, req[r].op = "roles"
    PROVE  req[r] \in SeatWrites
BY DEF TypeOK, Idle, KeyWrites

\* Storing a key writes one place of one pool.
LEMMA StoredPool ==
    ASSUME TypeOK, NEW w \in KeyWrites
    PROVE  /\ Stored(w) \in [Provider -> [Key -> Endpoint \cup {None}]]
           /\ \A p \in Provider, k \in Key :
                Stored(w)[p][k] = IF p = w.prov /\ k = w.key THEN w.end ELSE pool[p][k]
BY DEF TypeOK, KeyWrites, Stored

\* The taken places of a pool are finitely many, and each holds an endpoint.
LEMMA SlotsFinite ==
    ASSUME Sane, NEW keys
    PROVE  IsFiniteSet(Slots(keys)) /\ Cardinality(Slots(keys)) \in Nat
BY FS_Subset, FS_CardinalityType DEF Sane, Slots

\* Both kinds of places can be counted.
LEMMA DeclaredFinite ==
    ASSUME Sane
    PROVE  IsFiniteSet(Declared) /\ Cardinality(Declared) \in Nat
BY FS_Subset, FS_CardinalityType DEF Sane, Declared

\* A key for which there is room leaves its pool within the cap.
LEMMA StoredFits ==
    ASSUME Sane, TypeOK, CapsHold, NEW w \in KeyWrites,
           RoomFor(pool[w.prov], w.key), NEW p \in Provider
    PROVE  Cardinality(Slots(Stored(w)[p])) <= MaxKeys
<1>1. CASE p = w.prov
  <2>1. w.end # None /\ w.key \in Key
    BY DEF KeyWrites, Sane
  <2>2. Slots(Stored(w)[p]) = Slots(pool[p]) \cup {w.key}
    BY <1>1, <2>1, StoredPool DEF Slots
  <2>3. Cardinality(Slots(pool[p])) \in Nat /\ IsFiniteSet(Slots(pool[p]))
    BY SlotsFinite
  <2>4. Cardinality(Slots(pool[p])) <= MaxKeys /\ MaxKeys \in Nat
    BY DEF CapsHold, Sane
  <2>5. CASE w.key \in Slots(pool[p])
    BY <2>2, <2>4, <2>5
  <2>6. CASE w.key \notin Slots(pool[p])
    <3>1. Cardinality(Slots(pool[p]) \cup {w.key}) = Cardinality(Slots(pool[p])) + 1
      BY <2>3, <2>6, FS_AddElement
    <3>2. Cardinality(Slots(pool[p])) < MaxKeys
      BY <1>1, <2>6 DEF RoomFor
    <3>3. Cardinality(Slots(pool[p])) + 1 <= MaxKeys
      BY <2>3, <2>4, <3>2
    <3> QED BY <2>2, <3>1, <3>3
  <2> QED BY <2>5, <2>6
<1>2. CASE p # w.prov
  <2>1. Slots(Stored(w)[p]) = Slots(pool[p])
    BY <1>2, StoredPool DEF Slots
  <2> QED BY <2>1 DEF CapsHold
<1> QED BY <1>1, <1>2

\* So does a declaration that may grow leave the number of declarations.
LEMMA GrownFits ==
    ASSUME Sane, TypeOK, CapsHold, NEW p \in Provider, NEW e \in Endpoint, MayGrow(p),
           decl' = [decl EXCEPT ![p] = e]
    PROVE  Cardinality(Declared') <= MaxDeclared
<1>1. Declared' = Declared \cup {p}
  BY DEF Declared, TypeOK, Sane
<1>2. Cardinality(Declared) \in Nat /\ IsFiniteSet(Declared)
  BY DeclaredFinite
<1>3. Cardinality(Declared) <= MaxDeclared /\ MaxDeclared \in Nat
  BY DEF CapsHold, Sane
<1>4. CASE p \in Declared
  <2>1. Declared' = Declared
    BY <1>1, <1>4
  <2> QED BY <1>3, <2>1
<1>5. CASE p \notin Declared
  <2>1. Cardinality(Declared \cup {p}) = Cardinality(Declared) + 1
    BY <1>2, <1>5, FS_AddElement
  <2>2. Cardinality(Declared) < MaxDeclared
    BY <1>5 DEF MayGrow
  <2>3. Cardinality(Declared) + 1 <= MaxDeclared
    BY <1>2, <1>3, <2>2
  <2> QED BY <1>1, <2>1, <2>3
<1> QED BY <1>4, <1>5

\* Fewer declarations and fewer keys fit as well.
LEMMA FewerFit ==
    ASSUME Sane, CapsHold, Declared' \subseteq Declared,
           \A p \in Provider : Slots(pool'[p]) \subseteq Slots(pool[p])
    PROVE  CapsHold'
<1>1. Cardinality(Declared') <= Cardinality(Declared) /\ Cardinality(Declared') \in Nat
  BY DeclaredFinite, FS_Subset, FS_CardinalityType
<1>2. ASSUME NEW p \in Provider
      PROVE  /\ Cardinality(Slots(pool'[p])) <= Cardinality(Slots(pool[p]))
             /\ Cardinality(Slots(pool'[p])) \in Nat
  BY <1>2, SlotsFinite, FS_Subset
<1>3. /\ Cardinality(Declared) <= MaxDeclared
      /\ Cardinality(Declared) \in Nat /\ MaxDeclared \in Nat /\ MaxKeys \in Nat
  BY DeclaredFinite DEF CapsHold, Sane
<1>4. ASSUME NEW p \in Provider PROVE Cardinality(Slots(pool'[p])) <= MaxKeys
  BY <1>2, <1>3, SlotsFinite DEF CapsHold
<1>5. Cardinality(Declared') <= MaxDeclared
  BY <1>1, <1>3
<1> QED BY <1>4, <1>5 DEF CapsHold, Slots

-----------------------------------------------------------------------------
(* The steps.                                                              *)

\* The three properties hold at the beginning, and every step keeps them.
LEMMA InitHolds == ASSUME Sane PROVE Init => IInv
<1> SUFFICES ASSUME Init PROVE IInv
  OBVIOUS
<1>1. TypeOK
  BY DEF Init, TypeOK, SeatMap
<1>2. Declared = {} /\ \A p \in Provider : Slots(pool[p]) = {}
  BY DEF Init, Declared, Slots
<1>3. KeysAtTheirEndpoint
  BY <1>2 DEF KeysAtTheirEndpoint
<1>4. CapsHold
  BY <1>2, FS_EmptySet DEF CapsHold, Sane
<1> QED BY <1>1, <1>3, <1>4 DEF IInv

\* A step that leaves both tables alone leaves what is said of them.
LEMMA TablesStay ==
    ASSUME KeysAtTheirEndpoint, CapsHold, UNCHANGED <<decl, pool>>
    PROVE  KeysAtTheirEndpoint' /\ CapsHold'
BY DEF KeysAtTheirEndpoint, CapsHold, Declared, Slots

\* The batch of a new declaration.
LEMMA CreateKeeps ==
    ASSUME Sane, IInv, NEW r \in Request, Create(r)
    PROVE  IInv'
<1> DEFINE w == req[r]
<1> USE DEF IInv
<1>1. w \in KeyWrites
  BY KeyWriteType DEF Create
<1>2. w.prov \in Provider /\ w.key \in Key /\ w.end \in Endpoint /\ w.end # None
  BY <1>1 DEF KeyWrites, Sane
<1>3. CASE /\ decl[w.prov] \in {None, w.end}
           /\ RoomFor(pool[w.prov], w.key) /\ MayGrow(w.prov)
  <2>1. pool' = Stored(w)
    BY <1>3 DEF Create
  <2>2. RoomFor(pool'[w.prov], w.key)
    BY <1>1, <1>2, <2>1, StoredPool DEF RoomFor, Slots
  <2>3. decl' = [decl EXCEPT ![w.prov] = w.end]
    BY <1>3, <2>2 DEF Create
  <2>4. TypeOK'
    BY <1>1, <1>2, <2>1, <2>3, StoredPool, AnswerType DEF TypeOK, Create
  <2>5. \A p \in Provider : decl'[p] = IF p = w.prov THEN w.end ELSE decl[p]
    BY <1>2, <2>3 DEF TypeOK
  <2>6. \A p \in Provider, k \in Key :
          pool'[p][k] = IF p = w.prov /\ k = w.key THEN w.end ELSE pool[p][k]
    BY <1>1, <2>1, StoredPool
  <2>7. KeysAtTheirEndpoint'
    BY <1>2, <1>3, <2>5, <2>6 DEF KeysAtTheirEndpoint, Slots
  <2>8. Cardinality(Declared') <= MaxDeclared
    BY <1>2, <1>3, <2>3, GrownFits
  <2>9. \A p \in Provider : Cardinality(Slots(pool'[p])) <= MaxKeys
    BY <1>1, <1>3, <2>1, StoredFits
  <2> QED BY <2>4, <2>7, <2>8, <2>9 DEF CapsHold, Slots
<1>4. CASE ~(/\ decl[w.prov] \in {None, w.end}
             /\ RoomFor(pool[w.prov], w.key) /\ MayGrow(w.prov))
  <2>1. pool' = pool
    BY <1>4 DEF Create
  <2>2. decl' = decl
    BY <1>4, <2>1 DEF Create
  <2>3. TypeOK'
    BY <2>1, <2>2, AnswerType DEF TypeOK, Create
  <2> QED BY <2>1, <2>2, <2>3, TablesStay
<1> QED BY <1>3, <1>4

\* The batch of a declaration that is there.
LEMMA RedeclareKeeps ==
    ASSUME Sane, IInv, NEW r \in Request, Redeclare(r)
    PROVE  IInv'
<1> DEFINE w == req[r]
<1> USE DEF IInv
<1>1. w \in KeyWrites
  BY KeyWriteType DEF Redeclare
<1>2. w.prov \in Provider /\ w.key \in Key /\ w.end \in Endpoint /\ w.end # None
  BY <1>1 DEF KeyWrites, Sane
<1>3. \A p \in Provider : decl'[p] = IF p = w.prov /\ MayMove(w) THEN w.end ELSE decl[p]
  BY <1>2 DEF Redeclare, TypeOK
<1>4. decl' \in [Provider -> Endpoint \cup {None}]
  BY <1>2 DEF Redeclare, TypeOK
<1>5. Declared' = Declared
  BY <1>2, <1>3 DEF Declared, MayMove
<1>6. \A p \in Provider : \A k \in Slots(pool[p]) : pool[p][k] = decl'[p]
  BY <1>3 DEF MayMove, KeysAtTheirEndpoint
<1>7. CASE RoomFor(pool[w.prov], w.key) /\ decl'[w.prov] = w.end
  <2>1. pool' = Stored(w)
    BY <1>7 DEF Redeclare
  <2>2. TypeOK'
    BY <1>1, <1>4, <2>1, StoredPool, AnswerType DEF TypeOK, Redeclare
  <2>3. \A p \in Provider, k \in Key :
          pool'[p][k] = IF p = w.prov /\ k = w.key THEN w.end ELSE pool[p][k]
    BY <1>1, <2>1, StoredPool
  <2>4. KeysAtTheirEndpoint'
    BY <1>6, <1>7, <2>3 DEF KeysAtTheirEndpoint, Slots
  <2>5. \A p \in Provider : Cardinality(Slots(pool'[p])) <= MaxKeys
    BY <1>1, <1>7, <2>1, StoredFits
  <2> QED BY <1>5, <2>2, <2>4, <2>5 DEF CapsHold, Slots
<1>8. CASE ~(RoomFor(pool[w.prov], w.key) /\ decl'[w.prov] = w.end)
  <2>1. pool' = pool
    BY <1>8 DEF Redeclare
  <2>2. TypeOK'
    BY <1>4, <2>1, AnswerType DEF TypeOK, Redeclare
  <2>3. KeysAtTheirEndpoint'
    BY <1>6, <2>1 DEF KeysAtTheirEndpoint, Slots
  <2> QED BY <1>5, <2>1, <2>2, <2>3 DEF CapsHold, Slots
<1> QED BY <1>7, <1>8

\* A further key.
LEMMA AppendKeeps ==
    ASSUME Sane, IInv, NEW r \in Request, Append(r)
    PROVE  IInv'
<1> DEFINE w == req[r]
<1> USE DEF IInv
<1>1. w \in KeyWrites
  BY KeyWriteType DEF Append
<1>2. w.prov \in Provider /\ w.key \in Key /\ w.end \in Endpoint /\ w.end # None
  BY <1>1 DEF KeyWrites, Sane
<1>3. CASE MayAppend(w)
  <2>1. pool' = Stored(w) /\ decl' = decl
    BY <1>3 DEF Append
  <2>2. TypeOK'
    BY <1>1, <2>1, StoredPool, AnswerType DEF TypeOK, Append
  <2>3. \A p \in Provider, k \in Key :
          pool'[p][k] = IF p = w.prov /\ k = w.key THEN w.end ELSE pool[p][k]
    BY <1>1, <2>1, StoredPool
  <2>4. KeysAtTheirEndpoint'
    BY <1>3, <2>1, <2>3 DEF KeysAtTheirEndpoint, Slots, MayAppend
  <2>5. \A p \in Provider : Cardinality(Slots(pool'[p])) <= MaxKeys
    BY <1>1, <1>3, <2>1, StoredFits DEF MayAppend
  <2> QED BY <2>1, <2>2, <2>4, <2>5 DEF CapsHold, Slots, Declared
<1>4. CASE ~MayAppend(w)
  <2>1. pool' = pool /\ decl' = decl
    BY <1>4 DEF Append
  <2>2. TypeOK'
    BY <2>1, AnswerType DEF TypeOK, Append
  <2> QED BY <2>1, <2>2, TablesStay
<1> QED BY <1>3, <1>4

\* Removals leave fewer keys, and none without its declaration.
LEMMA RemoveProviderKeeps ==
    ASSUME Sane, IInv, NEW q \in Provider, RemoveProvider(q)
    PROVE  IInv'
<1> USE DEF IInv
<1>1. TypeOK'
  BY DEF RemoveProvider, TypeOK
<1>2. \A p \in Provider : decl'[p] = IF p = q THEN None ELSE decl[p]
  BY DEF RemoveProvider, TypeOK
<1>3. \A p \in Provider, k \in Key : pool'[p][k] = IF p = q THEN None ELSE pool[p][k]
  BY DEF RemoveProvider, TypeOK
<1>4. KeysAtTheirEndpoint'
  BY <1>2, <1>3 DEF KeysAtTheirEndpoint, Slots
<1>5. Declared' \subseteq Declared
  BY <1>2 DEF Declared
<1>6. \A p \in Provider : Slots(pool'[p]) \subseteq Slots(pool[p])
  BY <1>3 DEF Slots
<1> QED BY <1>1, <1>4, <1>5, <1>6, FewerFit

LEMMA DeleteKeyKeeps ==
    ASSUME Sane, IInv, NEW q \in Provider, NEW j \in Key, DeleteKey(q, j)
    PROVE  IInv'
<1> USE DEF IInv
<1>1. TypeOK'
  BY DEF DeleteKey, TypeOK
<1>2. decl' = decl
  BY DEF DeleteKey
<1>3. \A p \in Provider, k \in Key :
        pool'[p][k] = IF p = q /\ k = j THEN None ELSE pool[p][k]
  BY DEF DeleteKey, TypeOK
<1>4. KeysAtTheirEndpoint'
  BY <1>2, <1>3 DEF KeysAtTheirEndpoint, Slots
<1>5. Declared' = Declared
  BY <1>2 DEF Declared
<1>6. \A p \in Provider : Slots(pool'[p]) \subseteq Slots(pool[p])
  BY <1>3 DEF Slots
<1> QED BY <1>1, <1>4, <1>5, <1>6, FewerFit

\* Chains, seats and what is only asked leave the keys alone.
LEMMA OthersKeep ==
    ASSUME Sane, IInv, NEW r \in Request,
           \/ \E p \in Provider, k \in Key :
                AskAppend(r, p, k) \/ \E e \in Endpoint : Declare(r, p, e, k)
           \/ SaveRoles(r) \/ Die(r)
           \/ \E map \in SeatMap : AskRoles(r, map)
           \/ \E n \in Chain : AddChain(n) \/ RemoveChain(n)
    PROVE  IInv'
<1> USE DEF IInv
<1>1. UNCHANGED <<decl, pool>>
  BY DEF AskAppend, Declare, SaveRoles, Die, AskRoles, AddChain, RemoveChain, Ask
<1>2. ASSUME NEW p \in Provider, NEW k \in Key, AskAppend(r, p, k) PROVE TypeOK'
  <2>1. [op |-> "append", prov |-> p, end |-> decl[p], key |-> k] \in KeyWrites
    BY <1>2 DEF AskAppend, Declared, TypeOK, KeyWrites
  <2> QED BY <1>2, <2>1, AskType DEF AskAppend
<1>3. ASSUME NEW p \in Provider, NEW k \in Key, NEW e \in Endpoint, Declare(r, p, e, k)
      PROVE  TypeOK'
  <2>1. \A o \in {"create", "redeclare"} :
          [op |-> o, prov |-> p, end |-> e, key |-> k] \in KeyWrites
    BY DEF KeyWrites
  <2>2. PICK o \in {"create", "redeclare"} :
          Ask(r, [op |-> o, prov |-> p, end |-> e, key |-> k])
    BY <1>3 DEF Declare
  <2> QED BY <2>1, <2>2, AskType
<1>4. ASSUME NEW map \in SeatMap, AskRoles(r, map) PROVE TypeOK'
  <2>1. [op |-> "roles", map |-> map] \in SeatWrites
    BY DEF SeatWrites
  <2> QED BY <1>4, <2>1, AskType DEF AskRoles
<1>5. ASSUME SaveRoles(r) PROVE TypeOK'
  <2>1. req[r].map \in SeatMap
    BY <1>5, SeatWriteType DEF SaveRoles, SeatWrites
  <2> QED BY <1>5, <2>1, AnswerType DEF SaveRoles, TypeOK
<1>6. ASSUME Die(r) PROVE TypeOK'
  BY <1>6, AnswerType DEF Die, TypeOK
<1>7. ASSUME NEW n \in Chain, AddChain(n) \/ RemoveChain(n) PROVE TypeOK'
  BY <1>7 DEF AddChain, RemoveChain, TypeOK, SeatMap
<1>8. TypeOK'
  BY <1>2, <1>3, <1>4, <1>5, <1>6, <1>7
<1> QED BY <1>1, <1>8, TablesStay

LEMMA NextKeeps == ASSUME Sane, IInv, [Next]_vars PROVE IInv'
<1>1. CASE OnKeys
  BY <1>1, CreateKeeps, RedeclareKeeps, AppendKeeps, RemoveProviderKeeps,
     DeleteKeyKeeps, OthersKeep DEF OnKeys
<1>2. ASSUME NEW n \in Chain, AddChain(n) \/ RemoveChain(n) PROVE IInv'
  <2>1. TypeOK'
    BY <1>2 DEF AddChain, RemoveChain, TypeOK, SeatMap, IInv
  <2>2. UNCHANGED <<decl, pool>>
    BY <1>2 DEF AddChain, RemoveChain
  <2> QED BY <2>1, <2>2, TablesStay DEF IInv
<1>3. CASE OnChains
  BY <1>2, <1>3, OthersKeep DEF OnChains
<1>4. ASSUME NEW r \in Request, Die(r) PROVE IInv'
  BY <1>4, OthersKeep
<1>5. CASE UNCHANGED vars
  <2>1. TypeOK'
    BY <1>5 DEF vars, TypeOK, IInv
  <2> QED BY <1>5, <2>1, TablesStay DEF vars, IInv
<1> QED BY <1>1, <1>3, <1>4, <1>5 DEF Next

LEMMA IInvHolds == ASSUME Sane PROVE Spec => []IInv
<1>1. Init => IInv
  BY InitHolds
<1>2. IInv /\ [Next]_vars => IInv'
  BY NextKeeps
<1> QED BY <1>1, <1>2, PTL DEF Spec

-----------------------------------------------------------------------------
(* The theorems.                                                           *)

\* The types of AppConfig.
THEOREM AppConfigType == ASSUME Sane PROVE Spec => []TypeOK
<1>1. IInv => TypeOK
  BY DEF IInv
<1> QED BY <1>1, IInvHolds, PTL

\* A stored key belongs to a declaration at the endpoint that this key was
\* verified against (upsertCustomProvider, addCustomProviderKey).
THEOREM KeysAtTheirEndpointHolds == ASSUME Sane PROVE Spec => []KeysAtTheirEndpoint
<1>1. IInv => KeysAtTheirEndpoint
  BY DEF IInv
<1> QED BY <1>1, IInvHolds, PTL

\* No race fills more places than there are (poolAdmission,
\* declarationGrowthAdmission).
THEOREM CapsHoldAlways == ASSUME Sane PROVE Spec => []CapsHold
<1>1. IInv => CapsHold
  BY DEF IInv
<1> QED BY <1>1, IInvHolds, PTL
=============================================================================
