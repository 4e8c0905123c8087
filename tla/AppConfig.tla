----------------------------- MODULE AppConfig -----------------------------
(***************************************************************************)
(* The model configuration of one App (src/dashboard/app-config-store.ts)  *)
(* under concurrent requests of its settings page                          *)
(* (src/dashboard/index.ts): the custom providers it declares, the pool of *)
(* keys of each, its named model chains and the chain of each seat.        *)
(*                                                                         *)
(* A key is verified against the endpoint of a declaration before it is    *)
(* stored.  Between the reads that a request decides by and its batch      *)
(* other requests run; the conditions of a batch are in its statements.    *)
(***************************************************************************)
EXTENDS Naturals, FiniteSets

CONSTANTS
    Request,        \* requests in progress at a time
    Provider,       \* ids a custom provider may be declared under
    Endpoint,       \* pairs of base_url and api
    Key,
    Chain,          \* names of chains, the reserved "default" excepted
    Role,           \* the seats a chain may be given to
    Kinds,          \* what the page is used for: "keys", "chains"
    None,
    MaxKeys,        \* MAX_KEYS_PER_PROVIDER
    MaxDeclared     \* MAX_CUSTOM_PROVIDER_COUNT

\* What a lane or a run has to give.
Sane ==
    /\ IsFiniteSet(Provider) /\ IsFiniteSet(Key)
    /\ None \notin Endpoint /\ None \notin Chain
    /\ Kinds \subseteq {"keys", "chains"}
    /\ MaxKeys \in Nat \ {0} /\ MaxDeclared \in Nat

VARIABLES
    decl,           \* app_custom_providers: the endpoint of each declaration
    pool,           \* app_custom_provider_keys: the endpoint that each stored
                    \* key was verified against
    chains,         \* app_model_chains
    seat,           \* app_model_chain_seats: the chain each seat refers to
    req             \* where each request stands

vars == <<decl, pool, chains, seat, req>>

-----------------------------------------------------------------------------

Idle == [op |-> "idle"]

\* A key that is verified, to be stored with its declaration or under one.
KeyWrites == [op : {"create", "redeclare", "append"},
              prov : Provider, end : Endpoint, key : Key]

\* A map of all seats whose chains have been found.
SeatMap == [Role -> Chain \cup {None}]
SeatWrites == [op : {"roles"}, map : SeatMap]

TypeOK ==
    /\ decl \in [Provider -> Endpoint \cup {None}]
    /\ pool \in [Provider -> [Key -> Endpoint \cup {None}]]
    /\ chains \subseteq Chain
    /\ seat \in SeatMap
    /\ req \in [Request -> {Idle} \cup KeyWrites \cup SeatWrites]

Init ==
    /\ decl = [p \in Provider |-> None]
    /\ pool = [p \in Provider |-> [k \in Key |-> None]]
    /\ chains = {}
    /\ seat = [s \in Role |-> None]
    /\ req = [r \in Request |-> Idle]

-----------------------------------------------------------------------------
(* The conditions of the statements.                                       *)

Declared == {p \in Provider : decl[p] # None}

Slots(keys) == {k \in Key : keys[k] # None}

\* poolAdmission: a new key needs room, a stored one is replaced in place.
RoomFor(keys, k) == Cardinality(Slots(keys)) < MaxKeys \/ k \in Slots(keys)

\* declarationGrowthAdmission.
MayGrow(p) == Cardinality(Declared) < MaxDeclared \/ p \in Declared

Ask(r, request) ==
    /\ req[r] = Idle
    /\ req' = [req EXCEPT ![r] = request]
    /\ UNCHANGED <<decl, pool, chains, seat>>

Answer(r) == req' = [req EXCEPT ![r] = Idle]

\* ON CONFLICT DO UPDATE: the row of the key with its new verification.
Stored(w) == [pool EXCEPT ![w.prov][w.key] = w.end]

-----------------------------------------------------------------------------
(* Declaring a custom provider with its first or a further key: the        *)
(* operations add-custom-provider and add-template-provider.               *)

\* upsertCustomProvider reads the declaration and its pool for a key that has
\* been verified, and refuses what it can: what passes is decided again by
\* the batch.  What the route has read before is read here again.
Declare(r, p, e, k) ==
    LET isNew == decl[p] = None
        locked == ~isNew /\ Slots(pool[p]) # {} /\ decl[p] # e
    IN  /\ ~locked
        /\ MayGrow(p)
        /\ Ask(r, [op |-> IF isNew THEN "create" ELSE "redeclare",
                   prov |-> p, end |-> e, key |-> k])

\* The batch of a declaration that was not there: the key, then the
\* declaration, neither of them beside a declaration of another endpoint.
Create(r) ==
    LET w == req[r]
        agrees == decl[w.prov] \in {None, w.end}
    IN  /\ w.op = "create"
        /\ pool' = IF agrees /\ RoomFor(pool[w.prov], w.key) /\ MayGrow(w.prov)
                   THEN Stored(w) ELSE pool
        /\ decl' = IF agrees /\ RoomFor(pool'[w.prov], w.key) /\ MayGrow(w.prov)
                   THEN [decl EXCEPT ![w.prov] = w.end] ELSE decl
        /\ Answer(r)
        /\ UNCHANGED <<chains, seat>>

\* Mutated form of MayMove: without the lock of the endpoint.
MayMoveFreely(w) ==
    /\ w.prov \in Declared
    /\ RoomFor(pool[w.prov], w.key)

\* A declaration moves to another endpoint only over an empty pool.
MayMove(w) ==
    /\ w.prov \in Declared
    /\ RoomFor(pool[w.prov], w.key)
    /\ decl[w.prov] = w.end \/ Slots(pool[w.prov]) = {}

\* The batch of a declaration that was there: the declaration, then the key,
\* which needs the declaration at its own endpoint.
Redeclare(r) ==
    LET w == req[r]
    IN  /\ w.op = "redeclare"
        /\ decl' = IF MayMove(w) THEN [decl EXCEPT ![w.prov] = w.end] ELSE decl
        /\ pool' = IF RoomFor(pool[w.prov], w.key) /\ decl'[w.prov] = w.end
                   THEN Stored(w) ELSE pool
        /\ Answer(r)
        /\ UNCHANGED <<chains, seat>>

-----------------------------------------------------------------------------
(* Adding and removing keys and declarations.                              *)

\* add-custom-provider-key reads the declaration and verifies the key there.
AskAppend(r, p, k) ==
    /\ p \in Declared
    /\ Ask(r, [op |-> "append", prov |-> p, end |-> decl[p], key |-> k])

\* Mutated form of MayAppend: the pool is counted by an earlier read only.
MayAppendAlways(w) == decl[w.prov] = w.end

\* The insert of addCustomProviderKey, for the endpoint that was verified.
MayAppend(w) ==
    /\ RoomFor(pool[w.prov], w.key)
    /\ decl[w.prov] = w.end

Append(r) ==
    LET w == req[r]
    IN  /\ w.op = "append"
        /\ pool' = IF MayAppend(w) THEN Stored(w) ELSE pool
        /\ Answer(r)
        /\ UNCHANGED <<decl, chains, seat>>

\* removeCustomProvider: the declaration and its pool in one batch.
RemoveProvider(p) ==
    /\ p \in Declared
    /\ decl' = [decl EXCEPT ![p] = None]
    /\ pool' = [pool EXCEPT ![p] = [k \in Key |-> None]]
    /\ UNCHANGED <<chains, seat, req>>

\* deleteCustomProviderKey.
DeleteKey(p, k) ==
    /\ k \in Slots(pool[p])
    /\ pool' = [pool EXCEPT ![p][k] = None]
    /\ UNCHANGED <<decl, chains, seat, req>>

-----------------------------------------------------------------------------
(* Chains and seats.                                                       *)

\* upsertModelChain.
AddChain(n) ==
    /\ chains' = chains \cup {n}
    /\ UNCHANGED <<decl, pool, seat, req>>

\* removeModelChain: the chain and the references to it in one batch.
RemoveChain(n) ==
    /\ n \in chains
    /\ chains' = chains \ {n}
    /\ seat' = [s \in Role |-> IF seat[s] = n THEN None ELSE seat[s]]
    /\ UNCHANGED <<decl, pool, req>>

\* save-roles: the route, and setModelChainSeats after it, read the chains of
\* the App and refuse a map that names another.
AskRoles(r, map) ==
    /\ \A s \in Role : map[s] \in chains \cup {None}
    /\ Ask(r, [op |-> "roles", map |-> map])

\* Its batch writes or deletes one row for each seat.
SaveRoles(r) ==
    /\ req[r].op = "roles"
    /\ seat' = req[r].map
    /\ Answer(r)
    /\ UNCHANGED <<decl, pool, chains>>

-----------------------------------------------------------------------------

\* The isolate of a request dies before its batch.
Die(r) ==
    /\ req[r] # Idle
    /\ Answer(r)
    /\ UNCHANGED <<decl, pool, chains, seat>>

OnKeys ==
    \/ \E r \in Request :
         \/ \E p \in Provider, k \in Key :
              AskAppend(r, p, k) \/ \E e \in Endpoint : Declare(r, p, e, k)
         \/ Create(r) \/ Redeclare(r) \/ Append(r)
    \/ \E p \in Provider : RemoveProvider(p) \/ \E k \in Key : DeleteKey(p, k)

OnChains ==
    \/ \E r \in Request : SaveRoles(r) \/ \E map \in SeatMap : AskRoles(r, map)
    \/ \E n \in Chain : AddChain(n) \/ RemoveChain(n)

Next ==
    \/ "keys" \in Kinds /\ OnKeys
    \/ "chains" \in Kinds /\ OnChains
    \/ \E r \in Request : Die(r)

Spec == Init /\ [][Next]_vars

-----------------------------------------------------------------------------
(* Properties.                                                             *)

\* A stored key belongs to a declaration, and the endpoint of the declaration
\* is the one that this key was verified against: no removal, declaration or
\* change of endpoint that runs between the verification and the batch leaves
\* a key without its declaration or sends it elsewhere
\* (upsertCustomProvider, addCustomProviderKey: "refuses this credential
\* instead of adopting it").
KeysAtTheirEndpoint ==
    \A p \in Provider : \A k \in Slots(pool[p]) : pool[p][k] = decl[p]

\* Requests that have all read a free place do not fill more than there are
\* (poolAdmission, declarationGrowthAdmission).
CapsHold ==
    /\ Cardinality(Declared) <= MaxDeclared
    /\ \A p \in Provider : Cardinality(Slots(pool[p])) <= MaxKeys

\* A seat refers to a chain that is there (readModelOverrides: "a dangling
\* reference is a direct-DB tamper"), or every review of the App fails.
SeatsResolve == \A s \in Role : seat[s] \in chains \cup {None}
=============================================================================
