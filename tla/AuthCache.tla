----------------------------- MODULE AuthCache -----------------------------
(***************************************************************************)
(* Authentication of API keys in both services: static keys, a cache in    *)
(* the process whose entries live for a TTL, and Redis behind it; then the *)
(* check that the fleet of the key is the fleet the request is about       *)
(* (ingestion's Handle, serving's FleetScoped routes and ServeWS).         *)
(*                                                                         *)
(* The two authenticators are the same algorithm.  Requests run            *)
(* concurrently and share the cache, a sync.Map: each Load, Delete and     *)
(* Store is atomic, what happens between them is not.  Keys are assigned,  *)
(* moved and revoked in Redis at any time.                                 *)
(***************************************************************************)
EXTENDS Integers, FiniteSets

CONSTANTS
    Request, Key, Fleet,
    NoFleet,      \* the empty string
    StaticKey,    \* VALID_API_KEYS
    TTL,          \* AUTH_CACHE_TTL_SECONDS
    MaxLookup,    \* time from Redis reading a key to the answer being used
    MaxTime,      \* bound on the clock
    MaxChanges    \* bound on the changes of keys in Redis

ASSUME AuthAssumption ==
    /\ TTL \in Nat /\ MaxLookup \in Nat /\ MaxTime \in Nat /\ MaxChanges \in Nat
    /\ StaticKey \subseteq Key
    /\ NoFleet \notin Fleet

Time == 0..MaxTime
MaybeFleet == Fleet \cup {NoFleet}

\* No entry in the cache.
Absent == [fleetID |-> NoFleet, expiresAt |-> 0]

VARIABLES
    now,
    redis,    \* vehicle:auth:<key>, NoFleet when there is none
    changes,  \* number of changes so far
    cache,    \* localCache
    pc,       \* control state of each request
    key,      \* X-API-Key, or the token of a WebSocket
    wanted,   \* the fleet the request is about
    got,      \* the fleet Redis answered with
    readAt,   \* when Redis read it
    answered, \* when the request was answered
    failed,   \* history: requests whose lookup failed
    history   \* history: <<k, f, t>> when key k had fleet f during t

reqVars == <<pc, key, wanted, got, readAt, answered, failed>>
vars == <<now, redis, changes, cache, reqVars, history>>

\* Nobody looks a static key up in Redis, so it need not be there.
Init ==
    /\ now = 0
    /\ redis \in [Key -> MaybeFleet] /\ \A k \in StaticKey : redis[k] = NoFleet
    /\ changes = 0
    /\ cache = [k \in Key |-> Absent]
    /\ pc = [r \in Request |-> "idle"]
    /\ key \in [Request -> Key]
    /\ wanted \in [Request -> Fleet]
    /\ got = [r \in Request |-> NoFleet]
    /\ readAt = [r \in Request |-> 0]
    /\ answered = [r \in Request |-> 0]
    /\ failed = {}
    /\ history = {<<k, redis[k], 0>> : k \in Key}

\* The request is over, and what Redis said is forgotten.
Forget(r) ==
    /\ got' = [got EXCEPT ![r] = NoFleet]
    /\ readAt' = [readAt EXCEPT ![r] = 0]

\* FleetID returned f, or NoFleet for a static key, and the fleets are compared.
Authorized(r, f) ==
    /\ pc' = [pc EXCEPT ![r] = IF f # NoFleet /\ f = wanted[r] THEN "served" ELSE "denied"]
    /\ answered' = [answered EXCEPT ![r] = now]

\* FleetID returned false: 401.
Unauthenticated(r) ==
    /\ pc' = [pc EXCEPT ![r] = "denied"]
    /\ answered' = [answered EXCEPT ![r] = now]

\* A static key answers at once; other requests go to the cache.
Begin(r) ==
    /\ pc[r] = "idle"
    /\ IF key[r] \in StaticKey
       THEN Authorized(r, NoFleet)
       ELSE pc' = [pc EXCEPT ![r] = "load"] /\ UNCHANGED answered
    /\ UNCHANGED <<now, redis, changes, cache, key, wanted, got, readAt, failed, history>>

\* Fault: a hit prolongs the entry.
LoadSliding(r) ==
    /\ pc[r] = "load"
    /\ LET e == cache[key[r]]
       IN  IF e # Absent /\ now < e.expiresAt
           THEN /\ Authorized(r, e.fleetID)
                /\ cache' = [cache EXCEPT ![key[r]].expiresAt = now + TTL]
           ELSE /\ pc' = [pc EXCEPT ![r] = IF e = Absent THEN "lookup" ELSE "delete"]
                /\ UNCHANGED <<answered, cache>>
    /\ UNCHANGED <<now, redis, changes, key, wanted, got, readAt, failed, history>>

\* Fault: an expired entry ends the request instead of leading to Redis.
LoadDeniesExpired(r) ==
    /\ pc[r] = "load"
    /\ LET e == cache[key[r]]
       IN  IF e # Absent
           THEN IF now < e.expiresAt THEN Authorized(r, e.fleetID) ELSE Unauthenticated(r)
           ELSE pc' = [pc EXCEPT ![r] = "lookup"] /\ UNCHANGED answered
    /\ UNCHANGED <<now, redis, changes, cache, key, wanted, got, readAt, failed, history>>

\* localCache.Load: a live entry answers, an expired one is to be deleted.
Load(r) ==
    /\ pc[r] = "load"
    /\ LET e == cache[key[r]]
       IN  IF e # Absent /\ now < e.expiresAt
           THEN Authorized(r, e.fleetID)
           ELSE /\ pc' = [pc EXCEPT ![r] = IF e = Absent THEN "lookup" ELSE "delete"]
                /\ UNCHANGED answered
    /\ UNCHANGED <<now, redis, changes, cache, key, wanted, got, readAt, failed,
                   history>>

\* localCache.Delete, which may remove a newer entry than the one loaded.
Delete(r) ==
    /\ pc[r] = "delete"
    /\ cache' = [cache EXCEPT ![key[r]] = Absent]
    /\ pc' = [pc EXCEPT ![r] = "lookup"]
    /\ UNCHANGED <<now, redis, changes, key, wanted, got, readAt, answered, failed,
                   history>>

\* GetAPIKey, lookupRedis: Redis reads the key; the answer takes its time.
Lookup(r) ==
    /\ pc[r] = "lookup"
    /\ got' = [got EXCEPT ![r] = redis[key[r]]]
    /\ readAt' = [readAt EXCEPT ![r] = now]
    /\ pc' = [pc EXCEPT ![r] = "reply"]
    /\ UNCHANGED <<now, redis, changes, cache, key, wanted, answered, failed, history>>

\* The lookup fails.
LookupFails(r) ==
    /\ pc[r] \in {"lookup", "reply"}
    /\ failed' = failed \cup {r}
    /\ Unauthenticated(r)
    /\ Forget(r)
    /\ UNCHANGED <<now, redis, changes, cache, key, wanted, history>>

\* Fault: a missing key is remembered as a fleet of no name.
ReplyCachesMissing(r) ==
    /\ pc[r] = "reply"
    /\ cache' = [cache EXCEPT ![key[r]] = [fleetID |-> got[r], expiresAt |-> now + TTL]]
    /\ Authorized(r, got[r])
    /\ Forget(r)
    /\ UNCHANGED <<now, redis, changes, key, wanted, failed, history>>

\* The answer of Redis arrives: no such key, or localCache.Store and the fleet.
Reply(r) ==
    /\ pc[r] = "reply"
    /\ IF got[r] = NoFleet
       THEN Unauthenticated(r) /\ UNCHANGED cache
       ELSE /\ cache' = [cache EXCEPT ![key[r]] = [fleetID |-> got[r],
                                                   expiresAt |-> now + TTL]]
            /\ Authorized(r, got[r])
    /\ Forget(r)
    /\ UNCHANGED <<now, redis, changes, key, wanted, failed, history>>

-----------------------------------------------------------------------------
(* The environment                                                         *)

\* An operator assigns, moves or revokes a key in Redis.
Change(k, f) ==
    /\ changes < MaxChanges
    /\ redis[k] # f
    /\ changes' = changes + 1
    /\ redis' = [redis EXCEPT ![k] = f]
    /\ history' = history \cup {<<k, f, now>>}
    /\ UNCHANGED <<now, cache, reqVars>>

\* The clock advances; no answer of Redis is under way for longer than MaxLookup.
Tick ==
    /\ now < MaxTime
    /\ \A r \in Request : pc[r] = "reply" => now < readAt[r] + MaxLookup
    /\ now' = now + 1
    /\ history' = history \cup {<<k, redis[k], now'>> : k \in Key}
    /\ UNCHANGED <<redis, changes, cache, reqVars>>

Next ==
    \/ \E r \in Request :
          Begin(r) \/ Load(r) \/ Delete(r) \/ Lookup(r) \/ LookupFails(r) \/ Reply(r)
    \/ \E k \in Key \ StaticKey, f \in MaybeFleet : Change(k, f)
    \/ Tick

Spec == Init /\ [][Next]_vars

-----------------------------------------------------------------------------
(* Properties                                                              *)

\* The state of the authenticator and of the requests has the expected types;
\* no cached entry is for more than the TTL, and only keys with a fleet are
\* cached.
TypeOK ==
    /\ now \in Time
    /\ redis \in [Key -> MaybeFleet]
    /\ changes \in 0..MaxChanges
    /\ cache \in [Key -> [fleetID : MaybeFleet, expiresAt : Nat]]
    /\ \A k \in Key : \/ cache[k] = Absent
                      \/ cache[k].fleetID # NoFleet /\ cache[k].expiresAt =< now + TTL
    /\ pc \in [Request -> {"idle", "load", "delete", "lookup", "reply", "served", "denied"}]
    /\ key \in [Request -> Key] /\ wanted \in [Request -> Fleet]
    /\ got \in [Request -> MaybeFleet]
    /\ readAt \in [Request -> Time] /\ answered \in [Request -> Time]
    /\ failed \subseteq Request
    /\ history \subseteq Key \X MaybeFleet \X Time

\* How old the knowledge behind an answer may be: the duration of a lookup, and
\* less than the TTL in the cache.
MaxAge == MaxLookup + (IF TTL = 0 THEN 0 ELSE TTL - 1)

\* When a request was answered, its key had the fleet f at most MaxAge ago.
WasRecently(r, f) ==
    \E t \in Time : /\ <<key[r], f, t>> \in history
                    /\ t =< answered[r]
                    /\ answered[r] =< t + MaxAge

\* A request is served for a fleet only if its key belonged to that fleet within
\* the TTL and the duration of a lookup: revoking or moving a key takes effect
\* by then, although concurrent lookups may store old answers after new ones.
\* Static keys, which belong to no fleet, are never served for one.
ServedWasAuthorized ==
    \A r \in Request : pc[r] = "served" => key[r] \notin StaticKey /\ WasRecently(r, wanted[r])

\* A request is denied only for a reason: its lookup failed, its key is static,
\* or recently the key did not belong to the fleet.  No race in the cache
\* denies a key that was good all along.
DeniedHasReason ==
    \A r \in Request : pc[r] = "denied" =>
        \/ r \in failed \/ key[r] \in StaticKey
        \/ \E f \in MaybeFleet \ {wanted[r]} : WasRecently(r, f)

=============================================================================
