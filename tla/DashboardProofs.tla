-------------------------- MODULE DashboardProofs --------------------------
(***************************************************************************)
(* Theorems about Dashboard, that it does what its parts do, and about     *)
(* AuthCache, for any requests, keys, fleets, TTL, lookup time and bounds. *)
(* The other parts are in AlertHandlersProofs (PagedLists) and             *)
(* VehicleStatusProofs (FleetSummary).                                     *)
(***************************************************************************)
EXTENDS Dashboard, TLAPS

-----------------------------------------------------------------------------
(* Dashboard                                                               *)

\* A step of the dashboard is a step of one part, and the others do not notice.
LEMMA DashboardStep ==
    ASSUME [DashboardNext]_dashboardVars
    PROVE  [Next]_vars /\ [PagesNext]_pagesVars /\ [SummaryNext]_summaryVars
<1>1. CASE UNCHANGED dashboardVars
  BY <1>1, Zenon DEF dashboardVars
<1>2. CASE DashboardNext
  BY <1>2, Zenon DEF DashboardNext
<1> QED BY <1>1, <1>2

\* Whatever the middleware, the lists and the summary promise of themselves, a
\* dashboard that makes requests to all of them sees: each behaviour of Dashboard is
\* one of AuthCache, of PagedLists and of FleetSummary.
THEOREM PartsOfDashboard == DashboardSpec => Spec /\ PagesSpec /\ SummarySpec
<1>1. DashboardInit => Init /\ PagesInit /\ SummaryInit
  BY Zenon DEF DashboardInit
<1>2. [DashboardNext]_dashboardVars =>
         [Next]_vars /\ [PagesNext]_pagesVars /\ [SummaryNext]_summaryVars
  BY DashboardStep, Zenon
<1> QED BY <1>1, <1>2, PTL DEF DashboardSpec, Spec, PagesSpec, SummarySpec

-----------------------------------------------------------------------------
(* AuthCache                                                               *)
(*                                                                         *)
(* What an answer says must be traced back to a moment at which Redis said *)
(* it: the invariant KnowledgeInv does so for the replies under way, the   *)
(* cache entries and the answers.                                          *)

\* What Redis holds now is in the history.
RedisKnown == \A k \in Key : <<k, redis[k], now>> \in history

\* Key k had fleet f at some time up to now, and e is at most age later.
KnownWithin(k, f, e, age) ==
    \E t \in Time : <<k, f, t>> \in history /\ t =< now /\ e =< t + age

\* An entry of the cache expires at most a TTL and a lookup after Redis held it.
CacheKnown ==
    \A k \in Key : cache[k] # Absent =>
        KnownWithin(k, cache[k].fleetID, cache[k].expiresAt, MaxLookup + TTL)

\* A reply under way says what Redis held when it was read, at most a lookup ago.
\* Requests with static keys never get that far.
RequestKnown ==
    \A r \in Request :
        /\ pc[r] \in {"load", "delete", "lookup", "reply"} => key[r] \notin StaticKey
        /\ pc[r] = "reply" => /\ <<key[r], got[r], readAt[r]>> \in history
                              /\ readAt[r] =< now /\ now =< readAt[r] + MaxLookup

\* A request with an answer: denied for lack of one or of a fleet, or compared
\* with a fleet its key had recently.
Explained(r) ==
    \/ pc[r] \notin {"served", "denied"}
    \/ pc[r] = "denied" /\ (r \in failed \/ key[r] \in StaticKey)
    \/ /\ key[r] \notin StaticKey
       /\ \E f \in MaybeFleet : WasRecently(r, f) /\ (pc[r] = "served" <=> f = wanted[r])

KnowledgeInv ==
    /\ TypeOK /\ RedisKnown /\ CacheKnown /\ RequestKnown
    /\ \A r \in Request : Explained(r)

-----------------------------------------------------------------------------

\* An explained answer stays explained while history grows.
LEMMA ExplainedStays ==
    ASSUME NEW r \in Request, Explained(r), history \subseteq history',
           pc'[r] = pc[r], key'[r] = key[r], wanted'[r] = wanted[r],
           answered'[r] = answered[r], failed \subseteq failed'
    PROVE  Explained(r)'
  <1>1. \A f \in MaybeFleet : WasRecently(r, f) => WasRecently(r, f)'
    BY DEF WasRecently, Time, MaxAge
  <1> QED
    BY <1>1 DEF Explained

\* A key without a fleet is answered like one of another fleet.
LEMMA UnknownIsDenied ==
    ASSUME NEW r, Unauthenticated(r)
    PROVE  Authorized(r, NoFleet)
  BY DEF Unauthenticated, Authorized

\* The clock counts up.
LEMMA TimeFacts ==
    /\ Time \subseteq Nat
    /\ \A n, t \in Nat : t =< n => t =< n + 1
  BY AuthAssumption DEF Time

\* The comparison of the fleets explains its own answer.
LEMMA AuthorizedExplains ==
    ASSUME TypeOK, NEW r \in Request, NEW f \in MaybeFleet, Authorized(r, f),
           key[r] \notin StaticKey, UNCHANGED <<key, wanted>>,
           history \subseteq history',
           NEW t \in Time, <<key[r], f, t>> \in history, t =< now, now =< t + MaxAge
    PROVE  Explained(r)'
  <1>1. /\ pc'[r] = IF f # NoFleet /\ f = wanted[r] THEN "served" ELSE "denied"
        /\ answered'[r] = now
    BY DEF Authorized, TypeOK
  <1>2. WasRecently(r, f)'
    BY <1>1 DEF WasRecently, Time, MaxAge
  <1>3. wanted[r] # NoFleet
    BY AuthAssumption DEF TypeOK
  <1>4. pc'[r] = "served" <=> f = wanted'[r]
    BY <1>1, <1>3
  <1> QED
    BY <1>2, <1>4 DEF Explained

\* A live entry of the cache is recent enough for an answer.
LEMMA LiveIsRecent ==
    ASSUME TypeOK, CacheKnown, NEW k \in Key, cache[k] # Absent, now < cache[k].expiresAt
    PROVE  \E t \in Time : <<k, cache[k].fleetID, t>> \in history /\ t =< now /\ now =< t + MaxAge
  <1>1. PICK t \in Time : /\ <<k, cache[k].fleetID, t>> \in history /\ t =< now
                          /\ cache[k].expiresAt =< t + (MaxLookup + TTL)
    BY DEF CacheKnown, KnownWithin
  <1>2. cache[k].expiresAt \in Nat /\ now \in Nat /\ t \in Nat
    BY AuthAssumption DEF TypeOK, Time
  <1>3. now =< t + MaxAge
    BY <1>1, <1>2, AuthAssumption DEF MaxAge
  <1> QED
    BY <1>1, <1>3

-----------------------------------------------------------------------------

\* The initial states know what Redis holds, and nothing else.
LEMMA KnowledgeInit == Init => KnowledgeInv
  <1> SUFFICES ASSUME Init PROVE KnowledgeInv
    OBVIOUS
  <1>1. 0 \in Time
    BY AuthAssumption DEF Time
  <1>2. TypeOK
    <2>1. cache \in [Key -> [fleetID : MaybeFleet, expiresAt : Nat]]
      BY DEF Init, Absent, MaybeFleet
    <2>2. history \subseteq Key \X MaybeFleet \X Time
      BY <1>1 DEF Init
    <2>3. 0 \in 0..MaxChanges
      BY AuthAssumption
    <2> QED
      BY <1>1, <2>1, <2>2, <2>3 DEF Init, TypeOK, MaybeFleet
  <1> QED
    BY <1>2 DEF Init, KnowledgeInv, RedisKnown, CacheKnown, RequestKnown, Explained

\* What the steps of a request r have in common: the types of its data, and what
\* it leaves alone.
RequestTypes(r) ==
    /\ key[r] \in Key /\ wanted[r] \in Fleet /\ got[r] \in MaybeFleet
    /\ cache[key[r]] \in [fleetID : MaybeFleet, expiresAt : Nat]
    /\ now \in Time /\ now \in Nat /\ readAt[r] \in Time /\ readAt[r] \in Nat
    /\ pc[r] \in {"load", "delete", "lookup", "reply"} => key[r] \notin StaticKey

OnlyRequest(r) ==
    /\ UNCHANGED <<now, redis, changes, key, wanted, history>>
    /\ \A s \in Request \ {r} : /\ pc'[s] = pc[s] /\ answered'[s] = answered[s]
                                /\ got'[s] = got[s] /\ readAt'[s] = readAt[s]
    /\ failed \subseteq failed'

LEMMA RequestFacts ==
    ASSUME KnowledgeInv, NEW r \in Request,
           Begin(r) \/ Load(r) \/ Delete(r) \/ Lookup(r) \/ LookupFails(r) \/ Reply(r)
    PROVE  RequestTypes(r) /\ OnlyRequest(r)
  <1>1. TypeOK /\ RequestKnown
    BY DEF KnowledgeInv
  <1>2. pc[r] \in {"load", "delete", "lookup", "reply"} => key[r] \notin StaticKey
    BY <1>1, Zenon DEF RequestKnown
  <1>3. RequestTypes(r)
    BY <1>1, <1>2, AuthAssumption DEF RequestTypes, TypeOK, Time
  <1>4. OnlyRequest(r)
    BY <1>1 DEF OnlyRequest, Begin, Load, Delete, Lookup, LookupFails, Reply, Authorized,
       Unauthenticated, Forget, TypeOK
  <1> QED
    BY <1>3, <1>4

\* So it is enough to look at its own answer, at the cache and at its reply.
LEMMA RequestFrame ==
    ASSUME KnowledgeInv, NEW r \in Request, OnlyRequest(r),
           TypeOK', Explained(r)', UNCHANGED cache \/ CacheKnown',
           \/ RequestKnown'
           \/ /\ pc'[r] # "reply"
              /\ pc'[r] \in {"load", "delete", "lookup"} => key[r] \notin StaticKey
    PROVE  KnowledgeInv'
  <1> USE DEF KnowledgeInv
  <1>1. RedisKnown'
    BY DEF OnlyRequest, RedisKnown
  <1>2. \A s \in Request \ {r} : Explained(s)'
    BY ExplainedStays DEF OnlyRequest
  <1>3. CacheKnown'
    BY DEF OnlyRequest, CacheKnown, KnownWithin
  <1>4. RequestKnown'
    BY DEF OnlyRequest, RequestKnown
  <1> QED
    BY <1>1, <1>2, <1>3, <1>4

\* The middleware takes up a request; a static key is refused here.
LEMMA BeginStep ==
    ASSUME KnowledgeInv, NEW r \in Request, Begin(r)
    PROVE  KnowledgeInv'
  <1>1. TypeOK /\ RequestTypes(r) /\ OnlyRequest(r)
    BY RequestFacts DEF KnowledgeInv
  <1>2. pc[r] = "idle" /\ UNCHANGED <<cache, got, readAt, failed>>
    BY DEF Begin
  <1>3. \/ key[r] \in StaticKey /\ pc'[r] = "denied"
        \/ key[r] \notin StaticKey /\ pc'[r] = "load"
    BY <1>1 DEF Begin, Authorized, TypeOK
  <1>4. TypeOK'
    BY <1>1, ZenonT(30) DEF Begin, Authorized, TypeOK
  <1>5. Explained(r)'
    BY <1>1, <1>3 DEF Explained, OnlyRequest
  <1> QED
    BY <1>1, <1>2, <1>3, <1>4, <1>5, RequestFrame

\* A live entry answers, and is recent enough.
LEMMA LoadStep ==
    ASSUME KnowledgeInv, NEW r \in Request, Load(r)
    PROVE  KnowledgeInv'
  <1>1. TypeOK /\ CacheKnown /\ RequestTypes(r) /\ OnlyRequest(r)
    BY RequestFacts DEF KnowledgeInv
  <1>2. pc[r] = "load" /\ key[r] \notin StaticKey /\ UNCHANGED cache
    BY <1>1 DEF Load, RequestTypes
  <1>3. pc'[r] \in {"served", "denied", "lookup", "delete"}
    BY <1>1 DEF Load, Authorized, TypeOK
  <1>4. TypeOK'
    BY <1>1, ZenonT(30) DEF Load, Authorized, TypeOK, RequestTypes
  <1>5. Explained(r)'
    <2>1. CASE cache[key[r]] # Absent /\ now < cache[key[r]].expiresAt
      <3>1. Authorized(r, cache[key[r]].fleetID) /\ cache[key[r]].fleetID \in MaybeFleet
        BY <1>1, <2>1 DEF Load, RequestTypes
      <3>2. PICK t \in Time : /\ <<key[r], cache[key[r]].fleetID, t>> \in history
                              /\ t =< now /\ now =< t + MaxAge
        BY <1>1, <2>1, LiveIsRecent DEF RequestTypes
      <3> QED
        BY <1>1, <1>2, <3>1, <3>2, AuthorizedExplains DEF OnlyRequest
    <2>2. CASE ~(cache[key[r]] # Absent /\ now < cache[key[r]].expiresAt)
      BY <1>1, <2>2 DEF Load, Explained, TypeOK
    <2> QED
      BY <2>1, <2>2
  <1> QED
    BY <1>1, <1>2, <1>3, <1>4, <1>5, RequestFrame

\* An expired entry is deleted.
LEMMA DeleteStep ==
    ASSUME KnowledgeInv, NEW r \in Request, Delete(r)
    PROVE  KnowledgeInv'
  <1>1. TypeOK /\ CacheKnown /\ RequestTypes(r) /\ OnlyRequest(r)
    BY RequestFacts DEF KnowledgeInv
  <1>2. pc'[r] = "lookup" /\ key[r] \notin StaticKey
    BY <1>1 DEF Delete, TypeOK, RequestTypes
  <1>3. Absent \in [fleetID : MaybeFleet, expiresAt : Nat]
    BY DEF Absent, MaybeFleet
  <1>4. TypeOK'
    BY <1>1, <1>3 DEF Delete, TypeOK
  <1>5. CacheKnown'
    <2>1. \A k \in Key : cache'[k] # Absent => cache'[k] = cache[k]
      BY <1>1 DEF Delete, TypeOK
    <2> QED
      BY <1>1, <2>1, Zenon DEF CacheKnown, KnownWithin, OnlyRequest
  <1>6. Explained(r)'
    BY <1>2 DEF Explained
  <1> QED
    BY <1>1, <1>2, <1>4, <1>5, <1>6, RequestFrame

\* Redis is read: what it held is in the history.
LEMMA LookupStep ==
    ASSUME KnowledgeInv, NEW r \in Request, Lookup(r)
    PROVE  KnowledgeInv'
  <1>1. TypeOK /\ RedisKnown /\ RequestKnown /\ RequestTypes(r) /\ OnlyRequest(r)
    BY RequestFacts DEF KnowledgeInv
  <1>2. /\ pc'[r] = "reply" /\ key[r] \notin StaticKey
        /\ got'[r] = redis[key[r]] /\ readAt'[r] = now /\ UNCHANGED cache
    BY <1>1 DEF Lookup, TypeOK, RequestTypes
  <1>3. TypeOK'
    BY <1>1 DEF Lookup, TypeOK, RequestTypes
  <1>4. RequestKnown'
    <2>1. <<key[r], redis[key[r]], now>> \in history
      BY <1>1 DEF RedisKnown, RequestTypes
    <2>2. now =< now + MaxLookup /\ now =< now
      BY <1>1, AuthAssumption DEF RequestTypes
    <2> QED
      BY <1>1, <1>2, <2>1, <2>2 DEF RequestKnown, OnlyRequest
  <1>5. Explained(r)'
    BY <1>2 DEF Explained
  <1> QED
    BY <1>1, <1>2, <1>3, <1>4, <1>5, RequestFrame

\* Forgetting the reply keeps its types.
LEMMA ForgetTypes ==
    ASSUME TypeOK, NEW r \in Request, Forget(r)
    PROVE  got' \in [Request -> MaybeFleet] /\ readAt' \in [Request -> Time]
  BY AuthAssumption DEF Forget, TypeOK, MaybeFleet, Time

\* A failed lookup denies.
LEMMA LookupFailsStep ==
    ASSUME KnowledgeInv, NEW r \in Request, LookupFails(r)
    PROVE  KnowledgeInv'
  <1>1. TypeOK /\ RequestTypes(r) /\ OnlyRequest(r)
    BY RequestFacts DEF KnowledgeInv
  <1>2. pc'[r] = "denied" /\ r \in failed' /\ UNCHANGED cache
    BY <1>1 DEF LookupFails, Unauthenticated, TypeOK
  <1>3. TypeOK'
    BY <1>1, ForgetTypes, Zenon DEF LookupFails, Unauthenticated, TypeOK, RequestTypes
  <1>4. Explained(r)'
    BY <1>2 DEF Explained
  <1> QED
    BY <1>1, <1>2, <1>3, <1>4, RequestFrame

\* The reply answers; a fleet is cached.
LEMMA ReplyStep ==
    ASSUME KnowledgeInv, NEW r \in Request, Reply(r)
    PROVE  KnowledgeInv'
  <1>1. TypeOK /\ CacheKnown /\ RequestKnown /\ RequestTypes(r) /\ OnlyRequest(r)
    BY RequestFacts DEF KnowledgeInv
  <1>2. /\ key[r] \notin StaticKey /\ <<key[r], got[r], readAt[r]>> \in history
        /\ readAt[r] =< now /\ now =< readAt[r] + MaxLookup
    BY <1>1 DEF Reply, RequestKnown
  <1>3. pc'[r] \in {"served", "denied"}
    BY <1>1 DEF Reply, Authorized, Unauthenticated, TypeOK
  <1>4. now =< readAt[r] + MaxAge
    BY <1>1, <1>2, AuthAssumption DEF MaxAge, RequestTypes
  <1>5. Forget(r)
    BY DEF Reply
  <1>6. got' \in [Request -> MaybeFleet] /\ readAt' \in [Request -> Time]
    BY <1>1, <1>5, ForgetTypes
  <1>7. Authorized(r, got[r]) => Explained(r)'
    BY <1>1, <1>2, <1>4, AuthorizedExplains DEF RequestTypes, OnlyRequest
  <1>8. CASE got[r] = NoFleet
    <2>1. Unauthenticated(r) /\ UNCHANGED cache
      BY <1>8 DEF Reply
    <2>2. TypeOK'
      BY <1>1, <1>6, <2>1 DEF Reply, Unauthenticated, TypeOK, RequestTypes
    <2>3. Authorized(r, got[r])
      BY <1>8, <2>1, UnknownIsDenied, Zenon
    <2> QED
      BY <1>1, <1>3, <1>7, <2>1, <2>2, <2>3, RequestFrame
  <1>9. CASE got[r] # NoFleet
    <2> DEFINE e == [fleetID |-> got[r], expiresAt |-> now + TTL]
    <2>1. Authorized(r, got[r]) /\ cache' = [cache EXCEPT ![key[r]] = e]
      BY <1>9 DEF Reply
    <2>2. /\ e \in [fleetID : MaybeFleet, expiresAt : Nat] /\ e.fleetID = got[r]
          /\ e.expiresAt = now + TTL /\ now + TTL =< now + TTL
      BY <1>1, AuthAssumption DEF RequestTypes
    <2> HIDE DEF e
    <2>3. /\ cache' \in [Key -> [fleetID : MaybeFleet, expiresAt : Nat]]
          /\ cache'[key[r]] = e
          /\ \A k \in Key \ {key[r]} : cache'[k] = cache[k]
      BY <1>1, <2>1, <2>2 DEF TypeOK, RequestTypes
    <2>4. TypeOK'
      BY <1>1, <1>6, <1>9, <2>1, <2>2, <2>3, SMTT(30)
         DEF Reply, Authorized, TypeOK, RequestTypes, OnlyRequest
    <2>5. CacheKnown'
      <3>1. now + TTL =< readAt[r] + (MaxLookup + TTL)
        <4>1. now \in Nat /\ readAt[r] \in Nat /\ MaxLookup \in Nat /\ TTL \in Nat
          BY <1>1, AuthAssumption DEF RequestTypes
        <4> QED BY <1>2, <4>1
      <3>2. KnownWithin(key[r], e.fleetID, e.expiresAt, MaxLookup + TTL)
        BY <1>1, <1>2, <2>2, <3>1 DEF KnownWithin, RequestTypes
      <3> QED
        BY <1>1, <2>3, <3>2, ZenonT(30) DEF CacheKnown, KnownWithin, OnlyRequest
    <2> QED
      BY <1>1, <1>3, <1>7, <2>1, <2>4, <2>5, RequestFrame
  <1> QED
    BY <1>8, <1>9

\* A change of a key in Redis is known at once.
LEMMA ChangeStep ==
    ASSUME KnowledgeInv, NEW k \in Key, NEW f \in MaybeFleet, Change(k, f)
    PROVE  KnowledgeInv'
  <1> USE DEF KnowledgeInv
  <1>1. /\ UNCHANGED <<now, cache, pc, key, wanted, got, readAt, answered, failed>>
        /\ history' = history \cup {<<k, f, now>>} /\ redis' = [redis EXCEPT ![k] = f]
        /\ changes' = changes + 1 /\ changes < MaxChanges
    BY DEF Change, reqVars
  <1>2. TypeOK'
    <2>1. changes' \in 0..MaxChanges
      BY <1>1, AuthAssumption DEF TypeOK
    <2>2. history' \subseteq Key \X MaybeFleet \X Time
      BY <1>1 DEF TypeOK
    <2> QED
      BY <1>1, <2>1, <2>2 DEF TypeOK
  <1>3. RedisKnown'
    BY <1>1 DEF RedisKnown, TypeOK
  <1>4. CacheKnown' /\ RequestKnown'
    BY <1>1 DEF CacheKnown, KnownWithin, RequestKnown
  <1>5. \A r \in Request : Explained(r)'
    BY <1>1, ExplainedStays
  <1> QED
    BY <1>2, <1>3, <1>4, <1>5

\* The clock does not run ahead of a reply, and what Redis holds is still known.
LEMMA TickStep ==
    ASSUME KnowledgeInv, Tick
    PROVE  KnowledgeInv'
  <1> USE DEF KnowledgeInv
  <1>1. /\ UNCHANGED <<redis, changes, cache, pc, key, wanted, got, readAt, answered, failed>>
        /\ history' = history \cup {<<k, redis[k], now'>> : k \in Key}
        /\ now' = now + 1 /\ now < MaxTime
        /\ \A r \in Request : pc[r] = "reply" => now < readAt[r] + MaxLookup
    BY DEF Tick, reqVars
  <1>2. now \in Nat /\ now' \in Time
    BY <1>1, AuthAssumption DEF TypeOK, Time
  <1>3. TypeOK'
    <2>1. history' \subseteq Key \X MaybeFleet \X Time
      BY <1>1, <1>2 DEF TypeOK
    <2>2. \A k \in Key : cache[k].expiresAt \in Nat
      BY DEF TypeOK
    <2>3. \A k \in Key : \/ cache[k] = Absent
                         \/ cache[k].fleetID # NoFleet /\ cache[k].expiresAt =< now' + TTL
      BY <1>1, <1>2, <2>2, AuthAssumption DEF TypeOK
    <2> QED
      BY <1>1, <1>2, <2>1, <2>3 DEF TypeOK
  <1>4. RedisKnown'
    BY <1>1 DEF RedisKnown
  <1>5. CacheKnown'
    <2>1. \A t \in Time : t =< now => t =< now'
      BY <1>1, <1>2, TimeFacts, Zenon
    <2> QED
      BY <1>1, <2>1, Zenon DEF CacheKnown, KnownWithin
  <1>6. RequestKnown'
    <2>1. \A r \in Request : readAt[r] \in Nat
      BY AuthAssumption DEF TypeOK, Time
    <2>2. ASSUME NEW r \in Request, pc[r] = "reply"
          PROVE  readAt[r] =< now' /\ now' =< readAt[r] + MaxLookup
      <3>1. readAt[r] =< now /\ now < readAt[r] + MaxLookup
        BY <1>1, <2>2 DEF RequestKnown
      <3> QED BY <1>1, <1>2, <2>1, <3>1, AuthAssumption
    <2> QED
      BY <1>1, <2>2, ZenonT(30) DEF RequestKnown
  <1>7. \A r \in Request : Explained(r)'
    BY <1>1, ExplainedStays
  <1> QED
    BY <1>3, <1>4, <1>5, <1>6, <1>7, SMTT(30)

\* Every step of the specification keeps the invariant.
LEMMA KnowledgeStep == KnowledgeInv /\ [Next]_vars => KnowledgeInv'
  <1> SUFFICES ASSUME KnowledgeInv, [Next]_vars PROVE KnowledgeInv'
    OBVIOUS
  <1>1. CASE Next
    BY <1>1, BeginStep, LoadStep, DeleteStep, LookupStep, LookupFailsStep, ReplyStep,
       ChangeStep, TickStep DEF Next
  <1>2. CASE UNCHANGED vars
    BY <1>2, Zenon DEF vars, reqVars, KnowledgeInv, TypeOK, RedisKnown, CacheKnown, KnownWithin,
                RequestKnown, Explained, WasRecently
  <1> QED
    BY <1>1, <1>2

\* The invariant holds throughout.
LEMMA Knowledge == Spec => []KnowledgeInv
  BY KnowledgeInit, KnowledgeStep, PTL DEF Spec

-----------------------------------------------------------------------------

\* The authenticator and the requests keep their types; no cache entry outlives
\* its TTL and none is kept for a key without a fleet.
THEOREM TypeCorrect == Spec => []TypeOK
  <1>1. KnowledgeInv => TypeOK
    BY DEF KnowledgeInv
  <1> QED
    BY <1>1, Knowledge, PTL

\* FleetID and the fleet check serve a request only if its key belonged to the
\* fleet within the TTL and a lookup, however requests race in the cache.
THEOREM RevocationTakesEffect == Spec => []ServedWasAuthorized
  <1>1. KnowledgeInv => ServedWasAuthorized
    <2> SUFFICES ASSUME KnowledgeInv, NEW r \in Request, pc[r] = "served"
                 PROVE  key[r] \notin StaticKey /\ WasRecently(r, wanted[r])
      BY DEF ServedWasAuthorized
    <2>1. Explained(r)
      BY DEF KnowledgeInv
    <2> QED
      BY <2>1 DEF Explained
  <1> QED
    BY <1>1, Knowledge, PTL

\* A request is denied only after a failed lookup, with a static key, or when
\* its key recently did not belong to the fleet.
THEOREM DenialsHaveReasons == Spec => []DeniedHasReason
  <1>1. KnowledgeInv => DeniedHasReason
    <2> SUFFICES ASSUME KnowledgeInv, NEW r \in Request, pc[r] = "denied",
                        r \notin failed, key[r] \notin StaticKey
                 PROVE  \E f \in MaybeFleet \ {wanted[r]} : WasRecently(r, f)
      BY DEF DeniedHasReason
    <2>1. Explained(r)
      BY DEF KnowledgeInv
    <2> QED
      BY <2>1 DEF Explained
  <1> QED
    BY <1>1, Knowledge, PTL

=============================================================================
