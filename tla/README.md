# Fleet monitor: formal specification

TLA+ specifications of the two Go services in this repository, checked with TLC
on small instances and, for the properties that matter most, proved with TLAPS
for every value of the constants.

The system is two processes that share Redis and TimescaleDB and nothing else:

    devices --HTTP--> ingestion:  auth -> Dispatch -> Run -> DB writers ------> TimescaleDB
                                                          -> state writers ---> Redis hash, PUBLISH
                                                          -> alert evaluators > Redis key, vehicle_alerts, PUBLISH
    serving:  heartbeat monitor, deviation detector, stop detector, ETA estimator (tickers)
              read the Redis hashes, write flags, vehicle_alerts, trip progress
              hub: one pair of Redis subscriptions per fleet -> WebSocket clients
              handlers: attention queue, acknowledge, resolve, read-only queries

## 1. Inventory

| Part | State it owns | Operations | What makes it hard | Module |
|---|---|---|---|---|
| Dispatcher (`pipeline/dispatcher.go`) | `ingress` and three bounded channels | `Dispatch`, `Run`, `send` | back-pressure, cancellation between two sends | IngestPipeline, Delivery |
| DB writers (`pipeline/db_writer.go`) | a batch per worker, counters | receive, tick, final flush, retry | an insert that commits and reports an error | IngestPipeline |
| State writers (`pipeline/state_writer.go`) | a batch per worker, the state hashes | receive, tick, pipeline | several writers and one vehicle, pipelines that break off and are sent again, expiry | IngestPipeline |
| Alert evaluators (`pipeline/alert_evaluator.go`) | dedup keys, `vehicle_alerts` | claim, insert, release, publish | two stores, lost answers, expiry between calls, crash | AlertDedup |
| Ingestion process (`main.go`) | context, HTTP server | signal, shutdown | handlers outlive the dispatcher | IngestPipeline |
| Authenticators (`auth/authenticator.go` of both services) and fleet check | in-process cache with expiry | `FleetID`, `FleetScoped` | concurrent lookups, keys that change meanwhile | AuthCache |
| Hub and clients (`ws/hub.go`, `ws/client.go`) | channels, fleet map, send buffers | register, unregister, fan-out, eviction, drain, shutdown | unordered `select`, double close, slow clients | WsHub |
| Deviation detector and alert handlers | deviation flag, dedup key, alert rows | tick, `fireAlert`, `autoResolve`; acknowledge, unacknowledge, resolve | detector and operators on one row, constraint against key | RouteAlerts |
| Stop detector | `trip_stop_progress`, `trip.status` | tick, `markStop`, `completeTrip` | one snapshot per tick, lost updates, restart | TripStops |
| Heartbeat monitor | `online_status` | tick, `check`, `setOffline` | expiry of the hash against the threshold, ignored errors | Heartbeat |
| ETA estimator, trip detail, panel | `trip:<id>:eta` | tick, `computeAndStore`; reads of trip, stops, key | no snapshot over two reads, a key that outlives its trip | TripViews |
| Lists (attention queue, alert histories, trips) | none | COUNT, SELECT, pages | pages of a table that changes, equal times, ignored errors | PagedLists |
| Summary (`handler/analytics.go`) | none | COUNT, SCAN, HMGET | SCAN repeats and misses, hashes expire on the way | FleetSummary |
| Stores, configuration, schema, seeding | connections | start-up only | | not modelled |

The hazards of each part, with the line at which they bite and the properties
that would notice, are listed in `PROJECT.json`.

## 2. Modules

Each component has a module with its variables, one action per operation and its
properties; `MC<module>` holds what TLC needs (model values, symmetry), and
`<module>Proofs` the theorems. Some proof modules serve two components: TripViewsProofs
(TripStops and TripViews), DashboardProofs (AuthCache and Dashboard), VehicleStatusProofs
(Heartbeat and FleetSummary) and AlertHandlersProofs (RouteAlerts and PagedLists); those
of the pipeline are IngestPipelineLemmas and, on top of it, IngestPipelineProofs. A
definition whose comment starts with "Fault:" is a deliberately wrong variant of the
definition after it; it is not part of the
specification, and replacing the definition by it makes TLC report the property
that guards against it.

**IngestPipeline.** A message is the number of its admission. `Admit`, `Reject`
and `CountReceived` are the end of the HTTP handler; `RunReceive`, `RunSend` and
`RunStop` are `Dispatcher.Run`, where each of the three sends is a step and can be
interrupted by cancellation. Workers receive, tick and flush. A DB flush is an
attempt and a retry, each of which can fail with or without having inserted;
under a cancelled context an attempt fails without rows. A Redis pipeline is applied
message by message, other writers' commands in between. It can break off after any of
them, and go-redis then sends it again from its start (`NewRedisStore` leaves
`MaxRetries` at its default) or reports an error; commands of an attempt it gave up can
still reach Redis at any later time (`LateUpdate`). `beside` is a history: what the
other state writers held when the flush of a message began. `main` goes from serving
through draining to exit. Left out: the closed-channel branches (nothing closes the
channels), start-up.

**Delivery** is what the pipeline promises, without channels, workers and batches:
a message is accepted, and then each sink is done with it at most once; rows appear
only for messages the database is not done with, and each it is done with moves one
of two counters by one. IngestPipeline implements it (`KeepsContract`), with
`admitted`, `settled` and the two metrics as its variables.

**AlertDedup.** Evaluators claim `alert:<vehicle>:<type>` (SETNX with a TTL),
insert under the exclusion constraint, release after a failed insert and publish.
Every call can fail, or succeed with its answer lost; the clock advances between
any two steps; the process can crash. A DEL may be sent again by the client after it
took effect. `owner` and `robbed` are histories: whose claim a key is, and whose key was
deleted while they were at work. Redis and the database are assumed to read one clock.
Which rules fire is an input.

**WsHub.** `register`, `unregister` and `broadcast` are bounded channels read by one
`select`, so `RemoveClient` can precede the `AddClient` of the same client (a
*ghost*: it stays in the map with nobody to remove it; the properties that cannot
hold of it say so). Drain goroutines carry the generation of their subscription, so
old and new ones coexist. A pump that leaves its loop runs `close`: the first one in
`once.Do` may block on a full `unregister`, and the other waits for it. Subscribing to
Redis inside `addClient` is one step, and undecodable payloads are left out.

**AuthCache.** A request passes through the static keys, `Load`, `Delete`, the
lookup, `Store` and the fleet check, each a step; keys change in Redis at any time.
`MaxLookup` bounds the time from Redis reading a key to the answer being used.
Both authenticators are this algorithm (serving replaces a TTL of zero by 300 s).
The fleet check is the one of ingestion's `Handle`, of the routes with
`FleetScoped` and of `ServeWS`; routes without one are not the subject.

**RouteAlerts.** One vehicle with its trips. Rows carry their age up to the window
of the exclusion constraint, keys the time they have left. The detector's flag,
claim, insert, update and delete are separate steps that can fail; operators act
between any two. `Slot` bounds the rows that can still have an effect.

**TripStops.** One trip. A tick takes its snapshot of the statuses, reads the
position (any, at each tick) and then updates stop after stop; an arrival is recorded
first and announced in a step of its own. Updates and announcements can be lost, the
service can restart, and the trip can be cancelled in between; histories record which
of them were lost. The distance computations are
abstracted to the set of stops the vehicle is near; stops may lie within each
other's radius.

**TripViews** extends TripStops by the ETA estimator, which ticks beside the stop
detector, and by a request: the trip detail or the trip section of the panel, each
of its reads a step. The two do not influence each other, so a behaviour follows one
of them. An ETA is the stop it was computed for. The key expires at any
time; under fairness it does so once nobody renews it.

**PagedLists.** A client reads a list from its first page to its last; a request is
a COUNT, whose error is ignored, and a SELECT. Alerts arrive, operators work on
them, trips are planned. A SELECT may break off in the middle of its rows, which is
answered as if it had ended. Rows of equal times come in either order in each SELECT.
Severities are critical or not, and filters on columns that never change are left
out, as they only make the table smaller. A page is a set: its order is the order
of the pages.

**FleetSummary.** The registry is counted, then SCAN and HMGET alternate, then the
remaining counts follow; every call can fail. SCAN is taken at Redis's word: a key
present throughout is returned at least once, others perhaps, any of them again.

**Dashboard** puts AuthCache, PagedLists and FleetSummary side by side. The
middleware is done before a handler begins and they share no state, so a behaviour
is about one of the three.

**Heartbeat.** One vehicle, times as ages. A tick loads the threshold of the fleet and
goes by the default when that fails. The monitor is the only writer of `online_status`,
so its GET and SET are one step that may lose either; reading `received_at` before it
and the broadcast after it are steps of their own. The broadcast can be lost, and the
service can restart between any two.

The components meet through values one module treats as input of another: the
state hash of IngestPipeline is what Heartbeat, TripStops and RouteAlerts read
(present, absent or expired); the completion of TripStops is `TripEnds` of
RouteAlerts; the exclusion constraint is the same one in AlertDedup and
RouteAlerts, which use different alert types and so never conflict; events of the
jobs enter WsHub through `BroadcastEvent`.

## 3. Runs

| Run | Instance | Shows |
|---|---|---|
| IngestSafety | two state writers and an evaluator, channels of size 1, two messages of one vehicle, one pipeline sent again, a signal at any time | capacities; at every sink, each admitted message is in exactly one place; the hash of a vehicle is older than an applied update only by what another writer held when its flush began, or by an attempt given up |
| IngestLive | DB writer and evaluator, a batch larger than its channel, failed inserts and lost answers, fairness | one place per message and at most two rows; the pipeline implements Delivery, so that its counters account for every message and every missing row; messages are settled until the signal, partial batches included; every goroutine returns after it |
| IngestDrop (violated) | one DB writer | messages are left behind by `Run` |
| AlertDedup | two evaluators, two rules, window 2, one crash | a claim excludes others for the whole of its work, unless it expired or its key was deleted by a late or repeated DEL; a held key is explained; what is published is stored |
| AlertWindows (violated) | two evaluators, no faults | key and row windows do not coincide |
| Hub | two clients of a fleet, events of two fleets, all capacities 1, fairness | no panic, no gaps, only events of one's own fleet; subscriptions accounted for; empty subscriptions end; closed clients have their pumps ended, and returned while the hub runs |
| AuthCache | three requests, a static key and one that moves between fleets or is revoked, TTL 2, lookup 1 | a revoked key is honoured for less than TTL + lookup; nobody is denied without a reason |
| AuthCache (lists) | up to three rows, pages of one and two rows, two operations, one error | rows are missed only for rows that left, came between COUNT and SELECT, or were not read before an error, or tie; repeated only for rows that came or tie |
| AuthCache (summary) | two vehicles of the fleet, one of another, one change, one repeated key, one failure | a class counts those that were in it throughout and nobody who never was, up to repeated keys and failed reads; offline is bounded from both sides and never negative |
| RouteAlerts | two trips, one failure, fairness | "follows its route" means no open deviation alert; lasting deviation alerts again and again, lasting return resolves |
| Stops | three stops, two faults (lost updates, lost announcements, restarts), cancellation, the estimator or a request, fairness | MISSED means passed; announcements made and lost are exactly the arrivals recorded and the recordings lost; completion is lost only with its update; updates from an old snapshot undo nothing; no stop before that of an ETA is pending; a detail that says COMPLETED shows the arrival; the ETA of an ended trip goes |
| StopsMissed (violated) | three stops, no faults | stops passed before the final one stay PENDING |
| Heartbeat | threshold 4, default 2, expiry 3 (units of 10 s), three faults, fairness | broadcasts repeat, and clients believe another status than the stored one, only after faults; nobody goes offline while fresh by the threshold in use; silent goes offline, fresh goes online |
| HeartbeatThreshold (violated) | threshold 6, expiry 3 | offline before the threshold |

A violated run states what a comment or a document of the repository says;
`PROJECT.json` quotes it under `findings`.

The models also have these behaviours, which no run singles out. Updates of one vehicle
that different state writers hold are applied in any order, and commands of a pipeline
attempt that go-redis gave up can take a hash back to an older message; nothing in the
repository promises an order. An evaluator whose claim has expired frees the next one's
claim when its insert fails, so a third may work beside the second; that their rows are
a window apart is left to the exclusion constraint. A client can believe a vehicle
offline that is online: the SET of "offline" fails, the broadcast is made, and the
vehicle is back before the next check, which finds "online" stored. A status broadcast
that the hub dropped is not repeated before the next change; an arrival whose
announcement is lost after it was recorded is never announced. When the thresholds
cannot be loaded the monitor goes by the default without a word. Pumps can be left
waiting in `close` after the hub has returned. A vehicle that moves with its engine off
counts as `active_moving`, which the comment in `analytics.go` excludes. HTTP handlers admit
messages for a while after `Run` has returned. An operator can unacknowledge a
resolved alert, which the attention queue does not show again. The deviation flag
of a trip that ended off its route stays set until the next trip. A trip cancelled
during a tick can still be completed by it. A failed COUNT is answered with 0 pages,
which ends the reading of a list, and a SELECT that breaks off with the rows it has.
Trips that depart at the same time can be on two
pages or on none. `parsePagination` answers a limit above the maximum with the
default. Once a state hash has expired, the queue reports the condition of a
LOW_FUEL alert as active (a missing value reads as 0).

**Bounds.** Channels and batches of size 1 and 2 put every queue at its limit within
a few steps; two or three actors are what each race needs (a claim that expires, is
taken over and released late needs two evaluators; a stale answer stored over a
fresh one needs two requests and a third to read it). Clocks run past a window
where expiry matters. Counters (messages, events, faults, changes, crashes, time)
are capped by constants named `Max...` in guards. `Slot` in RouteAlerts is a single
row: it is reused once its row is closed and has left the window, and a second row
beside an old open one is beyond the bound.
The state writers and the DB writers are in different runs, IngestSafety and IngestLive,
because they meet only in the dispatcher's order of sends and together are too many
states; conservation, the bound on rows, the refinement of Delivery and what a hash may
lag behind are proved for all pools together, of any size (section 4).
Three rows in pages of one and two give up to three pages, full and partial, and room
for rows to come and leave between them; a queue begins with open alerts only, and
alerts that come back are met through `UnacknowledgeRow`. Two vehicles of the fleet
are enough for one to be miscounted while the other is not.
Deadlock is checked except where the system stops by itself: after the exit of the
process (IngestPipeline, WsHub) and when all requests are answered (Dashboard).

**Fairness.** Weak fairness of each goroutine's next step: Go schedules runnable
goroutines, a `select` does not pass over a ready case for ever, calls return
because they carry timeouts, tickers keep ticking, and a writer whose peer does not
read is ended by its write deadline. `WF` of the
`ctx.Done` branches is stated separately from the other branches of a `select`.
Nothing is assumed of clients, vehicles, operators, failures or the signal.
Failures of calls are finite in number where liveness is checked. In TripViews the
ticks of the stop detector go on, `computeAndStore` returns, and a key that is no
longer renewed expires (its TTL is ten minutes); requests and the estimator's ticks
need not happen.

## 4. Proofs

All are for arbitrary constants satisfying the named assumptions (positive
capacities, disjoint pools, natural-number times; in Heartbeat, a delay and a latency
that together do not exceed the threshold). In parentheses: the property a run checks.
TLC finds each inductive invariant to hold on the instance of the component's run.

- **IngestPipelineLemmas**: `TypeCorrect`, and that the steps of each process preserve
  the invariant `Conserved`.
- **IngestPipelineProofs**: `Conservation` (ExactlyOnePlace), by `Conserved`, an
  invariant that says for each sink that the places of a message (ingress, hand,
  channel, batches, settled) are disjoint and together are exactly the admitted
  messages, queues without repetition; `RowsBounded` (AtMostTwoRows), which needs
  Conservation: a message could have more than two rows only by being in two
  batches or returning to one, so the invariant bounds the rows by the place and
  the number of attempts.
  `ContractKept` (KeepsContract), the refinement of Delivery: what a worker settles is
  in its batch, so by Conservation it was admitted and not settled before; every other
  step leaves the variables of Delivery alone or moves one counter it allows.
  `OlderStateExplained` (CurrentState), for any number of state writers (the default of
  `STATE_WRITER_WORKERS` is 5), from Conserved and `StateInv`: the channel is FIFO, so
  what another writer takes after a flush began is newer, and what it held before is in
  `beside`. Batches are ascending; what is still held is newer than what was applied, or
  was held beside it, and so between two writers of which one flushes; what Redis has
  applied of a pipeline is explained before Exec returns, also when it is sent again.
- **AlertDedupProofs**: `TypeCorrect`, `ClaimsAreExclusive` (ClaimsExclusive),
  `KeysExplained` (HeldKeyHasRow), `PublishedStored` (PublishedIsStored). TypeOK supplies
  that no claim, key or row lies in the future. Exclusion needs `KeyStands`: until its
  claim expires or its key is deleted, the key an evaluator works on is the one it has
  set. With these the others are inductive.
- **WsHubProofs**: `TypeCorrect` and `HubNeverPanics` (NoPanic), from
  `HubInv == TypeOK /\ Waiting /\ AtHome /\ GenBound /\ NoPanic`: a client waiting
  in `register` is there once, in no map and open (`Waiting`), members are in the
  map of their own fleet (`AtHome`, so removal finds them), and subscriptions are
  at most as many as clients added (`GenBound`).
  `ClientsMissNothing` (GapFree) and `SubscriptionsExplained`
  (SubscriptionsAccountedFor), from HubInv and `StreamInv`: events in the channels
  are of the fleet whose subscription they came from (`HomeEvents`), the stream of a
  client is a window of what was fanned out, which for a member reaches to its end
  (`InStep`), and whoever is in a map of a fleet keeps it subscribed
  (`MembersCount`).
- **DashboardProofs**: `PartsOfDashboard`, that every behaviour of Dashboard is one of
  AuthCache, of PagedLists and of FleetSummary, so that what is proved of the parts is
  true in the specification the run checks. Of AuthCache: `TypeCorrect`, `RevocationTakesEffect`
  (ServedWasAuthorized), `DenialsHaveReasons` (DeniedHasReason), from `KnowledgeInv`:
  what a reply under way, a cache entry or an answer says is traced to a moment at
  which Redis held it, at most a lookup, a lookup and a TTL, or `MaxAge` ago.
- **TripViewsProofs**: of TripStops, `MissedStopsWerePassed` (MissedWasPassed),
  `ArrivalsAnnounced` (ArrivalsAnnouncedOnce), `ReachedTripsComplete`
  (ReachedIsCompleted) and `NothingIsUndone` (UpdatesUndoNothing, an action
  property), from `StopsInv`. Its core is `SnapshotHolds`: of the stops that the tick has yet to
  reach, the table still says what the snapshot says, so that an update which does not
  look at the table finds what the tick has decided upon. `ArrivalsCounted` balances
  announcements made, lost and about to be made with arrivals recorded and lost.
  `ReadersDoNotInterfere` states that TripViews implements TripStops. Then
  `ViewsTypeCorrect` (ViewsTypeOK), `EtaIsOfNextStop` (NoPendingBeforeEta) and
  `CompletedDetailShowsArrival` (CompletedShowsArrival), from `ViewsInv`: the
  stop a tick of the estimator has chosen is as good as a stored one, and a request
  that has read COMPLETED will find the final stop recorded.
- **VehicleStatusProofs**: of Heartbeat, `TypeCorrect`, `RepeatsExplained` (RepeatsAreFaults),
  `OfflineHasReason` (NotOfflineTooEarly, an action property), from `HeartbeatInv`:
  repeats, those about to be made, and one more while clients and Redis disagree, are at
  most the faults (`Broadcasts`); a check goes by the default threshold only after a load
  failed (`Loaded`); the ages in the hash and those a check has read exceed the real
  silence by at most the delay (`Ages`, `Judged`).
  Of FleetSummary: `SummariesAddUp` (SummaryCounted), from `SummaryInv`, which states the
  bounds in the middle of the scan: a count exceeds the vehicles read so far by no more
  than keys returned again (`CountsAtMost`), and lacks no more of the steady ones than
  reads failed (`CountsAtLeast`), for each class and for the sum of the three.
- **AlertHandlersProofs**: of RouteAlerts, `TypeCorrect` and `FollowingMeansResolved`
  (FollowingHasNoOpenAlert), from `RouteInv`: a check comes to insert a row only with
  the flag set or a call failed, and deletes the key only with all rows closed
  (`CheckSoFar`).
  Of PagedLists: `ListsReadOnce` (RowsShownOnce), for tables of any size, any
  limits and any number of changes. The property speaks of the end of a reading; the
  invariant `PagesInv` says what is true between two statements, in terms of the place
  of a row (the number of rows before it) and the places passed so far. Rows that were
  passed without being seen are at most those that left or were cut off with their page
  (`FewMissed`): one row leaving
  moves each row behind it one place forward, and only one of them over the boundary.
  Rows that were seen and are still to come, together with those shown again, are at most
  those that entered (`FewRepeats`). Rows of equal times change places between two SELECTs
  and are left out of both counts; the place of any other row does not depend on their
  order (`PlaceWithoutTies`).
  `CountedAll` ties the last page to COUNT: it ends the reading only when all rows but
  the torn ones are passed. The lemmas it rests on are about ranks in a total order:
  they are distinct, so no more rows than places are on a page (`RanksFit`, by the
  cardinality of an injective image), and one row entering moves a rank by at
  most one (`RankEntered`, `PlacesMove`).

Only model-checked are the liveness properties (EventuallySettled, GoroutinesReturn,
EmptySubscriptionsEnd, ClosedClientsEnd, DeviationAlerts, ReturnResolves,
EtaOfEndedTripGoes, SilentGoesOffline, FreshGoesOnline), because the prover handles
neither fairness nor ENABLED. Every invariant, action property and refinement that a
passing run checks is also stated by a theorem.

The provers cannot use the induction theorems of the library. The one place that needs
induction, that a set of stops has a last one, is proved from the well-foundedness of
the natural numbers.

## 5. Not modelled

- Parsing, validation and formatting of requests and events, health probes, logging:
  no state changes.
- Single reads copied to an answer: the registry, driver, live values and recent
  alerts of the panel, active-trip, the alert detail, and the trip and condition a
  queue entry is joined with. One row is read at one moment, so nothing can be torn.
- Geometry (`geo.go`), thresholds of alert rules, the time of an ETA: floating point;
  their outcomes are inputs.
- Start-up, configuration, connection pools: sequential and once.
- Schema and seed scripts: statements run one after the other before the services
  and end at the first error. What the services rely on (the exclusion constraint,
  nullable columns, statuses) is in the modules that use it.

## 6. Plan

1. Refinement: at most one alert per window, implemented by AlertDedup.
2. Composition: state writers, expiry and Heartbeat together with WsHub's events
   (does a client's last event agree with the stored status); stop detector and
   deviation detector on one trip.
