------------------------------- MODULE WsHub -------------------------------
(***************************************************************************)
(* The WebSocket hub of the serving service: connections register with the *)
(* hub goroutine and unregister when one of their two pumps ends, the hub  *)
(* keeps one pair of Redis subscriptions per fleet while the fleet has     *)
(* clients, and fans every event of a fleet out to its clients, evicting   *)
(* those whose buffer is full.                                             *)
(*                                                                         *)
(* register, unregister and broadcast are three buffered channels, read by *)
(* one select: the hub may handle an unregistration before the             *)
(* registration that was sent first.  The data of an event is the fleet it *)
(* is about and a number that tells events apart; its encoding is left     *)
(* out.                                                                    *)
(***************************************************************************)
EXTENDS Integers, Sequences, FiniteSets

CONSTANTS
    Client, Fleet,
    FleetOf,      \* fleetID of each client, the fleet its token belongs to
    Topic,        \* telemetry and alerts: the channels of a fleet in Redis
    RegisterCap, UnregisterCap, BroadcastCap,  \* 64, 64 and 1024
    SendCap,      \* sendBufferSize
    MaxEvents     \* bound: events published or raised by jobs

ASSUME CapsAssumption ==
    /\ RegisterCap \in Nat \ {0} /\ UnregisterCap \in Nat \ {0}
    /\ BroadcastCap \in Nat \ {0} /\ SendCap \in Nat \ {0}
    /\ MaxEvents \in Nat
    /\ FleetOf \in [Client -> Fleet]
    /\ IsFiniteSet(Client)

Event == [fleet : Fleet, n : 1..MaxEvents]
broadcastMsg == [fleetID : Fleet, data : Event]

\* Every client joins once, so a fleet is subscribed at most so many times.
Generation == 0..Cardinality(Client)

VARIABLES
    register, unregister, broadcast,  \* the channels of Hub
    running,   \* Hub.Run has not returned
    cancelled, \* ctx is done
    members,   \* fleets[f].clients
    subscribed,\* fleets[f] exists
    gen,       \* how often f was subscribed: names the current goroutines
    inbox,     \* events a subscription has received, per fleet, topic and gen
    draining,  \* the drain goroutines that have not returned
    served,    \* clients whose ServeWS reached the registration
    stream,    \* all events put into a client's send channel
    written,   \* how many of them writePump has taken out
    closes,    \* how often the send channel was closed
    reader, writer,  \* the pumps: "none", in their loops, in close, or returned
    once,      \* Client.once: "no", "sending" to unregister, "done"
    events,    \* number of events so far
    fanned,    \* history: events fanned out while the fleet had an entry
    joined,    \* history: Len(fanned) when the client was added
    ghosts     \* history: clients added after their unregistration was handled

chanVars == <<register, unregister, broadcast>>
procVars == <<running, cancelled>>
fleetVars == <<members, subscribed, gen>>
drainVars == <<inbox, draining>>
pumpVars == <<reader, writer, once, written>>
histVars == <<fanned, joined, ghosts>>
vars == <<chanVars, procVars, fleetVars, drainVars, served, stream, closes, pumpVars,
          events, histVars>>

Init ==
    /\ register = <<>> /\ unregister = <<>> /\ broadcast = <<>>
    /\ running = TRUE /\ cancelled = FALSE
    /\ members = [f \in Fleet |-> {}]
    /\ subscribed = [f \in Fleet |-> FALSE]
    /\ gen = [f \in Fleet |-> 0]
    /\ inbox = [d \in Fleet \X Topic \X Generation |-> <<>>]
    /\ draining = {}
    /\ served = {}
    /\ stream = [c \in Client |-> <<>>]
    /\ written = [c \in Client |-> 0]
    /\ closes = [c \in Client |-> 0]
    /\ reader = [c \in Client |-> "none"] /\ writer = [c \in Client |-> "none"]
    /\ once = [c \in Client |-> "no"]
    /\ events = 0
    /\ fanned = [f \in Fleet |-> <<>>]
    /\ joined = [c \in Client |-> 0]
    /\ ghosts = {}

-----------------------------------------------------------------------------
(* Connections                                                             *)

\* ServeWS: the token was checked and the connection upgraded; registering
\* blocks while the channel is full, then the pumps start.
ServeWS(c) ==
    /\ c \notin served
    /\ Len(register) < RegisterCap
    /\ served' = served \cup {c}
    /\ register' = Append(register, c)
    /\ reader' = [reader EXCEPT ![c] = "run"]
    /\ writer' = [writer EXCEPT ![c] = "run"]
    /\ UNCHANGED <<unregister, broadcast, procVars, fleetVars, drainVars, stream, closes,
                   once, written, events, histVars>>

Pump == {"none", "run", "closing", "done"}

\* The first pump that ends closes done and goes on to unregister; the other one
\* waits in once.Do until that is over.
close(c) == once' = [once EXCEPT ![c] = IF @ = "no" THEN "sending" ELSE @]
Ended(c) == IF once[c] = "done" THEN "done" ELSE "closing"

\* ReadMessage fails: the peer left or went silent, or writePump closed the
\* connection.
ReadPumpEnds(c) ==
    /\ reader[c] = "run"
    /\ reader' = [reader EXCEPT ![c] = Ended(c)]
    /\ close(c)
    /\ UNCHANGED <<chanVars, procVars, fleetVars, drainVars, served, stream, closes,
                   writer, written, events, histVars>>

\* writePump takes an event from send; the write may fail, and ends the pump.
WritePumpWrites(c) ==
    /\ writer[c] = "run"
    /\ written[c] < Len(stream[c])
    /\ written' = [written EXCEPT ![c] = @ + 1]
    /\ \/ UNCHANGED <<writer, once>>
       \/ writer' = [writer EXCEPT ![c] = Ended(c)] /\ close(c)
    /\ UNCHANGED <<chanVars, procVars, fleetVars, drainVars, served, stream, closes,
                   reader, events, histVars>>

\* Fault: writePump does not look at ok, and never ends on a closed channel.
WritePumpIgnoresClose(c) ==
    /\ writer[c] = "run"
    /\ once[c] # "no"
    /\ writer' = [writer EXCEPT ![c] = Ended(c)]
    /\ close(c)
    /\ UNCHANGED <<chanVars, procVars, fleetVars, drainVars, served, stream, closes,
                   reader, written, events, histVars>>

\* send is closed and empty, or done is closed: writePump leaves its loop, closes
\* the connection and calls close.
WritePumpEnds(c) ==
    /\ writer[c] = "run"
    /\ \/ closes[c] > 0 /\ written[c] = Len(stream[c])
       \/ once[c] # "no"
    /\ writer' = [writer EXCEPT ![c] = Ended(c)]
    /\ close(c)
    /\ UNCHANGED <<chanVars, procVars, fleetVars, drainVars, served, stream, closes,
                   reader, written, events, histVars>>

\* The ticker fires and one of the two pings cannot be written.
PingFails(c) ==
    /\ writer[c] = "run"
    /\ writer' = [writer EXCEPT ![c] = Ended(c)]
    /\ close(c)
    /\ UNCHANGED <<chanVars, procVars, fleetVars, drainVars, served, stream, closes,
                   reader, written, events, histVars>>

\* Fault: unregister is sent to without blocking, and a full channel skipped.
UnregisterOrDrop(c) ==
    /\ once[c] = "sending"
    /\ unregister' = IF Len(unregister) < UnregisterCap THEN Append(unregister, c)
                                                       ELSE unregister
    /\ once' = [once EXCEPT ![c] = "done"]
    /\ reader' = [reader EXCEPT ![c] = IF @ = "closing" THEN "done" ELSE @]
    /\ writer' = [writer EXCEPT ![c] = IF @ = "closing" THEN "done" ELSE @]
    /\ UNCHANGED <<register, broadcast, procVars, fleetVars, drainVars, served, stream,
                   closes, written, events, histVars>>

\* The end of close: hub.unregister <- c, blocking while it is full.  The pumps
\* that are in close return.
Unregister(c) ==
    /\ once[c] = "sending"
    /\ Len(unregister) < UnregisterCap
    /\ unregister' = Append(unregister, c)
    /\ once' = [once EXCEPT ![c] = "done"]
    /\ reader' = [reader EXCEPT ![c] = IF @ = "closing" THEN "done" ELSE @]
    /\ writer' = [writer EXCEPT ![c] = IF @ = "closing" THEN "done" ELSE @]
    /\ UNCHANGED <<register, broadcast, procVars, fleetVars, drainVars, served, stream,
                   closes, written, events, histVars>>

-----------------------------------------------------------------------------
(* Redis (external) and the goroutines that feed the hub                   *)

\* The ingestion service publishes, and the subscription of the fleet receives
\* it.  What Redis publishes without a subscription, or loses, has no effect.
Publish(f, t) ==
    /\ events < MaxEvents
    /\ events' = events + 1
    /\ subscribed[f]
    /\ inbox' = [inbox EXCEPT ![<<f, t, gen[f]>>] = Append(@, [fleet |-> f, n |-> events + 1])]
    /\ UNCHANGED <<chanVars, procVars, fleetVars, draining, served, stream, closes, pumpVars,
                   histVars>>

\* drainTelemetry, drainAlerts: an event moves to broadcast, blocking while
\* that is full.  Both cases of the select stay open after the cancellation.
Drain(d) ==
    /\ d \in draining
    /\ inbox[d] # <<>>
    /\ Len(broadcast) < BroadcastCap
    /\ broadcast' = Append(broadcast, [fleetID |-> d[1], data |-> Head(inbox[d])])
    /\ inbox' = [inbox EXCEPT ![d] = Tail(@)]
    /\ UNCHANGED <<register, unregister, procVars, fleetVars, draining, served, stream,
                   closes, pumpVars, events, histVars>>

\* The subscription's context is done: its fleet entry is gone, or ctx is.
DrainReturns(d) ==
    /\ d \in draining
    /\ cancelled \/ ~(subscribed[d[1]] /\ gen[d[1]] = d[3])
    /\ draining' = draining \ {d}
    /\ UNCHANGED <<chanVars, procVars, fleetVars, inbox, served, stream, closes, pumpVars,
                   events, histVars>>

EventOf(f) == [fleetID |-> f, data |-> [fleet |-> f, n |-> events + 1]]

\* Fault: the channel's capacity is not looked at.
BroadcastEventUnbounded(f) ==
    /\ events < MaxEvents
    /\ events' = events + 1
    /\ broadcast' = Append(broadcast, EventOf(f))
    /\ UNCHANGED <<register, unregister, procVars, fleetVars, drainVars, served, stream,
                   closes, pumpVars, histVars>>

\* broadcastEvent, called by the jobs: dropped when the channel is full.
BroadcastEvent(f) ==
    /\ events < MaxEvents
    /\ events' = events + 1
    /\ broadcast' = IF Len(broadcast) < BroadcastCap
                    THEN Append(broadcast, EventOf(f))
                    ELSE broadcast
    /\ UNCHANGED <<register, unregister, procVars, fleetVars, drainVars, served, stream,
                   closes, pumpVars, histVars>>

-----------------------------------------------------------------------------
(* Hub.Run                                                                 *)

Elems(q) == {q[i] : i \in 1..Len(q)}

\* The hub has handled the unregistration of c.
Left(c) == once[c] = "done" /\ c \notin Elems(unregister)

\* addClient, with startFleetSubscriptions when the fleet has no entry.
AddClient ==
    /\ running
    /\ register # <<>>
    /\ LET c == Head(register)
           f == FleetOf[c]
       IN  /\ members' = [members EXCEPT ![f] = @ \cup {c}]
           /\ subscribed' = [subscribed EXCEPT ![f] = TRUE]
           /\ gen' = [gen EXCEPT ![f] = IF subscribed[f] THEN @ ELSE @ + 1]
           /\ draining' = IF subscribed[f] THEN draining
                          ELSE draining \cup {<<f, t, gen'[f]>> : t \in Topic}
           /\ joined' = [joined EXCEPT ![c] = Len(fanned[f])]
           /\ ghosts' = IF Left(c) THEN ghosts \cup {c} ELSE ghosts
    /\ register' = Tail(register)
    /\ UNCHANGED <<unregister, broadcast, procVars, inbox, served, stream, closes, pumpVars,
                   events, fanned>>

\* Fault: a client that is not in the map any more is not looked at.
RemoveMemberOnly ==
    /\ running
    /\ unregister # <<>>
    /\ LET c == Head(unregister)
           f == FleetOf[c]
       IN  IF c \in members[f]
           THEN /\ members' = [members EXCEPT ![f] = @ \ {c}]
                /\ closes' = [closes EXCEPT ![c] = @ + 1]
                /\ subscribed' = [subscribed EXCEPT ![f] = members'[f] # {}]
           ELSE UNCHANGED <<members, closes, subscribed>>
    /\ unregister' = Tail(unregister)
    /\ UNCHANGED <<register, broadcast, procVars, gen, drainVars, served, stream, pumpVars,
                   events, histVars>>

\* removeClient: the last client of a fleet, and any later unregistration that
\* finds the fleet without clients, cancels its subscriptions.
RemoveClient ==
    /\ running
    /\ unregister # <<>>
    /\ LET c == Head(unregister)
           f == FleetOf[c]
       IN  /\ members' = [members EXCEPT ![f] = @ \ {c}]
           /\ closes' = [closes EXCEPT ![c] = IF c \in members[f] THEN @ + 1 ELSE @]
           /\ subscribed' = [subscribed EXCEPT ![f] = members'[f] # {}]
    /\ unregister' = Tail(unregister)
    /\ UNCHANGED <<register, broadcast, procVars, gen, drainVars, served, stream, pumpVars,
                   events, histVars>>

\* enqueue fails.
Full(c) == Len(stream[c]) - written[c] = SendCap

FullClients == {c \in Client : Full(c)}

\* One event for the clients of its fleet that have room for it: the send
\* channels of `evicted` are closed, and `removed` leave the map.
Deliver(evicted, removed) ==
    /\ running
    /\ broadcast # <<>>
    /\ LET e == Head(broadcast).data
           f == Head(broadcast).fleetID
       IN  /\ stream' = [c \in Client |-> IF c \in members[f] \ FullClients
                                          THEN Append(stream[c], e) ELSE stream[c]]
           /\ closes' = [c \in Client |-> IF c \in members[f] \cap evicted
                                          THEN closes[c] + 1 ELSE closes[c]]
           /\ members' = [members EXCEPT ![f] = @ \ removed]
           /\ fanned' = IF subscribed[f] THEN [fanned EXCEPT ![f] = Append(@, e)] ELSE fanned
    /\ broadcast' = Tail(broadcast)
    /\ UNCHANGED <<register, unregister, procVars, subscribed, gen, drainVars, served,
                   pumpVars, events, joined, ghosts>>

\* Fault: the evicted client stays in the map.
FanOutKeepsEvicted == Deliver(FullClients, {})

\* Fault: a client with a full buffer misses the event and stays.
FanOutSkipsFull == Deliver({}, {})

\* fanOut: a client whose buffer is full is evicted.
FanOut == Deliver(FullClients, FullClients)

\* ctx is done: the process was told to stop.
Cancel ==
    /\ ~cancelled
    /\ cancelled' = TRUE
    /\ UNCHANGED <<chanVars, running, fleetVars, drainVars, served, stream, closes, pumpVars,
                   events, histVars>>

\* shutdown, and Run returns.  What is in the channels stays there.
Shutdown ==
    /\ running /\ cancelled
    /\ running' = FALSE
    /\ closes' = [c \in Client |-> IF c \in members[FleetOf[c]] THEN closes[c] + 1
                                                                 ELSE closes[c]]
    /\ members' = [f \in Fleet |-> {}]
    /\ subscribed' = [f \in Fleet |-> FALSE]
    /\ UNCHANGED <<chanVars, cancelled, gen, drainVars, served, stream, pumpVars, events,
                   histVars>>

Hub == AddClient \/ RemoveClient \/ FanOut \/ Cancel \/ Shutdown

Connection(c) ==
    \/ ServeWS(c) \/ ReadPumpEnds(c) \/ WritePumpWrites(c) \/ WritePumpEnds(c)
    \/ PingFails(c) \/ Unregister(c)

Feeder(f) == BroadcastEvent(f) \/ \E t \in Topic : Publish(f, t)

Next ==
    \/ Hub
    \/ \E c \in Client : Connection(c)
    \/ \E f \in Fleet : Feeder(f)
    \/ \E d \in draining : Drain(d) \/ DrainReturns(d)

Spec == Init /\ [][Next]_vars

\* The scheduler runs ready goroutines, and select does not pass over a ready
\* case for ever: only the hub empties its channels, so a ready one stays ready.
\* A write returns within its deadline, and reading fails on a connection that
\* writePump has closed.
Fairness ==
    /\ WF_vars(AddClient) /\ WF_vars(RemoveClient) /\ WF_vars(FanOut)
    /\ WF_vars(Shutdown)
    /\ \A c \in Client :
          /\ WF_vars(WritePumpWrites(c)) /\ WF_vars(WritePumpEnds(c))
          /\ WF_vars(writer[c] \in {"closing", "done"} /\ ReadPumpEnds(c))
          /\ WF_vars(Unregister(c))

FairSpec == Spec /\ Fairness

-----------------------------------------------------------------------------
(* Properties                                                              *)

TypeChannels ==
    /\ register \in Seq(Client) /\ Len(register) =< RegisterCap
    /\ unregister \in Seq(Client) /\ Len(unregister) =< UnregisterCap
    /\ broadcast \in Seq(broadcastMsg) /\ Len(broadcast) =< BroadcastCap
    /\ running \in BOOLEAN /\ cancelled \in BOOLEAN

TypeFleets ==
    /\ members \in [Fleet -> SUBSET Client]
    /\ subscribed \in [Fleet -> BOOLEAN]
    /\ gen \in [Fleet -> Generation]
    /\ inbox \in [Fleet \X Topic \X Generation -> Seq(Event)]
    /\ draining \subseteq Fleet \X Topic \X Generation
    /\ fanned \in [Fleet -> Seq(Event)]
    /\ events \in 0..MaxEvents

TypeClients ==
    /\ served \subseteq Client /\ ghosts \subseteq Client
    /\ stream \in [Client -> Seq(Event)]
    /\ written \in [Client -> Nat] /\ closes \in [Client -> Nat]
    /\ joined \in [Client -> Nat]
    /\ reader \in [Client -> Pump] /\ writer \in [Client -> Pump]
    /\ once \in [Client -> {"no", "sending", "done"}]

\* The channels of the hub stay within their capacities, and the rest of the
\* state of Hub and Client has the types their declarations give it.
TypeOK == TypeChannels /\ TypeFleets /\ TypeClients

\* The hub goroutine never panics: the send channel of a client is closed at
\* most once, whichever of eviction (fanOut), disconnection (removeClient) and
\* shutdown come to it, and a client in a fleet's map, which fanOut would send
\* to, has an open one.
NoPanic ==
    \A c \in Client :
        /\ closes[c] =< 1
        /\ \A f \in Fleet : c \in members[f] => closes[c] = 0

\* What a client is sent is a contiguous piece, in order and without repeats, of
\* what was fanned out to its own fleet since it joined, and as long as it is in
\* the map nothing is missing: fanOut evicts a slow client rather than skip
\* events, and an event of another fleet is never sent.
GapFree ==
    \A c \in Client :
        LET f == FleetOf[c]
            n == Len(stream[c])
        IN  /\ \A i \in 1..n : stream[c][i].fleet = f
            /\ n > 0 => /\ joined[c] + n =< Len(fanned[f])
                        /\ stream[c] = SubSeq(fanned[f], joined[c] + 1, joined[c] + n)
            /\ c \in members[f] => joined[c] + n = Len(fanned[f])

\* Redis subscriptions are not left behind: when a fleet is subscribed and has
\* no client, one that was evicted has still to be unregistered (removeClient
\* will then find the map empty).  The exception is the one the unordered select
\* of Run allows: a client whose unregistration overtook its registration.
SubscriptionsAccountedFor ==
    \A f \in Fleet :
        subscribed[f] /\ members[f] = {} =>
            \E c \in Client : /\ FleetOf[c] = f /\ closes[c] > 0
                              /\ ~Left(c) \/ c \in ghosts

\* A fleet without clients loses its subscriptions, or is joined again, however
\* its last client went and however full the channels are (ghosts excepted).
EmptySubscriptionsEnd ==
    \A f \in Fleet :
        (subscribed[f] /\ members[f] = {})
            ~> (~subscribed[f] \/ members[f] # {} \/ \E c \in ghosts : FleetOf[c] = f)

\* A client whose send channel the hub closed (evicted, or at shutdown) has its
\* connection closed and both of its pumps out of their loops; and while the hub
\* runs they also return, although close blocks on a full unregister channel and
\* one pump waits in once.Do for the other.  (After the hub has returned nothing
\* empties that channel, and they may wait for the exit of the process.)
ClosedClientsEnd ==
    \A c \in Client :
        closes[c] > 0 ~> /\ reader[c] # "run" /\ writer[c] # "run"
                         /\ {reader[c], writer[c]} = {"done"} \/ ~running

=============================================================================
