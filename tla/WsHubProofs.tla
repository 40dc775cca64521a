---------------------------- MODULE WsHubProofs ----------------------------
(***************************************************************************)
(* Theorems about WsHub, for every set of clients and fleets and all       *)
(* channel capacities.                                                     *)
(***************************************************************************)
EXTENDS WsHub, FiniteSetTheorems, SequenceTheorems, TLAPS

-----------------------------------------------------------------------------
(* The inductive invariant                                                 *)

\* The clients the hub has added: each of them was registered once.
Added == served \ Elems(register)

\* A client is registered once.  While it waits in the channel, and before, it
\* is in no map and its send channel is open.
Waiting ==
    /\ \A i, j \in 1..Len(register) : register[i] = register[j] => i = j
    /\ Elems(register) \subseteq served
    /\ \A c \in Client \ Added : closes[c] = 0 /\ \A f \in Fleet : c \notin members[f]

\* A client is only in the map of its own fleet, which makes removeClient and
\* shutdown find it there.
AtHome == \A f \in Fleet : \A c \in members[f] : FleetOf[c] = f

\* Every new pair of subscriptions is due to a client that was added.
GenBound == \A f \in Fleet : gen[f] =< Cardinality(Added)

HubInv == TypeOK /\ Waiting /\ AtHome /\ GenBound /\ NoPanic

-----------------------------------------------------------------------------
(* Facts about channels                                                    *)

\* Receiving from a channel whose elements are distinct removes one of them.
LEMMA ReceiveFacts ==
    ASSUME NEW S, NEW q \in Seq(S), q # <<>>
    PROVE  /\ Head(q) \in S /\ Tail(q) \in Seq(S)
           /\ Len(q) \in Nat /\ Len(Tail(q)) = Len(q) - 1
           /\ Head(q) \in Elems(q)
           /\ (\A i, j \in 1..Len(q) : q[i] = q[j] => i = j) =>
                 /\ Elems(Tail(q)) = Elems(q) \ {Head(q)}
                 /\ \A i, j \in 1..Len(Tail(q)) : Tail(q)[i] = Tail(q)[j] => i = j
<1>1. /\ Head(q) \in S /\ Tail(q) \in Seq(S)
      /\ Len(q) \in Nat \ {0} /\ Len(Tail(q)) = Len(q) - 1
      /\ Head(q) = q[1]
      /\ \A i \in 1..Len(Tail(q)) : Tail(q)[i] = q[i + 1]
  OBVIOUS
<1>2. Head(q) \in Elems(q)
  BY <1>1 DEF Elems
<1>3. ASSUME \A i, j \in 1..Len(q) : q[i] = q[j] => i = j
      PROVE  /\ Elems(Tail(q)) = Elems(q) \ {Head(q)}
             /\ \A i, j \in 1..Len(Tail(q)) : Tail(q)[i] = Tail(q)[j] => i = j
  <2>1. \A i, j \in 1..Len(Tail(q)) : Tail(q)[i] = Tail(q)[j] => i = j
    BY <1>1, <1>3
  <2>2. ASSUME NEW x \in Elems(Tail(q)) PROVE x \in Elems(q) \ {Head(q)}
    <3>1. PICK i \in 1..Len(Tail(q)) : x = Tail(q)[i]
      BY DEF Elems
    <3>2. i + 1 \in 1..Len(q) /\ x = q[i + 1] /\ 1 \in 1..Len(q) /\ i + 1 # 1
      BY <1>1, <3>1
    <3> QED BY <1>1, <1>3, <3>2 DEF Elems
  <2>3. ASSUME NEW x \in Elems(q) \ {Head(q)} PROVE x \in Elems(Tail(q))
    <3>1. PICK i \in 1..Len(q) : x = q[i]
      BY DEF Elems
    <3>2. i - 1 \in 1..Len(Tail(q)) /\ Tail(q)[i - 1] = q[i]
      BY <1>1, <2>3, <3>1
    <3> QED BY <3>1, <3>2 DEF Elems
  <2> QED BY <2>1, <2>2, <2>3
<1> QED BY <1>1, <1>2, <1>3

\* Sending to a channel adds an element.
LEMMA SendFacts ==
    ASSUME NEW S, NEW q \in Seq(S), NEW e \in S
    PROVE  /\ Append(q, e) \in Seq(S)
           /\ Len(q) \in Nat /\ Len(Append(q, e)) = Len(q) + 1
           /\ Elems(Append(q, e)) = Elems(q) \cup {e}
           /\ (\A i, j \in 1..Len(q) : q[i] = q[j] => i = j) /\ e \notin Elems(q) =>
                 \A i, j \in 1..Len(Append(q, e)) :
                    Append(q, e)[i] = Append(q, e)[j] => i = j
<1>1. /\ Append(q, e) \in Seq(S)
      /\ Len(q) \in Nat /\ Len(Append(q, e)) = Len(q) + 1
      /\ \A i \in 1..Len(q) : Append(q, e)[i] = q[i]
      /\ Append(q, e)[Len(q) + 1] = e
  OBVIOUS
<1>2. Elems(Append(q, e)) = Elems(q) \cup {e}
  <2>1. \A i \in 1..(Len(q) + 1) : i \in 1..Len(q) \/ i = Len(q) + 1
    BY <1>1
  <2>2. 1..Len(q) \subseteq 1..(Len(q) + 1) /\ Len(q) + 1 \in 1..(Len(q) + 1)
    BY <1>1
  <2> QED BY <1>1, <2>1, <2>2 DEF Elems
<1>3. ASSUME \A i, j \in 1..Len(q) : q[i] = q[j] => i = j, e \notin Elems(q),
             NEW i \in 1..Len(Append(q, e)), NEW j \in 1..Len(Append(q, e)),
             Append(q, e)[i] = Append(q, e)[j]
      PROVE  i = j
  <2>1. \A k \in 1..Len(q) : q[k] # e
    BY <1>3 DEF Elems
  <2> QED BY <1>1, <1>3, <2>1
<1> QED BY <1>1, <1>2, <1>3

\* The number of added clients is a number, and at most that of all clients.
LEMMA AddedFacts ==
    ASSUME TypeOK
    PROVE  /\ IsFiniteSet(Added) /\ Cardinality(Added) \in Nat
           /\ Cardinality(Client) \in Nat /\ Cardinality(Added) =< Cardinality(Client)
<1>1. Added \in SUBSET Client
  BY DEF Added, TypeOK, TypeClients
<1> QED BY <1>1, FS_Subset, FS_CardinalityType, CapsAssumption

-----------------------------------------------------------------------------
(* Preservation                                                            *)

\* Steps that leave the registrations, the maps and the send channels alone
\* preserve the invariant when they preserve the types.
LEMMA FrameHolds ==
    ASSUME HubInv, TypeOK',
           UNCHANGED <<served, register, closes, members, gen>>
    PROVE  HubInv'
<1>1. Added' = Added
  BY DEF Added, Elems
<1>2. Waiting'
  BY <1>1 DEF HubInv, Waiting, Elems
<1>3. AtHome' /\ NoPanic'
  BY DEF HubInv, AtHome, NoPanic
<1>4. GenBound'
  BY <1>1 DEF HubInv, GenBound
<1> QED BY <1>2, <1>3, <1>4 DEF HubInv

\* The steps of the pumps change no state of the hub but its unregister channel.
LEMMA PumpHolds ==
    ASSUME HubInv, NEW c \in Client,
           \/ ReadPumpEnds(c) \/ WritePumpWrites(c) \/ WritePumpEnds(c)
           \/ PingFails(c) \/ Unregister(c)
    PROVE  HubInv'
<1> USE DEF HubInv, TypeOK
<1>1. CASE ReadPumpEnds(c)
  <2>1. TypeClients'
    BY <1>1 DEF ReadPumpEnds, close, Ended, Pump, TypeClients, histVars
  <2>2. TypeOK'
    BY <1>1, <2>1 DEF ReadPumpEnds, TypeChannels, TypeFleets, chanVars, procVars,
       fleetVars, drainVars, histVars
  <2> QED BY <1>1, <2>2, FrameHolds DEF ReadPumpEnds, chanVars, fleetVars
<1>2. CASE WritePumpWrites(c)
  <2>a. written' \in [Client -> Nat]
    BY <1>2 DEF WritePumpWrites, TypeClients
  <2>b. writer' \in [Client -> Pump]
    <3>1. Ended(c) \in Pump
      BY DEF Ended, Pump
    <3> QED BY <1>2, <3>1, Zenon DEF WritePumpWrites, TypeClients
  <2>c. once' \in [Client -> {"no", "sending", "done"}]
    BY <1>2, Zenon DEF WritePumpWrites, close, TypeClients
  <2>1. TypeClients'
    BY <1>2, <2>a, <2>b, <2>c DEF WritePumpWrites, TypeClients, histVars
  <2>2. TypeOK'
    BY <1>2, <2>1 DEF WritePumpWrites, TypeChannels, TypeFleets, chanVars, procVars,
       fleetVars, drainVars, histVars
  <2> QED BY <1>2, <2>2, FrameHolds DEF WritePumpWrites, chanVars, fleetVars
<1>3. CASE WritePumpEnds(c)
  <2>1. TypeClients'
    BY <1>3 DEF WritePumpEnds, close, Ended, Pump, TypeClients, histVars
  <2>2. TypeOK'
    BY <1>3, <2>1 DEF WritePumpEnds, TypeChannels, TypeFleets, chanVars, procVars,
       fleetVars, drainVars, histVars
  <2> QED BY <1>3, <2>2, FrameHolds DEF WritePumpEnds, chanVars, fleetVars
<1>4. CASE PingFails(c)
  <2>1. TypeClients'
    BY <1>4 DEF PingFails, close, Ended, Pump, TypeClients, histVars
  <2>2. TypeOK'
    BY <1>4, <2>1 DEF PingFails, TypeChannels, TypeFleets, chanVars, procVars,
       fleetVars, drainVars, histVars
  <2> QED BY <1>4, <2>2, FrameHolds DEF PingFails, chanVars, fleetVars
<1>5. CASE Unregister(c)
  <2>1. TypeClients'
    BY <1>5 DEF Unregister, Pump, TypeClients, histVars
  <2>2. unregister' \in Seq(Client) /\ Len(unregister') =< UnregisterCap
    BY <1>5, SendFacts, CapsAssumption DEF Unregister, TypeChannels
  <2>3. TypeOK'
    BY <1>5, <2>1, <2>2 DEF Unregister, TypeChannels, TypeFleets, procVars,
       fleetVars, drainVars, histVars
  <2> QED BY <1>5, <2>3, FrameHolds DEF Unregister, fleetVars
<1> QED BY <1>1, <1>2, <1>3, <1>4, <1>5

\* A connection registers once, before it is in any map.
LEMMA ServeHolds ==
    ASSUME HubInv, NEW c \in Client, ServeWS(c)
    PROVE  HubInv'
<1> USE DEF HubInv
<1>1. /\ register \in Seq(Client) /\ c \notin served /\ served' = served \cup {c}
      /\ register' = Append(register, c) /\ Len(register) < RegisterCap
      /\ UNCHANGED <<members, closes, gen, subscribed>>
  BY DEF ServeWS, TypeOK, TypeChannels, fleetVars
<1>2. c \notin Elems(register)
  BY <1>1 DEF Waiting
<1>3. /\ register' \in Seq(Client) /\ Len(register') =< RegisterCap
      /\ Elems(register') = Elems(register) \cup {c}
      /\ \A i, j \in 1..Len(register') : register'[i] = register'[j] => i = j
  BY <1>1, <1>2, SendFacts, CapsAssumption DEF Waiting
<1>4. Elems(register)' = Elems(register')
  BY DEF Elems
<1>5. Added' = Added
  BY <1>1, <1>3, <1>4 DEF Added
<1>6. TypeOK'
  <2>1. TypeClients'
    BY <1>1 DEF ServeWS, TypeOK, TypeClients, Pump, histVars
  <2> QED BY <1>1, <1>3, <2>1 DEF ServeWS, TypeOK, TypeChannels, TypeFleets, procVars,
         fleetVars, drainVars, histVars
<1>7. Waiting'
  BY <1>1, <1>3, <1>4, <1>5 DEF Waiting
<1> QED BY <1>1, <1>5, <1>6, <1>7 DEF AtHome, GenBound, NoPanic

\* Publishing, draining and the jobs' broadcasts only move events.
LEMMA FeederHolds ==
    ASSUME HubInv,
           \/ \E f \in Fleet : Feeder(f)
           \/ \E d \in draining : Drain(d) \/ DrainReturns(d)
    PROVE  HubInv'
<1> USE DEF HubInv, TypeOK
<1>1. ASSUME NEW f \in Fleet, NEW t \in Topic, Publish(f, t) PROVE HubInv'
  <2>1. <<f, t, gen[f]>> \in Fleet \X Topic \X Generation
    BY DEF TypeFleets
  <2>2. events' \in 1..MaxEvents
    BY <1>1, CapsAssumption DEF Publish, TypeFleets
  <2>3. [fleet |-> f, n |-> events + 1] \in Event
    BY <1>1, <2>2 DEF Publish, Event
  <2>4. TypeFleets'
    BY <1>1, <2>1, <2>2, <2>3 DEF Publish, TypeFleets, fleetVars, histVars
  <2>5. TypeOK'
    BY <1>1, <2>4 DEF Publish, TypeChannels, TypeClients, chanVars, procVars, pumpVars,
       histVars
  <2> QED BY <1>1, <2>5, FrameHolds DEF Publish, chanVars, fleetVars
<1>2. ASSUME NEW f \in Fleet, BroadcastEvent(f) PROVE HubInv'
  <2>1. events' \in 1..MaxEvents
    BY <1>2, CapsAssumption DEF BroadcastEvent, TypeFleets
  <2>2. EventOf(f) \in broadcastMsg
    BY <1>2, <2>1 DEF BroadcastEvent, EventOf, broadcastMsg, Event
  <2>3. broadcast' \in Seq(broadcastMsg) /\ Len(broadcast') =< BroadcastCap
    BY <1>2, <2>2, SendFacts, CapsAssumption DEF BroadcastEvent, TypeChannels
  <2>4. TypeFleets'
    BY <1>2, <2>1 DEF BroadcastEvent, TypeFleets, fleetVars, drainVars, histVars
  <2>5. TypeOK'
    BY <1>2, <2>3, <2>4, SMTT(30) DEF BroadcastEvent, TypeChannels, TypeClients, procVars,
       pumpVars, histVars
  <2> QED BY <1>2, <2>5, FrameHolds DEF BroadcastEvent, fleetVars
<1>3. ASSUME NEW d \in draining, Drain(d) PROVE HubInv'
  <2>1. d \in Fleet \X Topic \X Generation /\ inbox[d] \in Seq(Event)
    BY SMTT(30) DEF TypeFleets
  <2>2. Head(inbox[d]) \in Event /\ Tail(inbox[d]) \in Seq(Event)
    <3>1. inbox[d] # <<>>
      BY <1>3 DEF Drain
    <3> QED BY <2>1, <3>1, ReceiveFacts, Zenon
  <2>3. [fleetID |-> d[1], data |-> Head(inbox[d])] \in broadcastMsg
    BY <2>1, <2>2 DEF broadcastMsg
  <2>4. broadcast' \in Seq(broadcastMsg) /\ Len(broadcast') =< BroadcastCap
    BY <1>3, <2>3, SendFacts, CapsAssumption DEF Drain, TypeChannels
  <2>5. TypeFleets'
    BY <1>3, <2>1, <2>2 DEF Drain, TypeFleets, fleetVars, histVars
  <2>6. TypeOK'
    BY <1>3, <2>4, <2>5, SMTT(30) DEF Drain, TypeChannels, TypeClients, procVars, pumpVars, histVars
  <2> QED BY <1>3, <2>6, FrameHolds DEF Drain, fleetVars
<1>4. ASSUME NEW d \in draining, DrainReturns(d) PROVE HubInv'
  <2>1. TypeFleets'
    BY <1>4 DEF DrainReturns, TypeFleets, fleetVars, histVars
  <2>2. TypeOK'
    BY <1>4, <2>1 DEF DrainReturns, TypeChannels, TypeClients, chanVars, procVars,
       pumpVars, histVars
  <2> QED BY <1>4, <2>2, FrameHolds, Zenon DEF DrainReturns, chanVars, fleetVars
<1> QED BY <1>1, <1>2, <1>3, <1>4 DEF Feeder

\* addClient takes a waiting client into the map of its fleet.
LEMMA AddHolds ==
    ASSUME HubInv, AddClient
    PROVE  HubInv'
<1> USE DEF HubInv
<1> DEFINE c == Head(register)
           f == FleetOf[c]
<1>1. register \in Seq(Client) /\ register # <<>> /\ register' = Tail(register)
  BY DEF AddClient, TypeOK, TypeChannels
<1>2. /\ c \in Client /\ c \in Elems(register) /\ register' \in Seq(Client)
      /\ Len(register) \in Nat /\ Len(register') = Len(register) - 1
      /\ Elems(register') = Elems(register) \ {c}
      /\ \A i, j \in 1..Len(register') : register'[i] = register'[j] => i = j
  BY <1>1, ReceiveFacts DEF Waiting
<1>3. f \in Fleet
  BY <1>2, CapsAssumption
<1>4. /\ members' = [members EXCEPT ![f] = @ \cup {c}]
      /\ gen' = [gen EXCEPT ![f] = IF subscribed[f] THEN @ ELSE @ + 1]
      /\ draining' = IF subscribed[f] THEN draining
                     ELSE draining \cup {<<f, t, gen'[f]>> : t \in Topic}
      /\ subscribed' = [subscribed EXCEPT ![f] = TRUE]
      /\ joined' = [joined EXCEPT ![c] = Len(fanned[f])]
      /\ ghosts' = IF Left(c) THEN ghosts \cup {c} ELSE ghosts
      /\ UNCHANGED <<unregister, broadcast, running, cancelled, inbox, served, stream,
                     closes, reader, writer, once, written, events, fanned>>
  BY DEF AddClient, procVars, pumpVars
<1>5. Elems(register)' = Elems(register')
  BY DEF Elems
<1>6. Added' = Added \cup {c} /\ c \notin Added
  BY <1>2, <1>4, <1>5 DEF Added, Waiting
<1>7. Cardinality(Added') = Cardinality(Added) + 1 /\ Cardinality(Added) \in Nat
  BY <1>6, AddedFacts, FS_AddElement
<1>8. Cardinality(Added') =< Cardinality(Client) /\ Cardinality(Client) \in Nat
  <2>1. Added' \in SUBSET Client
    BY <1>2, <1>6 DEF Added, TypeOK, TypeClients
  <2> QED BY <2>1, FS_Subset, FS_CardinalityType, CapsAssumption
<1>9. gen \in [Fleet -> Generation] /\ \A g \in Fleet : gen[g] \in Nat
  BY <1>8 DEF TypeOK, TypeFleets, Generation
<1>10. gen' \in [Fleet -> Nat] /\ \A g \in Fleet : gen'[g] =< Cardinality(Added')
  BY <1>3, <1>4, <1>7, <1>9 DEF GenBound
<1>11. gen' \in [Fleet -> Generation]
  BY <1>7, <1>8, <1>10 DEF Generation
<1>12. TypeOK'
  <2>1. members' \in [Fleet -> SUBSET Client] /\ subscribed' \in [Fleet -> BOOLEAN]
    BY <1>2, <1>3, <1>4 DEF TypeOK, TypeFleets
  <2>2. draining' \subseteq Fleet \X Topic \X Generation
    BY <1>3, <1>4, <1>11, SMTT(30) DEF TypeOK, TypeFleets
  <2>3. TypeFleets'
    BY <1>4, <1>11, <2>1, <2>2 DEF TypeOK, TypeFleets
  <2>4. TypeClients'
    <3>1. fanned[f] \in Seq(Event)
      BY <1>3 DEF TypeOK, TypeFleets
    <3>1a. Len(fanned[f]) \in Nat
      BY <3>1
    <3>2. joined' \in [Client -> Nat]
      <4> HIDE DEF c, f
      <4> QED BY <1>4, <3>1a, ZenonT(30) DEF TypeOK, TypeClients
    <3>3. ghosts' \subseteq Client
      BY <1>2, <1>4 DEF TypeOK, TypeClients
    <3> QED BY <1>4, <3>2, <3>3 DEF TypeOK, TypeClients
  <2>5. TypeChannels'
    BY <1>2, <1>4, CapsAssumption DEF TypeOK, TypeChannels
  <2> QED BY <2>3, <2>4, <2>5 DEF TypeOK
<1>13. members \in [Fleet -> SUBSET Client]
  BY DEF TypeOK, TypeFleets
<1>14. Waiting'
  <2>1. Elems(register') \subseteq served'
    BY <1>2, <1>4 DEF Waiting
  <2>2. ASSUME NEW x \in Client \ Added'
        PROVE  closes'[x] = 0 /\ \A g \in Fleet : x \notin members'[g]
    <3>1. x \in Client \ Added /\ x # c
      BY <1>6
    <3> QED BY <1>3, <1>4, <1>13, <3>1 DEF Waiting
  <2> QED BY <1>2, <1>5, <2>1, <2>2 DEF Waiting
<1>15. AtHome'
  BY <1>3, <1>4, <1>13 DEF AtHome
<1>16. closes[c] = 0
  BY <1>2, <1>6 DEF Waiting
<1>17. NoPanic'
  BY <1>3, <1>4, <1>13, <1>16 DEF NoPanic
<1> QED BY <1>10, <1>12, <1>14, <1>15, <1>17 DEF GenBound

\* A step in which clients that leave their maps have their send channels
\* closed, each once, preserves the invariant.
LEMMA CloseHolds ==
    ASSUME HubInv, TypeOK', NEW Gone \in SUBSET Client,
           \A c \in Gone : c \in members[FleetOf[c]],
           \A f \in Fleet : members'[f] = members[f] \ Gone,
           \A c \in Client : closes'[c] = IF c \in Gone THEN closes[c] + 1 ELSE closes[c],
           UNCHANGED <<served, register, gen>>
    PROVE  HubInv'
<1> USE DEF HubInv
<1>1. Added' = Added
  BY DEF Added, Elems
<1>2. \A c \in Client : FleetOf[c] \in Fleet
  BY CapsAssumption
<1>3. \A c \in Gone : closes[c] = 0 /\ c \in Added
  BY <1>2 DEF NoPanic, Waiting
<1>4. Waiting'
  BY <1>1, <1>3 DEF Waiting, Elems
<1>5. closes \in [Client -> Nat]
  BY DEF TypeOK, TypeClients
<1>6. NoPanic'
  BY <1>3, <1>5 DEF NoPanic
<1>7. AtHome' /\ GenBound'
  BY <1>1 DEF AtHome, GenBound
<1> QED BY <1>4, <1>6, <1>7

\* removeClient closes the send channel of a client that is still in the map.
LEMMA RemoveHolds ==
    ASSUME HubInv, RemoveClient
    PROVE  HubInv'
<1> USE DEF HubInv
<1> DEFINE c == Head(unregister)
           f == FleetOf[c]
<1>1. unregister \in Seq(Client) /\ unregister # <<>> /\ unregister' = Tail(unregister)
  BY DEF RemoveClient, TypeOK, TypeChannels
<1>2. /\ c \in Client /\ unregister' \in Seq(Client)
      /\ Len(unregister) \in Nat /\ Len(unregister') = Len(unregister) - 1
  BY <1>1, ReceiveFacts
<1>3. f \in Fleet
  BY <1>2, CapsAssumption
<1>4. /\ members' = [members EXCEPT ![f] = @ \ {c}]
      /\ closes' = [closes EXCEPT ![c] = IF c \in members[f] THEN @ + 1 ELSE @]
      /\ subscribed' = [subscribed EXCEPT ![f] = members'[f] # {}]
      /\ UNCHANGED <<register, broadcast, running, cancelled, gen, inbox, draining, served,
                     stream, reader, writer, once, written, events, fanned, joined, ghosts>>
  BY DEF RemoveClient, procVars, drainVars, pumpVars, histVars
<1>5. members \in [Fleet -> SUBSET Client] /\ closes \in [Client -> Nat]
  BY DEF TypeOK, TypeFleets, TypeClients
<1> HIDE DEF c, f
<1>6. TypeOK'
  <2>1. TypeChannels'
    BY <1>2, <1>4, CapsAssumption DEF TypeOK, TypeChannels
  <2>2. TypeFleets'
    BY <1>3, <1>4, <1>5 DEF TypeOK, TypeFleets
  <2>3. closes' \in [Client -> Nat]
    BY <1>2, <1>4, <1>5
  <2>4. TypeClients'
    BY <1>4, <2>3 DEF TypeOK, TypeClients
  <2> QED BY <2>1, <2>2, <2>4 DEF TypeOK
<1> DEFINE Gone == {x \in {c} : x \in members[f]}
<1>7. \A x \in Gone : x \in members[FleetOf[x]]
  BY DEF f
<1>8. ASSUME NEW g \in Fleet PROVE members'[g] = members[g] \ Gone
  <2>1. CASE g = f
    BY <1>3, <1>4, <1>5, <2>1
  <2>2. CASE g # f
    <3>1. c \notin members[g]
      BY <2>2 DEF AtHome, f
    <3> QED BY <1>3, <1>4, <1>5, <2>2, <3>1
  <2> QED BY <2>1, <2>2
<1>9. \A x \in Client : closes'[x] = IF x \in Gone THEN closes[x] + 1 ELSE closes[x]
  BY <1>2, <1>4, <1>5
<1>10. Gone \in SUBSET Client
  BY <1>2
<1> HIDE DEF Gone
<1> QED BY <1>4, <1>6, <1>7, <1>8, <1>9, <1>10, CloseHolds

\* fanOut closes the send channels of the clients it evicts from the map.
LEMMA FanOutHolds ==
    ASSUME HubInv, FanOut
    PROVE  HubInv'
<1> USE DEF HubInv
<1> DEFINE e == Head(broadcast).data
           f == Head(broadcast).fleetID
<1>1. /\ broadcast \in Seq(broadcastMsg) /\ broadcast # <<>>
      /\ broadcast' = Tail(broadcast)
  BY DEF FanOut, Deliver, TypeOK, TypeChannels
<1>2. /\ Head(broadcast) \in broadcastMsg /\ broadcast' \in Seq(broadcastMsg)
      /\ Len(broadcast) \in Nat /\ Len(broadcast') = Len(broadcast) - 1
  BY <1>1, ReceiveFacts
<1>3. f \in Fleet /\ e \in Event
  BY <1>2 DEF broadcastMsg
<1>4. /\ stream' = [c \in Client |-> IF c \in members[f] \ FullClients
                                     THEN Append(stream[c], e) ELSE stream[c]]
      /\ closes' = [c \in Client |-> IF c \in members[f] \cap FullClients
                                     THEN closes[c] + 1 ELSE closes[c]]
      /\ members' = [members EXCEPT ![f] = @ \ FullClients]
      /\ fanned' = IF subscribed[f] THEN [fanned EXCEPT ![f] = Append(@, e)] ELSE fanned
      /\ UNCHANGED <<register, unregister, running, cancelled, subscribed, gen, inbox,
                     draining, served, reader, writer, once, written, events, joined,
                     ghosts>>
  BY DEF FanOut, Deliver, procVars, drainVars, pumpVars
<1>5. members \in [Fleet -> SUBSET Client] /\ closes \in [Client -> Nat]
  BY DEF TypeOK, TypeFleets, TypeClients
<1> HIDE DEF e, f
<1>6. TypeOK'
  <2>1. TypeChannels'
    BY <1>2, <1>4, CapsAssumption, SMTT(30) DEF TypeOK, TypeChannels
  <2>2. fanned' \in [Fleet -> Seq(Event)]
    BY <1>3, <1>4, SMTT(30) DEF TypeOK, TypeFleets
  <2>3. TypeFleets'
    BY <1>3, <1>4, <1>5, <2>2, SMTT(30) DEF TypeOK, TypeFleets
  <2>4. stream' \in [Client -> Seq(Event)]
    BY <1>3, <1>4 DEF TypeOK, TypeClients
  <2>5. closes' \in [Client -> Nat]
    BY <1>4, <1>5
  <2>6. TypeClients'
    BY <1>4, <2>4, <2>5 DEF TypeOK, TypeClients
  <2> QED BY <2>1, <2>3, <2>6 DEF TypeOK
<1> DEFINE Gone == members[f] \cap FullClients
<1>7. Gone \in SUBSET Client
  BY <1>3, <1>5
<1>8. \A x \in Gone : x \in members[FleetOf[x]]
  BY <1>3 DEF AtHome
<1>9. ASSUME NEW g \in Fleet PROVE members'[g] = members[g] \ Gone
  <2>1. CASE g = f
    BY <1>3, <1>4, <1>5, <2>1
  <2>2. CASE g # f
    <3>1. members[g] \cap members[f] = {}
      BY <1>3, <2>2 DEF AtHome
    <3>2. members'[g] = members[g]
      BY <1>4, <1>5, <2>2
    <3> QED BY <3>1, <3>2
  <2> QED BY <2>1, <2>2
<1>10. \A x \in Client : closes'[x] = IF x \in Gone THEN closes[x] + 1 ELSE closes[x]
  BY <1>4
<1> HIDE DEF Gone
<1> QED BY <1>4, <1>6, <1>7, <1>8, <1>9, <1>10, CloseHolds, SMTT(30)

\* shutdown closes the send channels of all clients in the maps.
LEMMA ShutdownHolds ==
    ASSUME HubInv, Shutdown
    PROVE  HubInv'
<1> USE DEF HubInv
<1> DEFINE Gone == {c \in Client : c \in members[FleetOf[c]]}
<1>1. closes \in [Client -> Nat] /\ members \in [Fleet -> SUBSET Client]
  BY DEF TypeOK, TypeFleets, TypeClients
<1>2. TypeOK'
  <2>1. closes' \in [Client -> Nat]
    BY <1>1 DEF Shutdown
  <2>2. TypeClients'
    BY <2>1 DEF Shutdown, TypeOK, TypeClients, pumpVars, histVars
  <2>3. TypeFleets'
    BY DEF Shutdown, TypeOK, TypeFleets, drainVars, histVars
  <2> QED BY <2>2, <2>3, Zenon DEF Shutdown, TypeOK, TypeChannels, chanVars
<1>3. \A f \in Fleet : members'[f] = members[f] \ Gone
  BY <1>1 DEF Shutdown, AtHome
<1>4. \A x \in Client : closes'[x] = IF x \in Gone THEN closes[x] + 1 ELSE closes[x]
  BY DEF Shutdown
<1>5. \A c \in Gone : c \in members[FleetOf[c]]
  OBVIOUS
<1>6. Gone \in SUBSET Client
  OBVIOUS
<1>7. UNCHANGED <<served, register, gen>>
  BY DEF Shutdown, chanVars
<1> HIDE DEF Gone
<1> QED BY <1>2, <1>3, <1>4, <1>5, <1>6, <1>7, CloseHolds

\* Every step preserves the invariant.
LEMMA HubStep ==
    ASSUME HubInv, [Next]_vars
    PROVE  HubInv'
<1>1. CASE Cancel
  <2>1. TypeOK'
    BY <1>1 DEF HubInv, Cancel, TypeOK, TypeChannels, TypeFleets, TypeClients, chanVars,
       fleetVars, drainVars, pumpVars, histVars
  <2> QED BY <1>1, <2>1, FrameHolds DEF Cancel, chanVars, fleetVars
<1>2. CASE \E c \in Client : Connection(c)
  BY <1>2, ServeHolds, PumpHolds DEF Connection
<1>3. CASE UNCHANGED vars
  <2>1. TypeOK'
    BY <1>3 DEF HubInv, TypeOK, TypeChannels, TypeFleets, TypeClients, vars, chanVars,
       procVars, fleetVars, drainVars, pumpVars, histVars
  <2> QED BY <1>3, <2>1, FrameHolds, SMTT(30) DEF vars, chanVars, fleetVars
<1> QED BY <1>1, <1>2, <1>3, AddHolds, RemoveHolds, FanOutHolds, ShutdownHolds, FeederHolds
        DEF Next, Hub

\* The invariant holds before the first connection.
LEMMA HubInit ==
    ASSUME Init
    PROVE  HubInv
<1>1. Added = {} /\ Cardinality({}) = 0
  BY FS_EmptySet DEF Init, Added
<1>2. 0 \in Generation
  BY FS_CardinalityType, CapsAssumption DEF Generation
<1>3. TypeChannels
  <2>1. running \in BOOLEAN /\ cancelled \in BOOLEAN
    BY Zenon DEF Init
  <2>2. register \in Seq(Client) /\ unregister \in Seq(Client)
        /\ broadcast \in Seq(broadcastMsg)
    BY DEF Init
  <2>3. Len(register) = 0 /\ Len(unregister) = 0 /\ Len(broadcast) = 0
    BY DEF Init
  <2>4. 0 =< RegisterCap /\ 0 =< UnregisterCap /\ 0 =< BroadcastCap
    BY CapsAssumption
  <2> QED BY <2>1, <2>2, <2>3, <2>4 DEF TypeChannels
<1>4. TypeFleets
  BY <1>2, CapsAssumption DEF Init, TypeFleets
<1>5. TypeClients
  BY DEF Init, TypeClients, Pump
<1>6. Waiting
  BY DEF Init, Waiting, Elems
<1>7. AtHome /\ NoPanic
  BY DEF Init, AtHome, NoPanic
<1>8. GenBound
  BY <1>1 DEF Init, GenBound
<1> QED BY <1>3, <1>4, <1>5, <1>6, <1>7, <1>8 DEF HubInv, TypeOK

\* The channels of the hub never exceed their capacities, and the number of
\* subscriptions a fleet had is at most the number of clients.
THEOREM TypeCorrect == Spec => []TypeOK
<1>1. Init => HubInv
  BY HubInit
<1>2. HubInv /\ [Next]_vars => HubInv'
  BY HubStep
<1>3. HubInv => TypeOK
  BY DEF HubInv
<1> QED BY <1>1, <1>2, <1>3, PTL DEF Spec

\* Whatever the order in which eviction, disconnection and shutdown reach a
\* client, the hub never closes its send channel twice and never sends on it
\* after it was closed.
THEOREM HubNeverPanics == Spec => []NoPanic
<1>1. Init => HubInv
  BY HubInit
<1>2. HubInv /\ [Next]_vars => HubInv'
  BY HubStep
<1>3. HubInv => NoPanic
  BY DEF HubInv
<1> QED BY <1>1, <1>2, <1>3, PTL DEF Spec

-----------------------------------------------------------------------------
(* What clients are sent, and who keeps a fleet subscribed                 *)

\* Every event on its way to the hub is announced as one of the fleet it is about.
HomeEvents ==
    /\ \A i \in 1..Len(broadcast) : broadcast[i].data.fleet = broadcast[i].fleetID
    /\ \A d \in Fleet \X Topic \X Generation :
          \A i \in 1..Len(inbox[d]) : inbox[d][i].fleet = d[1]

\* What client c was sent, event by event.
InStepOf(c, f) ==
    /\ c \notin Added => Len(stream[c]) = 0
    /\ \A i \in 1..Len(stream[c]) :
          /\ stream[c][i].fleet = f
          /\ joined[c] + i =< Len(fanned[f]) /\ stream[c][i] = fanned[f][joined[c] + i]
    /\ c \in members[f] => joined[c] + Len(stream[c]) = Len(fanned[f])

InStep == \A c \in Client : InStepOf(c, FleetOf[c])

\* A fleet with clients is subscribed, and whoever is in its map has still to be
\* unregistered, or is a ghost.
MembersCount ==
    \A f \in Fleet : \A c \in members[f] :
        subscribed[f] /\ (~Left(c) \/ c \in ghosts)

StreamInv == HomeEvents /\ InStep /\ MembersCount /\ SubscriptionsAccountedFor

\* A property of all elements of a channel stays one when something that has it
\* is sent, and when something is received; set P collects what has it.
LEMMA ChannelHolds ==
    ASSUME NEW S, NEW q \in Seq(S), NEW P, \A i \in 1..Len(q) : q[i] \in P
    PROVE  /\ \A e \in S \cap P : \A i \in 1..Len(Append(q, e)) : Append(q, e)[i] \in P
           /\ q # <<>> => Head(q) \in P /\ \A i \in 1..Len(Tail(q)) : Tail(q)[i] \in P
<1>1. ASSUME NEW e \in S \cap P, NEW i \in 1..Len(Append(q, e))
      PROVE  Append(q, e)[i] \in P
  <2>1. i \in 1..Len(q) \/ i = Len(q) + 1
    OBVIOUS
  <2> QED BY <2>1
<1>2. ASSUME q # <<>> PROVE Head(q) \in P /\ \A i \in 1..Len(Tail(q)) : Tail(q)[i] \in P
  <2>1. Len(q) \in Nat \ {0} /\ Len(Tail(q)) = Len(q) - 1 /\ Head(q) = q[1]
    BY <1>2
  <2>2. \A i \in 1..Len(Tail(q)) : i + 1 \in 1..Len(q) /\ Tail(q)[i] = q[i + 1]
    BY <1>2, <2>1
  <2> QED BY <2>1, <2>2
<1> QED BY <1>1, <1>2

\* Events keep the name of their fleet on the way from Redis to the hub.
LEMMA HomeStep ==
    ASSUME HubInv, HomeEvents, [Next]_vars
    PROVE  HomeEvents'
<1> DEFINE Index == Fleet \X Topic \X Generation
           AtHub == {m \in broadcastMsg : m.data.fleet = m.fleetID}
           Of(f) == {e \in Event : e.fleet = f}
<1>1. broadcast \in Seq(broadcastMsg) /\ inbox \in [Index -> Seq(Event)] /\ draining \subseteq Index
  BY DEF HubInv, TypeOK, TypeChannels, TypeFleets
<1>2. /\ \A i \in 1..Len(broadcast) : broadcast[i] \in AtHub
      /\ \A d \in Index : \A i \in 1..Len(inbox[d]) : inbox[d][i] \in Of(d[1])
  BY <1>1 DEF HomeEvents
<1>3. ASSUME UNCHANGED <<broadcast, inbox>> PROVE HomeEvents'
  BY <1>3 DEF HomeEvents
<1>4. ASSUME NEW f \in Fleet, NEW t \in Topic, Publish(f, t) PROVE HomeEvents'
  <2> DEFINE d == <<f, t, gen[f]>>
             e == [fleet |-> f, n |-> events + 1]
  <2>1. d \in Index /\ d[1] = f
    BY DEF HubInv, TypeOK, TypeFleets
  <2>2. events + 1 \in 1..MaxEvents
    BY <1>4, CapsAssumption DEF Publish, HubInv, TypeOK, TypeFleets
  <2>3. e \in Event \cap Of(d[1])
    BY <2>1, <2>2 DEF Event
  <2>4. inbox' = [inbox EXCEPT ![d] = Append(@, e)] /\ UNCHANGED broadcast
    BY <1>4 DEF Publish, chanVars
  <2> HIDE DEF d, e
  <2>5. inbox'[d] = Append(inbox[d], e) /\ \A x \in Index \ {d} : inbox'[x] = inbox[x]
    BY <1>1, <2>1, <2>4
  <2>6. \A i \in 1..Len(inbox'[d]) : inbox'[d][i] \in Of(d[1])
    BY <1>1, <1>2, <2>1, <2>3, <2>5, ChannelHolds
  <2>7. ASSUME NEW x \in Index, NEW i \in 1..Len(inbox'[x]) PROVE inbox'[x][i].fleet = x[1]
    <3>1. inbox'[x][i] \in Of(x[1])
      <4> HIDE DEF Of, Index
      <4>1. CASE x = d
        BY <2>5, <2>6, <2>7, <4>1
      <4>2. CASE x # d
        BY <1>2, <2>5, <2>7, <4>2
      <4> QED BY <4>1, <4>2
    <3> QED BY <3>1
  <2> QED BY <2>4, <2>7 DEF HomeEvents
<1>5. ASSUME NEW f \in Fleet, BroadcastEvent(f) PROVE HomeEvents'
  <2>1. UNCHANGED inbox /\ broadcast' \in {broadcast, Append(broadcast, EventOf(f))}
    BY <1>5 DEF BroadcastEvent, drainVars
  <2>2. events + 1 \in 1..MaxEvents
    BY <1>5, CapsAssumption DEF BroadcastEvent, HubInv, TypeOK, TypeFleets
  <2>3. EventOf(f) \in broadcastMsg \cap AtHub
    BY <2>2 DEF EventOf, broadcastMsg, Event
  <2>4. \A i \in 1..Len(broadcast') : broadcast'[i] \in AtHub
    BY <1>1, <1>2, <2>1, <2>3, ChannelHolds
  <2> QED BY <2>1, <2>4 DEF HomeEvents
<1>6. ASSUME NEW d \in draining, Drain(d) PROVE HomeEvents'
  <2> DEFINE m == [fleetID |-> d[1], data |-> Head(inbox[d])]
  <2>1. d \in Index /\ d[1] \in Fleet /\ inbox[d] \in Seq(Event) /\ inbox[d] # <<>>
    BY <1>1, <1>6 DEF Drain
  <2>2. /\ Head(inbox[d]) \in Of(d[1])
        /\ \A i \in 1..Len(Tail(inbox[d])) : Tail(inbox[d])[i] \in Of(d[1])
    <3> HIDE DEF Of
    <3> QED BY <1>2, <2>1, ChannelHolds
  <2>3. m \in broadcastMsg \cap AtHub
    BY <2>1, <2>2 DEF broadcastMsg
  <2>4. broadcast' = Append(broadcast, m) /\ inbox' = [inbox EXCEPT ![d] = Tail(@)]
    BY <1>6 DEF Drain
  <2> HIDE DEF m
  <2>5. \A i \in 1..Len(broadcast') : broadcast'[i] \in AtHub
    BY <1>1, <1>2, <2>3, <2>4, ChannelHolds
  <2>6. inbox'[d] = Tail(inbox[d]) /\ \A x \in Index \ {d} : inbox'[x] = inbox[x]
    BY <1>1, <2>1, <2>4
  <2>7. ASSUME NEW x \in Index, NEW i \in 1..Len(inbox'[x]) PROVE inbox'[x][i].fleet = x[1]
    <3>1. inbox'[x][i] \in Of(x[1])
      <4> HIDE DEF Of, Index
      <4>1. CASE x = d
        BY <2>2, <2>6, <2>7, <4>1, ZenonT(30)
      <4>2. CASE x # d
        BY <1>2, <2>6, <2>7, <4>2
      <4> QED BY <4>1, <4>2
    <3> QED BY <3>1
  <2> QED BY <2>5, <2>7 DEF HomeEvents
<1>7. CASE FanOut
  <2>1. broadcast # <<>> /\ broadcast' = Tail(broadcast) /\ UNCHANGED inbox
    BY <1>7 DEF FanOut, Deliver, drainVars
  <2>2. \A i \in 1..Len(broadcast') : broadcast'[i] \in AtHub
    <3> HIDE DEF AtHub
    <3> QED BY <1>1, <1>2, <2>1, ChannelHolds
  <2> QED BY <2>1, <2>2 DEF HomeEvents
<1>8. CASE UNCHANGED vars
  BY <1>3, <1>8 DEF vars, chanVars, drainVars
<1>9. CASE AddClient \/ RemoveClient \/ Cancel \/ Shutdown
  BY <1>3, <1>9, ZenonT(30) DEF AddClient, RemoveClient, Cancel, Shutdown, chanVars, drainVars
<1>10. CASE \E c \in Client : Connection(c)
  BY <1>3, <1>10, ZenonT(30) DEF Connection, ServeWS, ReadPumpEnds, WritePumpWrites,
     WritePumpEnds, PingFails, Unregister, chanVars, drainVars
<1>11. ASSUME NEW d \in draining, DrainReturns(d) PROVE HomeEvents'
  BY <1>3, <1>11, ZenonT(30) DEF DrainReturns, chanVars
<1> QED BY <1>4, <1>5, <1>6, <1>7, <1>8, <1>9, <1>10, <1>11 DEF Next, Hub, Feeder

\* The steps that are not the hub's own, or only tell it to stop.
Outside ==
    \/ Cancel \/ (\E c \in Client : Connection(c)) \/ (\E f \in Fleet : Feeder(f))
    \/ (\E d \in draining : Drain(d) \/ DrainReturns(d)) \/ UNCHANGED vars

\* None of them touches a map or a send channel, adds a client, or handles an
\* unregistration.
LEMMA OutsideFacts ==
    ASSUME HubInv, Outside
    PROVE  /\ UNCHANGED <<stream, joined, fanned, members, subscribed, ghosts, closes>>
           /\ Added' = Added
           /\ \A c \in Client : Left(c)' => Left(c)
<1>1. UNCHANGED <<stream, joined, fanned, members, subscribed, ghosts, closes>>
  BY ZenonT(30) DEF Outside, Cancel, Connection, ServeWS, ReadPumpEnds, WritePumpWrites,
     WritePumpEnds, PingFails, Unregister, Feeder, Publish, BroadcastEvent, Drain, DrainReturns, vars,
     fleetVars, histVars
<1>2. ASSUME UNCHANGED <<served, register>> PROVE Added' = Added
  BY <1>2 DEF Added, Elems
<1>3. ASSUME UNCHANGED <<unregister, once>> PROVE \A c \in Client : Left(c)' => Left(c)
  BY <1>3 DEF Left, Elems
<1>4. CASE Cancel \/ UNCHANGED vars \/ (\E f \in Fleet : Feeder(f))
           \/ (\E d \in draining : Drain(d) \/ DrainReturns(d))
  <2>1. UNCHANGED <<served, register, unregister, once>>
    BY <1>4, ZenonT(30) DEF Cancel, Feeder, Publish, BroadcastEvent, Drain, DrainReturns, vars,
       chanVars, pumpVars
  <2> QED BY <1>1, <1>2, <1>3, <2>1
<1>5. ASSUME NEW c \in Client, ServeWS(c) PROVE Added' = Added /\ UNCHANGED <<unregister, once>>
  <2>1. /\ register \in Seq(Client) /\ c \notin served /\ served' = served \cup {c}
        /\ register' = Append(register, c)
    BY <1>5 DEF ServeWS, HubInv, TypeOK, TypeChannels
  <2>2. Elems(register') = Elems(register) \cup {c} /\ Elems(register)' = Elems(register')
    BY <2>1, SendFacts DEF Elems
  <2>3. Added' = Added
    BY <2>1, <2>2, Zenon DEF Added
  <2>4. UNCHANGED <<unregister, once>>
    BY <1>5 DEF ServeWS
  <2> QED BY <2>3, <2>4
<1>6. ASSUME NEW c \in Client,
             ReadPumpEnds(c) \/ WritePumpWrites(c) \/ WritePumpEnds(c) \/ PingFails(c)
      PROVE  UNCHANGED <<served, register>> /\ \A x \in Client : Left(x)' => Left(x)
  <2>1. UNCHANGED <<served, register, unregister>> /\ (close(c) \/ UNCHANGED once)
    BY <1>6, ZenonT(30) DEF ReadPumpEnds, WritePumpWrites, WritePumpEnds, PingFails, chanVars
  <2>2. \A x \in Client : once'[x] = "done" => once[x] = "done"
    BY <2>1 DEF close, HubInv, TypeOK, TypeClients
  <2> QED BY <2>1, <2>2 DEF Left, Elems
<1>7. ASSUME NEW c \in Client, Unregister(c)
      PROVE  UNCHANGED <<served, register>> /\ \A x \in Client : Left(x)' => Left(x)
  <2>1. /\ unregister \in Seq(Client) /\ unregister' = Append(unregister, c)
        /\ once' = [once EXCEPT ![c] = "done"] /\ UNCHANGED <<served, register>>
    BY <1>7 DEF Unregister, HubInv, TypeOK, TypeChannels
  <2>2. Elems(unregister)' = Elems(unregister) \cup {c}
    BY <2>1, SendFacts DEF Elems
  <2> QED BY <2>1, <2>2 DEF Left, HubInv, TypeOK, TypeClients
<1> QED BY <1>1, <1>2, <1>3, <1>4, <1>5, <1>6, <1>7 DEF Outside, Connection

\* What clients were sent stays right when nothing is sent and clients only leave.
LEMMA InStepFrame ==
    ASSUME InStep, Added' = Added, UNCHANGED <<stream, joined, fanned>>,
           \A f \in Fleet : members'[f] \subseteq members[f]
    PROVE  InStep'
<1>1. \A c \in Client : FleetOf[c] \in Fleet
  BY CapsAssumption
<1>2. ASSUME NEW c \in Client PROVE InStepOf(c, FleetOf[c])'
  BY <1>1 DEF InStep, InStepOf
<1> QED BY <1>2 DEF InStep

\* A client that is added has been sent nothing, and starts where its fleet is.
LEMMA InStepAdd ==
    ASSUME HubInv, InStep, AddClient
    PROVE  InStep'
<1>1. register \in Seq(Client) /\ register # <<>> /\ register' = Tail(register)
  BY DEF AddClient, HubInv, TypeOK, TypeChannels
<1>2. PICK c \in Client : /\ c = Head(register) /\ c \in Elems(register)
                          /\ Elems(register') = Elems(register) \ {c}
  BY <1>1, ReceiveFacts DEF HubInv, Waiting
<1> DEFINE f == FleetOf[c]
<1>3. /\ members' = [members EXCEPT ![f] = @ \cup {c}]
      /\ joined' = [joined EXCEPT ![c] = Len(fanned[f])]
      /\ UNCHANGED <<served, stream, fanned>>
  BY <1>2 DEF AddClient
<1>4. Added' = Added \cup {c} /\ c \notin Added
  BY <1>2, <1>3, ZenonT(30) DEF Added, HubInv, Waiting, Elems
<1>5. f \in Fleet /\ \A x \in Client : FleetOf[x] \in Fleet
  BY <1>2, CapsAssumption
<1>6. /\ members \in [Fleet -> SUBSET Client] /\ joined \in [Client -> Nat]
      /\ fanned[f] \in Seq(Event) /\ stream[c] \in Seq(Event)
  BY <1>2, <1>5 DEF HubInv, TypeOK, TypeFleets, TypeClients
<1>7. Len(stream[c]) = 0 /\ Len(fanned[f]) \in Nat
  <2>1. InStepOf(c, FleetOf[c])
    BY DEF InStep
  <2>2. Len(stream[c]) = 0
    BY <1>4, <2>1 DEF InStepOf
  <2> QED BY <1>6, <2>2
<1>8. InStepOf(c, f)'
  <2>1. joined'[c] = Len(fanned[f])
    BY <1>2, <1>3, <1>6
  <2>2. stream'[c] = stream[c] /\ fanned'[f] = fanned[f] /\ c \in Added'
    BY <1>3, <1>4
  <2>3. Len(stream'[c]) = 0 /\ 1..Len(stream'[c]) = {}
    BY <1>7, <2>2
  <2> HIDE DEF f
  <2>4. joined'[c] + Len(stream'[c]) = Len(fanned'[f])
    <3>1. Len(fanned[f]) + 0 = Len(fanned[f])
      BY <1>7
    <3> QED BY <2>1, <2>2, <2>3, <3>1, Zenon
  <2> QED BY <2>2, <2>3, <2>4, Zenon DEF InStepOf
<1>9. ASSUME NEW x \in Client, x # c PROVE InStepOf(x, FleetOf[x])'
  <2>1. joined'[x] = joined[x] /\ (x \in members'[FleetOf[x]] => x \in members[FleetOf[x]])
    BY <1>3, <1>5, <1>6, <1>9
  <2>2. x \notin Added' => x \notin Added
    BY <1>4
  <2>3. stream'[x] = stream[x] /\ fanned'[FleetOf[x]] = fanned[FleetOf[x]]
    BY <1>3, Zenon
  <2>4. InStepOf(x, FleetOf[x])
    BY Zenon DEF InStep
  <2> QED BY <2>1, <2>2, <2>3, <2>4, ZenonT(30) DEF InStepOf
<1> QED BY <1>8, <1>9 DEF InStep

\* What fanOut does to a client: it gets the event its fleet gets, or leaves the
\* map, or is not concerned.
LEMMA InStepFanOut ==
    ASSUME HubInv, HomeEvents, InStep, MembersCount, FanOut
    PROVE  InStep'
<1>1. broadcast \in Seq(broadcastMsg) /\ broadcast # <<>>
  BY DEF FanOut, Deliver, HubInv, TypeOK, TypeChannels
<1>2. PICK m \in broadcastMsg : m = Head(broadcast) /\ m.data.fleet = m.fleetID
  <2>1. Head(broadcast) \in broadcastMsg /\ Head(broadcast) = broadcast[1] /\ 1 \in 1..Len(broadcast)
    BY <1>1
  <2> QED BY <2>1 DEF HomeEvents
<1> DEFINE e == m.data
           f == m.fleetID
<1>3. f \in Fleet /\ e \in Event /\ e.fleet = f
  BY <1>2 DEF broadcastMsg
<1>4. /\ stream' = [c \in Client |-> IF c \in members[f] \ FullClients
                                     THEN Append(stream[c], e) ELSE stream[c]]
      /\ members' = [members EXCEPT ![f] = @ \ FullClients]
      /\ fanned' = IF subscribed[f] THEN [fanned EXCEPT ![f] = Append(@, e)] ELSE fanned
      /\ UNCHANGED <<register, served, joined>>
  BY <1>2 DEF FanOut, Deliver
<1> HIDE DEF e, f
<1>5. Added' = Added
  BY <1>4 DEF Added, Elems
<1>6. /\ members \in [Fleet -> SUBSET Client] /\ fanned \in [Fleet -> Seq(Event)]
      /\ stream \in [Client -> Seq(Event)] /\ joined \in [Client -> Nat]
  BY DEF HubInv, TypeOK, TypeFleets, TypeClients
<1>7. ASSUME NEW c \in Client PROVE InStepOf(c, FleetOf[c])'
  <2> DEFINE g == FleetOf[c]
  <2>1. g \in Fleet /\ stream[c] \in Seq(Event) /\ fanned[g] \in Seq(Event) /\ joined[c] \in Nat
    BY <1>6, CapsAssumption
  <2>2. InStepOf(c, g)
    BY DEF InStep
  <2> HIDE DEF g
  <2>3. CASE c \in members[f] \ FullClients
    <3>1. g = f /\ subscribed[f] /\ c \in Added
      BY <1>3, <2>3 DEF HubInv, AtHome, Waiting, MembersCount, g
    <3>2. stream'[c] = Append(stream[c], e) /\ fanned'[g] = Append(fanned[g], e)
      BY <1>4, <1>6, <2>1, <2>3, <3>1
    <3>3. joined[c] + Len(stream[c]) = Len(fanned[g])
      BY <2>2, <2>3, <3>1 DEF InStepOf
    <3>a. /\ Len(stream'[c]) = Len(stream[c]) + 1 /\ Len(fanned'[g]) = Len(fanned[g]) + 1
          /\ Len(stream[c]) \in Nat /\ Len(fanned[g]) \in Nat
      BY <1>3, <2>1, <3>2
    <3>b. joined[c] + (Len(stream[c]) + 1) = Len(fanned[g]) + 1
      <4> DEFINE j == joined[c]
                 n == Len(stream[c])
                 k == Len(fanned[g])
      <4>1. j \in Nat /\ n \in Nat /\ k \in Nat /\ j + n = k
        BY <2>1, <3>3, <3>a
      <4> HIDE DEF j, n, k
      <4>2. j + (n + 1) = k + 1
        BY <4>1
      <4> QED BY <4>2 DEF j, n, k
    <3>4. /\ \A i \in 1..Len(stream[c]) : stream'[c][i] = stream[c][i]
          /\ \A i \in 1..Len(fanned[g]) : fanned'[g][i] = fanned[g][i]
          /\ stream'[c][Len(stream[c]) + 1] = e /\ fanned'[g][Len(fanned[g]) + 1] = e
      BY <1>3, <2>1, <3>2
    <3>5. ASSUME NEW i \in 1..Len(stream'[c])
          PROVE  /\ stream'[c][i].fleet = g /\ joined[c] + i =< Len(fanned'[g])
                 /\ stream'[c][i] = fanned'[g][joined[c] + i]
      <4>1. CASE i \in 1..Len(stream[c])
        <5>1. joined[c] + i \in 1..Len(fanned[g])
          BY <2>1, <3>3, <3>a, <4>1
        <5>2. stream[c][i].fleet = g /\ stream[c][i] = fanned[g][joined[c] + i]
          BY <2>2, <4>1 DEF InStepOf
        <5>3. joined[c] + i =< Len(fanned'[g])
          BY <2>1, <3>a, <5>1
        <5> QED BY <3>4, <4>1, <5>1, <5>2, <5>3
      <4>2. CASE i = Len(stream[c]) + 1
        <5>1. joined[c] + i = Len(fanned[g]) + 1
          BY <3>b, <4>2
        <5>2. joined[c] + i =< Len(fanned'[g])
          BY <3>a, <5>1
        <5> QED BY <1>3, <3>1, <3>4, <4>2, <5>1, <5>2
      <4> QED BY <3>a, <4>1, <4>2
    <3>6. joined[c] + Len(stream'[c]) = Len(fanned'[g])
      BY <3>a, <3>b
    <3>7. InStepOf(c, g)'
      BY <1>4, <1>5, <3>1, <3>5, <3>6, ZenonT(30) DEF InStepOf, g
    <3> QED BY <3>7 DEF g
  <2>4. CASE c \notin members[f] \ FullClients
    <3>1. stream'[c] = stream[c]
      BY <1>4, <2>4
    <3>2. /\ Len(fanned[g]) =< Len(fanned'[g]) /\ Len(fanned'[g]) \in Nat
          /\ \A i \in 1..Len(fanned[g]) : fanned'[g][i] = fanned[g][i]
      <4>1. fanned'[g] \in {fanned[g], Append(fanned[g], e)}
        BY <1>4, <1>6, <2>1
      <4> QED BY <1>3, <2>1, <4>1
    <3>3. ASSUME c \in members'[g] PROVE c \in members[g] /\ fanned'[g] = fanned[g]
      <4>1. c \in members[g] /\ g # f
        BY <1>4, <1>6, <2>1, <2>4, <3>3, ZenonT(30)
      <4>2. [fanned EXCEPT ![f] = Append(@, e)][g] = fanned[g]
        BY <1>6, <2>1, <4>1
      <4> QED BY <1>4, <4>1, <4>2, Zenon
    <3>4. ASSUME NEW i \in 1..Len(stream[c])
          PROVE  /\ stream[c][i].fleet = g /\ joined[c] + i =< Len(fanned'[g])
                 /\ stream[c][i] = fanned'[g][joined[c] + i]
      <4>1. joined[c] + i \in 1..Len(fanned[g]) /\ Len(fanned[g]) \in Nat
        BY <2>1, <2>2 DEF InStepOf
      <4>2. joined[c] + i =< Len(fanned'[g])
        BY <3>2, <4>1
      <4> QED BY <2>2, <3>2, <4>1, <4>2 DEF InStepOf
    <3>5. /\ c \notin Added' => Len(stream'[c]) = 0
          /\ c \in members'[g] => joined'[c] + Len(stream'[c]) = Len(fanned'[g])
      BY <1>4, <1>5, <2>2, <3>1, <3>3, ZenonT(30) DEF InStepOf
    <3>6. InStepOf(c, g)'
      BY <1>4, <3>1, <3>4, <3>5, ZenonT(30) DEF InStepOf, g
    <3> QED BY <3>6 DEF g
  <2> QED BY <2>3, <2>4
<1> QED BY <1>7 DEF InStep

\* What clients are sent is right after every step.
LEMMA InStepStep ==
    ASSUME HubInv, HomeEvents, InStep, MembersCount, [Next]_vars
    PROVE  InStep'
<1>1. CASE Outside
  BY <1>1, OutsideFacts, InStepFrame
<1>2. CASE RemoveClient
  <2>1. Added' = Added /\ UNCHANGED <<stream, joined, fanned>>
    BY <1>2, ZenonT(30) DEF RemoveClient, Added, Elems, histVars
  <2>2. \A f \in Fleet : members'[f] \subseteq members[f]
    BY <1>2 DEF RemoveClient, HubInv, TypeOK, TypeFleets
  <2> QED BY <2>1, <2>2, InStepFrame
<1>3. CASE Shutdown
  <2>1. Added' = Added /\ UNCHANGED <<stream, joined, fanned>>
    BY <1>3 DEF Shutdown, Added, Elems, chanVars, histVars
  <2>2. \A f \in Fleet : members'[f] \subseteq members[f]
    BY <1>3 DEF Shutdown
  <2> QED BY <2>1, <2>2, InStepFrame
<1> QED BY <1>1, <1>2, <1>3, InStepAdd, InStepFanOut DEF Next, Hub, Outside

\* The accounts stay right when nobody leaves or is evicted.
LEMMA CountFrame ==
    ASSUME HubInv, MembersCount, SubscriptionsAccountedFor,
           UNCHANGED <<members, subscribed, ghosts, closes>>,
           \A c \in Client : Left(c)' => Left(c)
    PROVE  MembersCount' /\ SubscriptionsAccountedFor'
<1>1. \A f \in Fleet : members[f] \subseteq Client
  BY DEF HubInv, TypeOK, TypeFleets
<1>2. MembersCount'
  BY <1>1 DEF MembersCount
<1>3. SubscriptionsAccountedFor'
  BY DEF SubscriptionsAccountedFor
<1> QED BY <1>2, <1>3

\* A ghost is known as one from the start.
LEMMA CountAdd ==
    ASSUME HubInv, MembersCount, SubscriptionsAccountedFor, AddClient
    PROVE  MembersCount' /\ SubscriptionsAccountedFor'
<1>1. register \in Seq(Client) /\ register # <<>>
  BY DEF AddClient, HubInv, TypeOK, TypeChannels
<1>2. PICK c \in Client : c = Head(register)
  BY <1>1
<1> DEFINE f == FleetOf[c]
<1>3. /\ members' = [members EXCEPT ![f] = @ \cup {c}]
      /\ subscribed' = [subscribed EXCEPT ![f] = TRUE]
      /\ ghosts' = IF Left(c) THEN ghosts \cup {c} ELSE ghosts
      /\ UNCHANGED <<unregister, closes, once>>
  BY <1>2 DEF AddClient, pumpVars
<1>4. \A x : Left(x)' <=> Left(x)
  BY <1>3, ZenonT(30) DEF Left, Elems
<1>5. /\ members \in [Fleet -> SUBSET Client] /\ subscribed \in [Fleet -> BOOLEAN]
      /\ f \in Fleet
  BY CapsAssumption DEF HubInv, TypeOK, TypeFleets
<1>6. ASSUME NEW g \in Fleet, NEW x \in members'[g]
      PROVE  subscribed'[g] /\ (~Left(x)' \/ x \in ghosts')
  <2>1. x \in members[g] \/ (g = f /\ x = c)
    BY <1>3, <1>5, <1>6
  <2>2. CASE x \in members[g]
    <3>1. subscribed[g] /\ (~Left(x) \/ x \in ghosts)
      BY <2>2, ZenonT(30) DEF MembersCount
    <3> QED BY <1>3, <1>4, <1>5, <3>1
  <2>3. CASE g = f /\ x = c
    BY <1>3, <1>4, <1>5, <2>3
  <2> QED BY <2>1, <2>2, <2>3
<1>7. ASSUME NEW g \in Fleet, subscribed'[g], members'[g] = {}
      PROVE  \E x \in Client : /\ FleetOf[x] = g /\ closes'[x] > 0
                               /\ ~Left(x)' \/ x \in ghosts'
  <2>1. subscribed[g] /\ members[g] = {}
    BY <1>3, <1>5, <1>7
  <2>2. PICK x \in Client : /\ FleetOf[x] = g /\ closes[x] > 0
                            /\ ~Left(x) \/ x \in ghosts
    BY <2>1 DEF SubscriptionsAccountedFor
  <2> QED BY <1>3, <1>4, <2>2
<1> QED BY <1>6, <1>7 DEF MembersCount, SubscriptionsAccountedFor

\* removeClient ends the account of its client, and looks at its fleet once more.
LEMMA CountRemove ==
    ASSUME HubInv, MembersCount, SubscriptionsAccountedFor, RemoveClient
    PROVE  MembersCount' /\ SubscriptionsAccountedFor'
<1>1. unregister \in Seq(Client) /\ unregister # <<>> /\ unregister' = Tail(unregister)
  BY DEF RemoveClient, HubInv, TypeOK, TypeChannels
<1>2. PICK c \in Client : c = Head(unregister)
  BY <1>1
<1> DEFINE f == FleetOf[c]
<1>3. /\ members' = [members EXCEPT ![f] = @ \ {c}]
      /\ closes' = [closes EXCEPT ![c] = IF c \in members[f] THEN @ + 1 ELSE @]
      /\ subscribed' = [subscribed EXCEPT ![f] = members'[f] # {}]
      /\ UNCHANGED <<ghosts, once>>
  BY <1>2 DEF RemoveClient, pumpVars, histVars
<1>4. ASSUME NEW x \in Client, x # c PROVE Left(x)' => Left(x)
  <2>1. ASSUME x \in Elems(unregister) PROVE x \in Elems(unregister)'
    <3>1. PICK i \in 1..Len(unregister) : x = unregister[i]
      BY <2>1 DEF Elems
    <3>2. i # 1
      BY <1>1, <1>2, <1>4, <3>1
    <3>3. i - 1 \in 1..Len(unregister') /\ unregister'[i - 1] = x
      BY <1>1, <3>1, <3>2
    <3> QED BY <3>3 DEF Elems
  <2> QED BY <1>3, <2>1 DEF Left
<1>5. /\ members \in [Fleet -> SUBSET Client] /\ subscribed \in [Fleet -> BOOLEAN]
      /\ closes \in [Client -> Nat] /\ f \in Fleet
  BY CapsAssumption DEF HubInv, TypeOK, TypeFleets, TypeClients
<1>6. ASSUME NEW g \in Fleet, NEW x \in members'[g]
      PROVE  subscribed'[g] /\ (~Left(x)' \/ x \in ghosts')
  <2>1. x \in members[g] /\ x \in Client
    BY <1>3, <1>5, <1>6
  <2>2. x # c
    BY <1>3, <1>5, <1>6, <2>1 DEF HubInv, AtHome
  <2>3. subscribed[g] /\ (~Left(x) \/ x \in ghosts)
    BY <2>1 DEF MembersCount
  <2>4. subscribed'[g]
    BY <1>3, <1>5, <1>6, <2>3
  <2> QED BY <1>3, <1>4, <2>1, <2>2, <2>3, <2>4
<1>7. ASSUME NEW g \in Fleet, subscribed'[g], members'[g] = {}
      PROVE  \E x \in Client : /\ FleetOf[x] = g /\ closes'[x] > 0
                               /\ ~Left(x)' \/ x \in ghosts'
  <2>1. g # f /\ subscribed[g] /\ members[g] = {}
    BY <1>3, <1>5, <1>7, ZenonT(30)
  <2>2. PICK x \in Client : /\ FleetOf[x] = g /\ closes[x] > 0
                            /\ ~Left(x) \/ x \in ghosts
    BY <2>1 DEF SubscriptionsAccountedFor
  <2>3. x # c /\ closes'[x] = closes[x]
    BY <1>3, <1>5, <2>1, <2>2
  <2> QED BY <1>3, <1>4, <2>2, <2>3
<1> QED BY <1>6, <1>7 DEF MembersCount, SubscriptionsAccountedFor

\* The last client that fanOut evicts is the one to wait for.
LEMMA CountFanOut ==
    ASSUME HubInv, MembersCount, SubscriptionsAccountedFor, FanOut
    PROVE  MembersCount' /\ SubscriptionsAccountedFor'
<1>1. broadcast \in Seq(broadcastMsg) /\ broadcast # <<>>
  BY DEF FanOut, Deliver, HubInv, TypeOK, TypeChannels
<1>2. PICK f \in Fleet : f = Head(broadcast).fleetID
  <2>1. Head(broadcast) \in broadcastMsg
    BY <1>1
  <2>2. Head(broadcast).fleetID \in Fleet
    BY <2>1 DEF broadcastMsg
  <2> QED BY <2>2
<1>3. /\ closes' = [c \in Client |-> IF c \in members[f] \cap FullClients
                                     THEN closes[c] + 1 ELSE closes[c]]
      /\ members' = [members EXCEPT ![f] = @ \ FullClients]
      /\ UNCHANGED <<unregister, subscribed, ghosts, once>>
  BY <1>2 DEF FanOut, Deliver, pumpVars
<1>4. \A x : Left(x)' <=> Left(x)
  BY <1>3 DEF Left, Elems
<1>5. members \in [Fleet -> SUBSET Client] /\ closes \in [Client -> Nat]
  BY DEF HubInv, TypeOK, TypeFleets, TypeClients
<1>6. MembersCount'
  BY <1>3, <1>4, <1>5 DEF MembersCount
<1>7. ASSUME NEW g \in Fleet, subscribed'[g], members'[g] = {}
      PROVE  \E x \in Client : /\ FleetOf[x] = g /\ closes'[x] > 0
                               /\ ~Left(x)' \/ x \in ghosts'
  <2>1. CASE members[g] = {}
    <3>1. PICK x \in Client : /\ FleetOf[x] = g /\ closes[x] > 0
                              /\ ~Left(x) \/ x \in ghosts
      BY <1>3, <1>7, <2>1 DEF SubscriptionsAccountedFor
    <3>2. closes'[x] > 0
      BY <1>3, <1>5, <3>1
    <3> QED BY <1>3, <1>4, <3>1, <3>2
  <2>2. CASE members[g] # {}
    <3>1. PICK x \in members[g] : TRUE
      BY <2>2
    <3>2. g = f /\ x \in FullClients
      BY <1>3, <1>5, <1>7, <3>1
    <3>3. x \in Client /\ closes'[x] > 0
      BY <1>3, <1>5, <3>1, <3>2
    <3>4. FleetOf[x] = g /\ (~Left(x) \/ x \in ghosts)
      BY <3>1 DEF HubInv, AtHome, MembersCount
    <3> QED BY <1>3, <1>4, <3>3, <3>4
  <2> QED BY <2>1, <2>2
<1> QED BY <1>6, <1>7 DEF SubscriptionsAccountedFor

\* Every step keeps the accounts.
LEMMA CountStep ==
    ASSUME HubInv, MembersCount, SubscriptionsAccountedFor, [Next]_vars
    PROVE  MembersCount' /\ SubscriptionsAccountedFor'
<1>1. CASE Outside
  BY <1>1, OutsideFacts, CountFrame
<1>2. CASE Shutdown
  BY <1>2, ZenonT(30) DEF Shutdown, MembersCount, SubscriptionsAccountedFor
<1> QED BY <1>1, <1>2, CountAdd, CountRemove, CountFanOut DEF Next, Hub, Outside

\* Both invariants hold at any time.
LEMMA StreamAlways == Spec => [](HubInv /\ StreamInv)
<1>1. Init => HubInv
  BY HubInit
<1>2. ASSUME Init PROVE StreamInv
  <2>1. HomeEvents
    BY <1>2 DEF Init, HomeEvents
  <2>2. InStep
    BY <1>2, CapsAssumption DEF Init, InStep, InStepOf
  <2>3. MembersCount /\ SubscriptionsAccountedFor
    BY <1>2 DEF Init, MembersCount, SubscriptionsAccountedFor
  <2> QED BY <2>1, <2>2, <2>3 DEF StreamInv
<1>3. HubInv /\ [Next]_vars => HubInv'
  BY HubStep
<1>4. HubInv /\ StreamInv /\ [Next]_vars => StreamInv'
  BY HomeStep, InStepStep, CountStep DEF StreamInv
<1> QED BY <1>1, <1>2, <1>3, <1>4, PTL DEF Spec

\* Every client is sent, without gap, repeat or event of another fleet, what was
\* fanned out to its fleet from the moment it joined until it left or was
\* evicted, however many clients come and go and however slow they are.
THEOREM ClientsMissNothing == Spec => []GapFree
<1>1. ASSUME HubInv, StreamInv PROVE GapFree
  <2>1. ASSUME NEW c \in Client, Len(stream[c]) > 0
        PROVE  LET f == FleetOf[c]
                   n == Len(stream[c])
               IN  /\ joined[c] + n =< Len(fanned[f])
                   /\ stream[c] = SubSeq(fanned[f], joined[c] + 1, joined[c] + n)
    <3> DEFINE f == FleetOf[c]
               n == Len(stream[c])
               j == joined[c]
               s == fanned[f]
    <3>1. f \in Fleet /\ stream[c] \in Seq(Event) /\ s \in Seq(Event) /\ j \in Nat
      BY <1>1, CapsAssumption DEF HubInv, TypeOK, TypeFleets, TypeClients
    <3>2. n \in Nat /\ n > 0 /\ Len(s) \in Nat
      <4> HIDE DEF s, j, f
      <4> QED BY <2>1, <3>1, SMTT(30)
    <3>3. \A i \in 1..n : j + i =< Len(s) /\ stream[c][i] = s[j + i]
      BY <1>1 DEF StreamInv, InStep, InStepOf
    <3> DEFINE t == SubSeq(s, j + 1, j + n)
    <3> HIDE DEF n, j, s
    <3>4. j + n =< Len(s)
      BY <3>2, <3>3
    <3>5. \A i \in (j + 1)..(j + n) : i \in 1..Len(s)
      BY <3>1, <3>2, <3>4
    <3>6. \A i \in (j + 1)..(j + n) : s[i] \in Event
      BY <3>1, <3>5, ElementOfSeq
    <3>7. /\ t \in Seq(Event)
          /\ Len(t) = IF j + 1 <= j + n THEN (j + n) - (j + 1) + 1 ELSE 0
          /\ \A i \in 1..((j + n) - (j + 1) + 1) : t[i] = s[(j + 1) + i - 1]
      <4>1. j + 1 \in Int /\ j + n \in Int
        BY <3>1, <3>2
      <4> QED BY <3>6, <4>1, SubSeqProperties
    <3> HIDE DEF t
    <3>8. Len(t) = n /\ \A i \in 1..n : t[i] = s[j + i]
      <4>1. (j + n) - (j + 1) + 1 = n /\ j + 1 <= j + n
        BY <3>1, <3>2
      <4>2. \A i \in 1..n : (j + 1) + i - 1 = j + i
        BY <3>1, <3>2
      <4> QED BY <3>7, <4>1, <4>2
    <3>9. stream[c] = t
      BY <3>1, <3>3, <3>7, <3>8, SeqEqual DEF n
    <3> QED BY <3>4, <3>9, ZenonT(30) DEF n, j, s, t
  <2>2. ASSUME NEW c \in Client
        PROVE  /\ \A i \in 1..Len(stream[c]) : stream[c][i].fleet = FleetOf[c]
               /\ c \in members[FleetOf[c]] =>
                     joined[c] + Len(stream[c]) = Len(fanned[FleetOf[c]])
    BY <1>1 DEF StreamInv, InStep, InStepOf
  <2> QED BY <2>1, <2>2, ZenonT(30) DEF GapFree
<1> QED BY <1>1, StreamAlways, PTL

\* Whenever a fleet is subscribed and has no client, an evicted client whose
\* unregistration is still to come, or a ghost, explains it.
THEOREM SubscriptionsExplained == Spec => []SubscriptionsAccountedFor
<1>1. StreamInv => SubscriptionsAccountedFor
  BY DEF StreamInv
<1> QED BY <1>1, StreamAlways, PTL

=============================================================================
