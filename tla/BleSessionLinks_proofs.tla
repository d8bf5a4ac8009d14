------------------------ MODULE BleSessionLinks_proofs ------------------------
(***************************************************************************)
(* BleSession implements DeviceLinks, and keeps every device with a        *)
(* session flagged connected, for every set of devices, every size of the  *)
(* client pool and every limit of failures.                                *)
(***************************************************************************)
EXTENDS BleSessionLinks, BleSession_proofs

-----------------------------------------------------------------------------
(* The links of a pool *)

Linked == {"up", "term"}

\* No two clients of the pool are connected to the same device.
OneLink(pool) ==
    \A s, t \in Clients :
        pool[s].state \in Linked /\ pool[t].state \in Linked
            /\ pool[s].peer = pool[t].peer => s = t

\* Changing clients that are not connected, before and after, changes no link.
LEMMA SameLinks ==
    ASSUME NEW pool, NEW pool2,
           \A s \in Clients : \/ pool2[s] = pool[s]
                              \/ /\ pool[s].state \notin Linked
                                 /\ pool2[s].state \notin Linked
    PROVE  LinksOf(pool2) = LinksOf(pool)
<1>1. \A p : /\ LinkedIn(pool2, p, {"up"}) <=> LinkedIn(pool, p, {"up"})
             /\ LinkedIn(pool2, p, {"term"}) <=> LinkedIn(pool, p, {"term"})
  BY DEF LinkedIn, Linked
<1> QED
  BY <1>1 DEF LinksOf

\* A device whose link is not "down" has a client, and the other way round.
LEMMA LinkOfClient ==
    ASSUME NEW pool, NEW s \in Clients, pool[s].peer \in Peers,
           pool[s].state \in Linked
    PROVE  LinksOf(pool)[pool[s].peer] # "down"
  BY DEF LinksOf, LinkedIn, Linked

\* Without a connected client the link of a device is "down".
LEMMA NoClientNoLink ==
    ASSUME NEW pool, NEW p \in Peers,
           \A s \in Clients : pool[s].state \in Linked => pool[s].peer # p
    PROVE  LinksOf(pool)[p] = "down"
  BY DEF LinksOf, LinkedIn, Linked

\* The link of a client that is up is "up".
LEMMA LinkOfUpClient ==
    ASSUME NEW pool, NEW s \in Clients, pool[s].peer \in Peers,
           pool[s].state = "up"
    PROVE  LinksOf(pool)[pool[s].peer] = "up"
  BY DEF LinksOf, LinkedIn

\* Without a client that is up no link is "up".
LEMMA NoUpNoLinkUp ==
    ASSUME NEW pool, NoLinkUp(pool), NEW p \in Peers
    PROVE  LinksOf(pool)[p] # "up"
  BY DEF LinksOf, LinkedIn, NoLinkUp

\* clearResources asks every link to end.
LEMMA TerminatedLinks ==
    ASSUME NEW pool \in Pool
    PROVE  /\ LinksOf(Terminated(pool)) = Links!Ending(LinksOf(pool))
           /\ OneLink(pool) => OneLink(Terminated(pool))
<1>1. \A s \in Clients :
          /\ Terminated(pool)[s].peer = pool[s].peer
          /\ Terminated(pool)[s].state =
                IF pool[s].state = "up" THEN "term" ELSE pool[s].state
  BY DEF Terminated, Pool, Client
<1>2. \A p : /\ ~LinkedIn(Terminated(pool), p, {"up"})
             /\ LinkedIn(Terminated(pool), p, {"term"}) <=>
                    LinkedIn(pool, p, {"up"}) \/ LinkedIn(pool, p, {"term"})
  BY <1>1 DEF LinkedIn
<1>3. LinksOf(Terminated(pool)) = Links!Ending(LinksOf(pool))
  BY <1>2 DEF LinksOf, Links!Ending
<1>4. OneLink(pool) => OneLink(Terminated(pool))
  BY <1>1 DEF OneLink, Linked
<1> QED
  BY <1>3, <1>4

\* The state of one client decides the link of its device, and of no other.
LEMMA ClientDecidesLink ==
    ASSUME NEW pool \in Pool, OneLink(pool), NEW s \in Clients, NEW c,
           pool[s].state \in Linked, pool[s].peer \in Peers,
           c.state \notin Linked \/ (c.state = "term" /\ c.peer = pool[s].peer)
    PROVE  LinksOf([pool EXCEPT ![s] = c]) =
               [LinksOf(pool) EXCEPT ![pool[s].peer] =
                   IF c.state = "term" THEN "ending" ELSE "down"]
<1> DEFINE p == pool[s].peer
           pool2 == [pool EXCEPT ![s] = c]
<1>1. pool2[s] = c /\ \A t \in Clients : t # s => pool2[t] = pool[t]
  BY DEF Pool
<1> HIDE DEF pool2
<1>2. ASSUME NEW q \in Peers, q # p
      PROVE  /\ LinkedIn(pool2, q, {"up"}) <=> LinkedIn(pool, q, {"up"})
             /\ LinkedIn(pool2, q, {"term"}) <=> LinkedIn(pool, q, {"term"})
  BY <1>1, <1>2 DEF LinkedIn, Linked
<1>3. /\ ~LinkedIn(pool2, p, {"up"})
      /\ LinkedIn(pool2, p, {"term"}) <=> c.state = "term"
  BY <1>1 DEF LinkedIn, Linked, OneLink
<1> QED
  BY <1>2, <1>3 DEF LinksOf, pool2

\* A client that comes up gives its device a link.
LEMMA ClientComesUp ==
    ASSUME NEW pool \in Pool, NEW s \in Clients, pool[s].peer \in Peers,
           \A t \in Clients : pool[t].state \in Linked =>
                                  pool[t].peer # pool[s].peer
    PROVE  LinksOf([pool EXCEPT ![s].state = "up"]) =
               [LinksOf(pool) EXCEPT ![pool[s].peer] = "up"]
<1> DEFINE p == pool[s].peer
           pool2 == [pool EXCEPT ![s].state = "up"]
<1>1. /\ pool2[s].state = "up" /\ pool2[s].peer = p
      /\ \A t \in Clients : t # s => pool2[t] = pool[t]
  BY DEF Pool, Client
<1>2. pool[s].state \notin Linked
  OBVIOUS
<1> HIDE DEF pool2
<1>3. ASSUME NEW q \in Peers, q # p
      PROVE  /\ LinkedIn(pool2, q, {"up"}) <=> LinkedIn(pool, q, {"up"})
             /\ LinkedIn(pool2, q, {"term"}) <=> LinkedIn(pool, q, {"term"})
  BY <1>1, <1>2, <1>3 DEF LinkedIn, Linked
<1>4. LinkedIn(pool2, p, {"up"})
  BY <1>1 DEF LinkedIn
<1> QED
  BY <1>3, <1>4 DEF LinksOf, pool2

-----------------------------------------------------------------------------
(* The invariant behind the refinement *)

\* where the loop task has chosen a client
HasClient == {"connect", "wait", "onConnect", "connectReturns",
              "connectFailed", "check", "discover"}

\* During an attempt the client of the loop task is disconnected, has the
\* address of the device, and no client has a link to it.
AttemptIsAlone ==
    gap = "conn" =>
        /\ loop.target \in Peers
        /\ client[loop.pClient] = [state |-> "idle", peer |-> loop.target]
        /\ \A s \in Clients : client[s].state \in Linked =>
                                  client[s].peer # loop.target

LinkInv ==
    /\ loop.pc \in HasClient => loop.pClient \in Clients
    /\ \A s \in Clients : client[s].state \in Linked => client[s].peer \in Peers
    /\ OneLink(client)
    /\ AttemptIsAlone

\* what the steps below are about: LinkInv again, and a step of DeviceLinks
LinkStep == LinkInv' /\ (Links!Next \/ UNCHANGED <<Radio, Trying, LinksOf(client)>>)

\* A step that changes no link and no attempt.
LEMMA QuietStep ==
    ASSUME TypeOK, ScanInv, LinkInv,
           loop'.pc \in HasClient => loop'.pClient \in Clients,
           gap' = gap,
           gap = "conn" => UNCHANGED <<loop, client>>,
           \A s \in Clients : \/ client'[s] = client[s]
                              \/ /\ client[s].state \notin Linked
                                 /\ client'[s].state \notin Linked
    PROVE  LinkStep
<1>1. LinksOf(client') = LinksOf(client)
  BY SameLinks
<1>2. UNCHANGED Radio /\ UNCHANGED Trying
  BY DEF Radio, Trying
<1>3. LinkInv'
  BY DEF LinkInv, OneLink, AttemptIsAlone
<1> QED
  BY <1>1, <1>2, <1>3 DEF LinkStep

\* The state after setup() is the first state of DeviceLinks.
LEMMA InitLinks == Init => LinkInv /\ Links!Init
<1> SUFFICES ASSUME Init PROVE LinkInv /\ Links!Init
  OBVIOUS
<1>1. \A s \in Clients : client[s].state \notin Linked
  BY DEF Init, FreeClient, Linked
<1>2. LinksOf(client) = Links!AllDown
  BY <1>1 DEF LinksOf, LinkedIn, Linked, Links!AllDown
<1>3. AtTop.pc \notin HasClient
  BY DEF AtTop, HasClient
<1>4. loop.pc \notin HasClient /\ gap = "scan"
  BY <1>3 DEF Init
<1> QED
  BY <1>1, <1>2, <1>4 DEF LinkInv, OneLink, AttemptIsAlone, Radio, Trying, Links!Init

\* So is the state after a reboot.
LEMMA RebootLinks == Reboot => LinkStep
<1> SUFFICES ASSUME Reboot PROVE LinkStep
  OBVIOUS
<1>1. \A s \in Clients : client'[s].state \notin Linked
  BY DEF Reboot, FreeClient, Linked
<1>2. LinksOf(client') = Links!AllDown
  BY <1>1 DEF LinksOf, LinkedIn, Linked, Links!AllDown
<1>3. AtTop.pc \notin HasClient
  BY DEF AtTop, HasClient
<1>4. loop'.pc \notin HasClient /\ gap' = "scan"
  BY <1>3 DEF Reboot
<1>5. LinkInv'
  BY <1>1, <1>4 DEF LinkInv, OneLink, AttemptIsAlone
<1>6. Links!Restart
  BY <1>2, <1>4 DEF Links!Restart, Radio, Trying
<1> QED
  BY <1>5, <1>6 DEF LinkStep, Links!Next

\* The callbacks of the host task are steps of DeviceLinks.
LEMMA HostLinks == TypeOK /\ ScanInv /\ LinkInv /\ HostStep => LinkStep
<1> SUFFICES ASSUME TypeOK, ScanInv, LinkInv, HostStep PROVE LinkStep
  OBVIOUS
<1>0. client \in Pool /\ gap \in {"idle", "scan", "conn", "cancel"}
  BY DEF TypeOK, Pool
<1>1. ASSUME NEW p \in Peers, ScanResult(p) PROVE LinkStep
  BY <1>1, QuietStep DEF ScanResult, LinkInv
<1>2. CASE ScanEnd
  <2>1. /\ gap = "scan" /\ gap' = "idle"
        /\ UNCHANGED <<loop, client>>
    BY <1>2 DEF ScanEnd
  <2>2. LinkInv'
    BY <2>1 DEF LinkInv, OneLink, AttemptIsAlone
  <2>3. Links!ScanEnds
    BY <2>1 DEF Links!ScanEnds, Radio, Trying
  <2> QED
    BY <2>2, <2>3 DEF LinkStep, Links!Next
<1>3. CASE LinkUp
  <2> DEFINE c == loop.pClient
  <2>1. /\ gap = "conn" /\ gap' = "idle" /\ UNCHANGED loop
        /\ loop.pc = "wait"
        /\ client' = [client EXCEPT ![c].state = "up"]
    BY <1>3 DEF LinkUp
  <2>2. /\ c \in Clients
        /\ client[c].peer = loop.target /\ loop.target \in Peers
        /\ \A t \in Clients : client[t].state \in Linked =>
                                  client[t].peer # client[c].peer
    BY <2>1 DEF LinkInv, AttemptIsAlone, HasClient
  <2>3. LinksOf(client') = [LinksOf(client) EXCEPT ![loop.target] = "up"]
    BY <1>0, <2>1, <2>2, ClientComesUp
  <2>4. /\ client'[c].peer = client[c].peer
        /\ \A t \in Clients : t # c => client'[t] = client[t]
    BY <1>0, <2>1 DEF Pool, Client
  <2>5. LinkInv'
    BY <2>1, <2>2, <2>4 DEF LinkInv, OneLink, AttemptIsAlone
  <2>6. Links!Established
    BY <2>1, <2>2, <2>3, SessionAssumption DEF Links!Established, Radio, Trying, Peers
  <2> QED
    BY <2>5, <2>6 DEF LinkStep, Links!Next
<1>4. CASE AttemptFails
  <2>1. /\ gap = "conn" /\ gap' = "idle"
        /\ UNCHANGED <<loop, client>>
    BY <1>4 DEF AttemptFails
  <2>2. LinkInv'
    BY <2>1 DEF LinkInv, OneLink, AttemptIsAlone
  <2>3. Links!AttemptEnds
    BY <2>1 DEF Links!AttemptEnds, Radio, Trying
  <2> QED
    BY <2>2, <2>3 DEF LinkStep, Links!Next
<1>5. ASSUME NEW s \in Clients, Disconnect(s) PROVE LinkStep
  <2> DEFINE p == client[s].peer
             gone == IF Awaited(s) THEN [client[s] EXCEPT !.state = "idle"]
                                   ELSE FreeClient
             goneT == IF Awaited(s) THEN [Terminated(client)[s] EXCEPT !.state = "idle"]
                                    ELSE FreeClient
  <2>1. /\ client[s].state \in Linked /\ p \in Peers
        /\ UNCHANGED loop
        /\ OneLink(client)
    BY <1>5 DEF Disconnect, IsConnected, Linked, LinkInv
  <2>2. gone.state \notin Linked /\ goneT.state \notin Linked
    BY <1>0, PoolTypes DEF FreeClient, Linked, Pool, Client
  <2>3. LinksOf(client)[p] # "down"
    BY <2>1, LinkOfClient
  <2>4. gap = "conn" => client[s].peer # loop.target /\ s # loop.pClient
    BY <2>1 DEF LinkInv, AttemptIsAlone, Linked
  <2>5. CASE Known(p)
    <3> DEFINE T == Terminated(client)
    <3>1. /\ client' = [T EXCEPT ![s] = goneT]
          /\ gap' = AfterScanStart
      BY <1>5, <2>5 DEF Disconnect, Unlinked
    <3>2. /\ T \in Pool /\ OneLink(T)
          /\ LinksOf(T) = Links!Ending(LinksOf(client))
      BY <1>0, <2>1, PoolTypes, TerminatedLinks
    <3>3. \A t \in Clients : /\ T[t].peer = client[t].peer
                             /\ T[t].state \in Linked <=> client[t].state \in Linked
                             /\ client[t].state = "idle" => T[t] = client[t]
      BY <1>0 DEF Terminated, Pool, Client, Linked
    <3>4. LinksOf(client') = [Links!Ending(LinksOf(client)) EXCEPT ![p] = "down"]
      <4>1. goneT.state # "term"
        BY <2>2 DEF Linked
      <4> HIDE DEF goneT, T, p
      <4>2. T[s].peer = p /\ T[s].state \in Linked
        BY <2>1, <3>3 DEF p
      <4>3. LinksOf([T EXCEPT ![s] = goneT]) =
                [LinksOf(T) EXCEPT ![T[s].peer] =
                    IF goneT.state = "term" THEN "ending" ELSE "down"]
        BY <2>1, <2>2, <3>2, <4>2, ClientDecidesLink
      <4> QED
        BY <3>1, <3>2, <4>1, <4>2, <4>3
    <3>5. /\ client'[s] = goneT
          /\ \A t \in Clients : t # s => client'[t] = T[t]
      BY <3>1, <3>2 DEF Pool
    <3>6. LinkInv'
      <4> HIDE DEF goneT, T
      <4>1. \A t \in Clients : client'[t].state \in Linked =>
                /\ t # s
                /\ client[t].state \in Linked
                /\ client'[t].peer = client[t].peer
        BY <2>2, <3>3, <3>5
      <4>2. gap' = "conn" => gap = "conn"
        BY <3>1 DEF AfterScanStart
      <4>3. gap = "conn" => client'[loop.pClient] = client[loop.pClient]
        <5> SUFFICES ASSUME gap = "conn"
                     PROVE  client'[loop.pClient] = client[loop.pClient]
          OBVIOUS
        <5>1. loop.pClient \in Clients /\ client[loop.pClient].state = "idle"
          BY DEF LinkInv, AttemptIsAlone, ScanInv, HasClient
        <5> QED
          BY <2>4, <3>3, <3>5, <5>1
      <4> QED
        BY <2>1, <4>1, <4>2, <4>3 DEF LinkInv, OneLink, AttemptIsAlone
    <3>7. Links!SessionLost(p)
      BY <1>0, <2>1, <2>3, <3>1, <3>4
      DEF Links!SessionLost, Radio, Trying, AfterScanStart
    <3> QED
      BY <2>1, <3>6, <3>7 DEF LinkStep, Links!Next
  <2>6. CASE ~Known(p)
    <3>1. /\ client' = [client EXCEPT ![s] = gone]
          /\ UNCHANGED gap
      BY <1>5, <2>6 DEF Disconnect, Unlinked
    <3>2. LinksOf(client') = [LinksOf(client) EXCEPT ![p] = "down"]
      <4>1. gone.state # "term"
        BY <2>2 DEF Linked
      <4> HIDE DEF gone
      <4> QED
        BY <1>0, <2>1, <2>2, <3>1, <4>1, ClientDecidesLink
    <3>3. /\ client'[s] = gone
          /\ \A t \in Clients : t # s => client'[t] = client[t]
      BY <1>0, <3>1 DEF Pool
    <3>4. LinkInv'
      <4> HIDE DEF gone
      <4>1. gap = "conn" => loop.pClient \in Clients
        BY DEF LinkInv, ScanInv, HasClient
      <4> QED
        BY <2>1, <2>2, <2>4, <3>1, <3>3, <4>1 DEF LinkInv, OneLink, AttemptIsAlone
    <3>5. Links!LinkGone(p)
      BY <2>1, <2>3, <3>1, <3>2 DEF Links!LinkGone, Radio, Trying
    <3> QED
      BY <2>1, <3>4, <3>5 DEF LinkStep, Links!Next
  <2> QED
    BY <2>5, <2>6
<1>6. CASE EstablishmentFails
  <2> DEFINE s == loop.pClient
             p == client[s].peer
             gone == IF Awaited(s) THEN [client[s] EXCEPT !.state = "idle"]
                                   ELSE FreeClient
  <2>1. /\ s \in Clients /\ client[s].state \in Linked /\ p \in Peers
        /\ OneLink(client)
        /\ UNCHANGED <<loop, gap>>
        /\ client' = [client EXCEPT ![s] = gone]
        /\ gap # "conn"
    BY <1>6 DEF EstablishmentFails, IsConnected, Unlinked, Linked, LinkInv,
                HasClient, AttemptIsAlone
  <2>2. gone.state \notin Linked
    BY <1>0, <2>1 DEF FreeClient, Linked, Pool, Client
  <2>3. LinksOf(client') = [LinksOf(client) EXCEPT ![p] = "down"]
    <3>1. gone.state # "term"
      BY <2>2 DEF Linked
    <3> HIDE DEF gone
    <3> QED
      BY <1>0, <2>1, <2>2, <3>1, ClientDecidesLink
  <2>4. LinksOf(client)[p] # "down"
    BY <2>1, LinkOfClient
  <2>5. /\ client'[s] = gone
        /\ \A t \in Clients : t # s => client'[t] = client[t]
    BY <1>0, <2>1 DEF Pool
  <2>6. LinkInv'
    <3> HIDE DEF gone
    <3> QED
      BY <2>1, <2>2, <2>5 DEF LinkInv, OneLink, AttemptIsAlone
  <2>7. Links!LinkGone(p)
    BY <2>1, <2>3, <2>4 DEF Links!LinkGone, Radio, Trying
  <2> QED
    BY <2>1, <2>6, <2>7 DEF LinkStep, Links!Next
<1>7. CASE CancelledAttemptEnds
  <2>1. /\ gap = "cancel" /\ gap' = "idle"
        /\ UNCHANGED client
        /\ loop' = loop \/ loop'.pc = "wild"
    BY <1>7 DEF CancelledAttemptEnds, AtTop
  <2>2. LinkInv'
    BY <2>1 DEF LinkInv, OneLink, AttemptIsAlone, HasClient
  <2>3. Links!AttemptEnds
    BY <2>1 DEF Links!AttemptEnds, Radio, Trying
  <2> QED
    BY <2>2, <2>3 DEF LinkStep, Links!Next
<1> QED
  BY <1>1, <1>2, <1>3, <1>4, <1>5, <1>6, <1>7 DEF HostStep

\* A failure deletes at most one client: a link that is up is asked to end.
LEMMA FailLinks ==
    ASSUME TypeOK, ScanInv, LinkInv, NEW devs, Fail(devs),
           loop.pc \in {"connectFailed", "discover"}
    PROVE  LinkStep
<1> DEFINE s == loop.pClient
           p == client[s].peer
<1>0. client \in Pool /\ loop \in Loop
  BY DEF TypeOK, Pool
<1>1. s \in Clients /\ gap' = gap /\ gap # "conn"
  BY DEF LinkInv, ScanInv, HasClient, Fail
<1>2. loop'.pc \in {"failed", "each"}
  BY <1>0, FailLocations
<1>3. CASE UNCHANGED client
  BY <1>1, <1>2, <1>3, QuietStep DEF HasClient
<1>4. CASE client' = DeletedClient(client, s) /\ client[s].state # "up"
  <2>1. \A t \in Clients : \/ client'[t] = client[t]
                           \/ /\ client[t].state \notin Linked
                              /\ client'[t].state \notin Linked
    BY <1>0, <1>1, <1>4 DEF DeletedClient, FreeClient, Linked, Pool, Client
  <2> QED
    BY <1>1, <1>2, <2>1, QuietStep DEF HasClient
<1>5. CASE client' = DeletedClient(client, s) /\ client[s].state = "up"
  <2> DEFINE c == [client[s] EXCEPT !.state = "term"]
  <2>1. client' = [client EXCEPT ![s] = c]
    BY <1>5 DEF DeletedClient
  <2>2. /\ client[s].state \in Linked /\ p \in Peers /\ OneLink(client)
        /\ \A t \in Clients : client[t].state \in Linked => client[t].peer \in Peers
    BY <1>1, <1>5 DEF LinkInv, Linked
  <2>3. c.state = "term" /\ c.peer = p
    BY <1>0, <1>1 DEF Pool, Client
  <2>4. /\ client'[s] = c
        /\ \A t \in Clients : t # s => client'[t] = client[t]
    BY <1>0, <1>1, <2>1 DEF Pool
  <2> HIDE DEF c
  <2>5. LinksOf(client') = [LinksOf(client) EXCEPT ![p] = "ending"]
    <3>1. LinksOf([client EXCEPT ![s] = c]) =
              [LinksOf(client) EXCEPT ![client[s].peer] =
                  IF c.state = "term" THEN "ending" ELSE "down"]
      BY <1>0, <1>1, <2>2, <2>3, ClientDecidesLink
    <3> QED
      BY <2>1, <2>3, <3>1
  <2>6. LinksOf(client)[p] = "up"
    BY <1>1, <1>5, <2>2, LinkOfUpClient
  <2>7. LinkInv'
    BY <1>1, <1>2, <2>2, <2>3, <2>4
    DEF LinkInv, OneLink, AttemptIsAlone, HasClient, Linked
  <2>8. Links!EndOne(p)
    BY <1>1, <2>5, <2>6 DEF Links!EndOne, Radio, Trying
  <2> QED
    BY <2>2, <2>7, <2>8 DEF LinkStep, Links!Next
<1> QED
  BY <1>3, <1>4, <1>5 DEF Fail

\* The connect functions start attempts and end links as DeviceLinks says.
LEMMA ConnectLinks == TypeOK /\ ScanInv /\ LinkInv /\ ConnectStep => LinkStep
<1> SUFFICES ASSUME TypeOK, ScanInv, LinkInv, ConnectStep PROVE LinkStep
  OBVIOUS
<1> DEFINE s == loop.pClient
<1>0. client \in Pool /\ loop \in Loop
  BY DEF TypeOK, Pool
<1>1. gap = "conn" => loop.pc = "wait"
  BY DEF ScanInv
<1>2. loop.pc \in HasClient => s \in Clients
  BY DEF LinkInv
<1>3. CASE \/ ForEach \/ CheckPool \/ Summary \/ Discovered
  <2>1. UNCHANGED <<gap, client>> /\ gap # "conn"
    BY <1>1, <1>3 DEF ForEach, CheckPool, Summary, Discovered, UnchangedExceptLoop
  <2>2. loop'.pc \notin HasClient
    BY <1>0, <1>3, ConnectLocations DEF FromTo, HasClient
  <2> QED
    BY <2>1, <2>2, QuietStep
<1>4. CASE Pick
  <2>1. UNCHANGED <<gap, client>> /\ gap # "conn"
    BY <1>1, <1>4 DEF Pick, UnchangedExceptLoop
  <2>2. loop'.pc \in HasClient => loop'.pClient \in Clients
    <3> DEFINE knows == {t \in Created : client[t].peer = At}
               spare == {t \in Created : ~IsConnected(t)}
               c == IF Created = {} THEN s
                    ELSE IF spare = {} THEN Null ELSE First(spare)
    <3>1. knows # {} => First(knows) \in Clients
      BY FirstIsElement DEF Created
    <3>2. spare # {} => First(spare) \in Clients
      BY FirstIsElement DEF Created
    <3>3. c \in Clients \cup {Null}
      BY <1>0, <3>2 DEF Loop
    <3>4. \/ /\ knows # {}
             /\ loop' = [loop EXCEPT !.pc = "connect", !.via = "reconnect",
                                     !.pClient = First(knows)]
          \/ loop' = [loop EXCEPT !.pc = IF c = Null THEN "create" ELSE "check",
                                  !.pClient = c]
      BY <1>4 DEF Pick
    <3> HIDE DEF c, knows
    <3> QED
      BY <1>0, <3>1, <3>3, <3>4 DEF Loop, HasClient
  <2> QED
    BY <2>1, <2>2, QuietStep
<1>5. CASE CreateClient
  <2> DEFINE spare == Clients \ Created
  <2>1. /\ UNCHANGED gap /\ gap # "conn" /\ spare # {}
        /\ client' = [client EXCEPT ![First(spare)].state = "idle"]
        /\ loop' = [loop EXCEPT !.pc = "connect", !.via = "new",
                                !.pClient = First(spare)]
    BY <1>1, <1>5 DEF CreateClient
  <2>2. First(spare) \in spare
    BY <2>1, FirstIsElement
  <2> HIDE DEF spare
  <2>3. loop'.pClient \in Clients
    BY <1>0, <2>1, <2>2 DEF Loop, spare
  <2>4. \A t \in Clients : \/ client'[t] = client[t]
                           \/ /\ client[t].state \notin Linked
                              /\ client'[t].state \notin Linked
    BY <1>0, <2>1, <2>2 DEF spare, Created, Linked, Pool, Client
  <2> QED
    BY <2>1, <2>3, <2>4, QuietStep
<1>6. CASE \/ CheckConnected \/ ConnectRefused \/ OnConnect
           \/ ConnectReturns \/ ReconnectFailed
  <2>1. UNCHANGED <<gap, client>> /\ gap # "conn" /\ loop.pc \in HasClient
    BY <1>1, <1>6 DEF CheckConnected, ConnectRefused, OnConnect, ConnectReturns,
                      ReconnectFailed, UnchangedExceptLoop, HasClient
  <2>2. loop'.pClient = s
    BY <1>0, <1>6 DEF CheckConnected, ConnectRefused, OnConnect, ConnectReturns,
                      ReconnectFailed, Loop
  <2> QED
    BY <1>2, <2>1, <2>2, QuietStep
<1>7. CASE ConnectStarts
  <2>1. /\ s \in Clients /\ gap # "conn" /\ loop.pc \in HasClient
        /\ client[s].state = "idle" /\ InRange /\ ~LinkedTo(At)
        /\ client' = [client EXCEPT ![s].peer = At]
    BY <1>1, <1>2, <1>7 DEF ConnectStarts, HasClient
  <2>2. At \in Peers
    BY <2>1, AtType
  <2>3. /\ client'[s].state = "idle" /\ client'[s].peer = At
        /\ client'[s] = [state |-> "idle", peer |-> At]
        /\ \A t \in Clients : t # s => client'[t] = client[t]
    BY <1>0, <2>1 DEF Pool, Client
  <2>4. \A t \in Clients : \/ client'[t] = client[t]
                           \/ /\ client[t].state \notin Linked
                              /\ client'[t].state \notin Linked
    BY <2>1, <2>3 DEF Linked
  <2>5. loop'.pClient = s
    BY <1>0, <1>7 DEF ConnectStarts, Loop
  <2>6. CASE gap # "cancel" /\ gap' = "conn" /\ loop' = [loop EXCEPT !.pc = "wait", !.target = At]
    <3>1. loop'.target = At
      BY <1>0, <2>6 DEF Loop
    <3>2. \A t \in Clients : client[t].state \in Linked => client[t].peer # At
      BY <2>1 DEF LinkedTo, IsConnected, Linked
    <3>3. LinksOf(client') = LinksOf(client) /\ LinksOf(client)[At] = "down"
      BY <2>2, <2>4, <3>2, SameLinks, NoClientNoLink
    <3>4. LinkInv'
      <4>1. \A t \in Clients : client'[t].state \in Linked =>
                client[t].state \in Linked /\ client'[t] = client[t]
        BY <2>4
      <4>2. OneLink(client)' /\ AttemptIsAlone'
        BY <2>2, <2>3, <2>5, <3>1, <3>2, <4>1 DEF LinkInv, OneLink, AttemptIsAlone
      <4> QED
        BY <2>1, <2>5, <4>1, <4>2 DEF LinkInv
    <3>5. Links!Try(At)
      BY <2>1, <2>6, <3>1, <3>3 DEF Links!Try, Radio, Trying
    <3> QED
      BY <2>2, <3>4, <3>5 DEF LinkStep, Links!Next
  <2>7. CASE UNCHANGED gap
    BY <2>1, <2>4, <2>5, <2>7, QuietStep
  <2>8. CASE gap = "scan" /\ gap' = "idle"
    <3>1. LinksOf(client') = LinksOf(client)
      BY <2>4, SameLinks
    <3>2. LinkInv'
      BY <2>1, <2>4, <2>5, <2>8 DEF LinkInv, OneLink, AttemptIsAlone
    <3>3. Links!ScanEnds
      BY <2>8, <3>1 DEF Links!ScanEnds, Radio, Trying
    <3> QED
      BY <3>2, <3>3 DEF LinkStep, Links!Next
  <2> QED
    BY <1>7, <2>6, <2>7, <2>8 DEF ConnectStarts
<1>8. CASE ConnectResumes
  <2>1. UNCHANGED gap /\ gap # "conn" /\ s \in Clients
    BY <1>2, <1>8 DEF ConnectResumes, HasClient
  <2>2. loop'.pClient = s
    BY <1>0, <1>8 DEF ConnectResumes, Loop
  <2>3. \A t \in Clients : \/ client'[t] = client[t]
                           \/ /\ client[t].state \notin Linked
                              /\ client'[t].state \notin Linked
    BY <1>0, <1>8, <2>1
    DEF ConnectResumes, IsConnected, FreeClient, Linked, Pool, Client
  <2> QED
    BY <2>1, <2>2, <2>3, QuietStep
<1>9. CASE ConnectFailed
  BY <1>9, FailLinks DEF ConnectFailed
<1>10. CASE DiscoveryFails
  BY <1>10, FailLinks DEF DiscoveryFails
<1>11. CASE ConnectTimesOut
  <2>1. /\ gap = "conn" /\ gap' = "cancel" /\ s \in Clients
        /\ client' = [client EXCEPT ![s] = FreeClient]
    BY <1>2, <1>11 DEF ConnectTimesOut, HasClient
  <2>2. loop'.pClient = s
    BY <1>0, <1>11 DEF ConnectTimesOut, Loop
  <2>3. client[s].state = "idle"
    BY <2>1 DEF LinkInv, AttemptIsAlone
  <2>4. \A t \in Clients : \/ client'[t] = client[t]
                           \/ /\ client[t].state \notin Linked
                              /\ client'[t].state \notin Linked
    BY <1>0, <2>1, <2>3 DEF FreeClient, Linked, Pool, Client
  <2>5. LinksOf(client') = LinksOf(client)
    BY <2>4, SameLinks
  <2>6. LinkInv'
    BY <2>1, <2>2, <2>4 DEF LinkInv, OneLink, AttemptIsAlone
  <2>7. Links!Abandon
    BY <2>1, <2>5 DEF Links!Abandon, Radio, Trying
  <2> QED
    BY <2>6, <2>7 DEF LinkStep, Links!Next
<1> QED
  BY <1>3, <1>4, <1>5, <1>6, <1>7, <1>8, <1>9, <1>10, <1>11 DEF ConnectStep

\* Every step of the session is a step of DeviceLinks, or none.
LEMMA NextLinks == TypeOK /\ ScanInv /\ LinkInv /\ [Next]_vars => LinkStep
<1> SUFFICES ASSUME TypeOK, ScanInv, LinkInv, [Next]_vars PROVE LinkStep
  OBVIOUS
<1>0. client \in Pool
  BY DEF TypeOK, Pool
<1>1. CASE HostStep
  BY <1>1, HostLinks
<1>2. CASE ConnectStep
  BY <1>2, ConnectLinks
<1>3. CASE \/ TakeConnect \/ NoBmsToConnect
           \/ TakeConnectThermo \/ NoThermoToConnect \/ Wild
  <2>1. UNCHANGED <<gap, client>> /\ gap # "conn"
    BY <1>3 DEF TakeConnect, NoBmsToConnect, TakeConnectThermo, Enter,
                NoThermoToConnect, Wild, UnchangedExceptLoop, ScanInv
  <2>2. loop'.pc \notin HasClient
    BY <1>3, LoopLocations DEF FromTo, HasClient
  <2> QED
    BY <2>1, <2>2, QuietStep
<1>4. CASE MainFail
  <2>1. UNCHANGED gap /\ gap # "conn"
    BY <1>4 DEF MainFail, ScanInv
  <2>2. loop'.pc \notin HasClient
    BY <1>4, LoopLocations DEF FromTo, HasClient
  <2>3. CASE client' = Terminated(client)
    <3>1. /\ LinksOf(client') = Links!Ending(LinksOf(client))
          /\ OneLink(client')
      BY <1>0, <2>3, TerminatedLinks DEF LinkInv
    <3>2. \A t \in Clients : client'[t].state \in Linked => client'[t].peer \in Peers
      BY <1>0, <2>3 DEF LinkInv, Terminated, Linked, Pool, Client
    <3>3. LinkInv'
      BY <2>1, <2>2, <3>1, <3>2 DEF LinkInv, OneLink, AttemptIsAlone
    <3>4. Links!EndAll
      BY <2>1, <3>1 DEF Links!EndAll, Radio, Trying
    <3> QED
      BY <3>3, <3>4 DEF LinkStep, Links!Next
  <2>4. CASE UNCHANGED client
    BY <2>1, <2>2, <2>4, QuietStep
  <2> QED
    BY <1>4, <2>3, <2>4 DEF MainFail
<1>5. CASE Rescan
  <2>1. /\ gap # "conn" /\ UNCHANGED client
        /\ NoLinkUp(client)
    BY <1>5 DEF Rescan, ScanInv
  <2>2. loop'.pc \notin HasClient
    BY <1>5, LoopLocations DEF FromTo, HasClient
  <2>3. CASE gap = "cancel"
    <3>1. gap' = gap
      BY <1>5, <2>3 DEF Rescan, AfterScanStart
    <3> QED
      BY <2>1, <2>2, <3>1, QuietStep
  <2>4. CASE gap # "cancel"
    <3>1. gap' = "scan"
      BY <1>5, <2>1, <2>4 DEF Rescan, AfterScanStart
    <3>2. LinkInv'
      BY <2>1, <2>2, <3>1 DEF LinkInv, OneLink, AttemptIsAlone
    <3>3. Links!ScanStarts
      BY <2>1, <2>4, <3>1, NoUpNoLinkUp DEF Links!ScanStarts, Radio, Trying
    <3> QED
      BY <3>2, <3>3 DEF LinkStep, Links!Next
  <2> QED
    BY <2>3, <2>4
<1>6. CASE Panic \/ DailyReset
  BY <1>6, RebootLinks DEF Panic, DailyReset
<1>7. CASE UNCHANGED vars
  BY <1>7, SameLinks
  DEF vars, LinkStep, LinkInv, OneLink, AttemptIsAlone, Radio, Trying
<1> QED
  BY <1>1, <1>2, <1>3, <1>4, <1>5, <1>6, <1>7 DEF Next, LoopStep

\* The two tasks, the lists and the client pool implement the rounds of
\* DeviceLinks: one link per device, attempts to devices without a link only,
\* no scan next to a session, the loss of a known device ends every link.
THEOREM SessionImplementsLinks == Spec => ImplementsDeviceLinks
<1>1. Init => Links!Init
  BY InitLinks
<1>2. TypeOK /\ ScanInv /\ LinkInv /\ [Next]_vars =>
          LinkInv' /\ [Links!Next]_(Links!linkVars)
  BY NextLinks DEF LinkStep, Links!linkVars
<1>3. Spec => []ScanInv
  BY TypeCorrect, InitScanInv, NextScanInv, PTL DEF Spec
<1> QED
  BY <1>1, <1>2, <1>3, InitLinks, TypeCorrect, PTL
  DEF Spec, ImplementsDeviceLinks, Links!Spec
-----------------------------------------------------------------------------
(***************************************************************************)
(* LiveLinkIsFlagged.  What is missing for the induction is that the link  *)
(* connect() waits for, or has just seen come up, is one to the device     *)
(* whose address onConnect looks up.  The rest are LinkInv, which says so  *)
(* of an attempt, and ScanInv, by which no list is rebuilt under a link.   *)
(***************************************************************************)
AwaitedHasTarget ==
    loop.pc \in Waiting /\ client[loop.pClient].state = "up"
        => client[loop.pClient].peer = loop.target

FlagInv == LiveLinkIsFlagged /\ AwaitedHasTarget

\* a client with a link that onConnect has been called for
InSession(s) ==
    client[s].state = "up" /\ ~(loop.pClient = s /\ loop.pc \in Waiting)

\* The lists new are old with characteristics written and flags raised.
KeepsFlags(old, new) ==
    \A k \in Kinds :
        /\ DOMAIN new[k] = DOMAIN old[k]
        /\ \A i \in DOMAIN old[k] : /\ new[k][i].peer = old[k][i].peer
                                    /\ old[k][i].connected => new[k][i].connected

\* No client comes up, and none that is up gets another address.
UpKept == \A s \in Clients :
    client'[s].state = "up" => /\ client[s].state = "up"
                               /\ client'[s].peer = client[s].peer

\* Deleting a client lowers no flag.
LEMMA ForgetChrKeeps ==
    ASSUME NEW devs \in Lists, NEW s
    PROVE  KeepsFlags(devs, ForgetChr(devs, s))
<1> SUFFICES ASSUME NEW k \in Kinds, NEW i \in DOMAIN devs[k]
             PROVE  /\ ForgetChr(devs, s)[k][i].peer = devs[k][i].peer
                    /\ ForgetChr(devs, s)[k][i].connected = devs[k][i].connected
  BY DEF KeepsFlags, ForgetChr
<1>1. devs[k][i] \in Device
  BY DEF Lists
<1> QED
  BY <1>1 DEF ForgetChr, Device

\* Writing pChr_tx lowers no flag.
LEMMA WithChrKeeps ==
    ASSUME devices \in Lists, loop \in Loop, NEW c
    PROVE  KeepsFlags(devices, WithChr(c))
<1> SUFFICES ASSUME NEW k \in Kinds
             PROVE  /\ DOMAIN WithChr(c)[k] = DOMAIN devices[k]
                    /\ \A i \in DOMAIN devices[k] :
                          /\ WithChr(c)[k][i].peer = devices[k][i].peer
                          /\ WithChr(c)[k][i].connected = devices[k][i].connected
  BY DEF KeepsFlags
<1>1. devices[k] \in Seq(Device)
  BY DEF Lists
<1>2. \A i \in DOMAIN devices[k] : devices[k][i] \in Device
  BY <1>1
<1>3. WithChr(c)[k] = IF k = loop.kind
                      THEN [devices[k] EXCEPT ![loop.idx].chr = c]
                      ELSE devices[k]
  BY DEF WithChr, Lists
<1> QED
  BY <1>1, <1>2, <1>3 DEF Device

\* onConnect raises the flag of every entry of its device, and lowers none.
LEMMA SetConnectedRaises ==
    ASSUME devices \in Lists, NEW p
    PROVE  /\ KeepsFlags(devices, SetConnected(p, TRUE))
           /\ \A i \in DOMAIN SetConnected(p, TRUE)[KindOf(p)] :
                  LET d == SetConnected(p, TRUE)[KindOf(p)][i]
                  IN  d.peer = p => d.connected
<1> DEFINE new == SetConnected(p, TRUE)
<1>1. KindOf(p) \in Kinds
  BY KindOfType
<1>2. ASSUME NEW k \in Kinds
      PROVE  /\ DOMAIN new[k] = DOMAIN devices[k]
             /\ \A i \in DOMAIN devices[k] :
                   /\ new[k][i].peer = devices[k][i].peer
                   /\ devices[k][i].connected => new[k][i].connected
                   /\ k = KindOf(p) /\ new[k][i].peer = p => new[k][i].connected
  <2>1. devices[k] \in Seq(Device)
    BY DEF Lists
  <2>2. \A i \in DOMAIN devices[k] : devices[k][i] \in Device
    BY <2>1
  <2>3. CASE k = KindOf(p)
    <3>1. new[k] = [i \in DOMAIN devices[k] |->
                       IF devices[k][i].peer = p
                       THEN [devices[k][i] EXCEPT !.connected = TRUE]
                       ELSE devices[k][i]]
      BY <1>1, <2>3 DEF SetConnected, Lists
    <3> HIDE DEF new
    <3>2. ASSUME NEW i \in DOMAIN devices[k]
          PROVE  /\ new[k][i].peer = devices[k][i].peer
                 /\ devices[k][i].connected => new[k][i].connected
                 /\ new[k][i].peer = p => new[k][i].connected
      <4>1. new[k][i] = IF devices[k][i].peer = p
                        THEN [devices[k][i] EXCEPT !.connected = TRUE]
                        ELSE devices[k][i]
        BY <3>1
      <4>2. devices[k][i] \in Device
        BY <2>2
      <4> QED
        BY <4>1, <4>2 DEF Device
    <3> QED
      BY <3>1, <3>2
  <2>4. CASE k # KindOf(p)
    <3>1. new[k] = devices[k]
      BY <1>1, <2>4 DEF SetConnected, Lists
    <3> QED
      BY <2>4, <3>1
  <2> QED
    BY <2>3, <2>4
<1> HIDE DEF new
<1>3. KeepsFlags(devices, new)
  BY <1>2 DEF KeepsFlags
<1>4. \A i \in DOMAIN new[KindOf(p)] :
          new[KindOf(p)][i].peer = p => new[KindOf(p)][i].connected
  BY <1>1, <1>2
<1> QED
  BY <1>3, <1>4 DEF new

\* With no flag lowered and no session added, every session stays flagged.
LEMMA SessionsKept ==
    ASSUME LiveLinkIsFlagged, KeepsFlags(devices, devices'),
           \A s \in Clients : InSession(s)' =>
               InSession(s) /\ client'[s].peer = client[s].peer
    PROVE  LiveLinkIsFlagged'
<1> SUFFICES ASSUME NEW s \in Clients, InSession(s)',
                    NEW i \in DOMAIN devices'[KindOf(client'[s].peer)],
                    devices'[KindOf(client'[s].peer)][i].peer = client'[s].peer
             PROVE  devices'[KindOf(client'[s].peer)][i].connected
  BY DEF LiveLinkIsFlagged, InSession, Waiting, KindOf
<1> DEFINE p == client[s].peer
<1>1. client'[s].peer = p /\ InSession(s)
  OBVIOUS
<1>2. KindOf(p) \in Kinds
  BY KindOfType
<1>3. devices[KindOf(p)][i].connected
  BY <1>1, <1>2 DEF LiveLinkIsFlagged, InSession, Waiting, KeepsFlags
<1> QED
  BY <1>1, <1>2, <1>3 DEF KeepsFlags

\* A step outside connect() and onConnect that sets no link up.
LEMMA QuietFlags ==
    ASSUME FlagInv, KeepsFlags(devices, devices'), UpKept,
           loop.pc \notin Waiting, loop'.pc \notin Waiting
    PROVE  FlagInv'
<1>1. \A s \in Clients : InSession(s)' =>
          InSession(s) /\ client'[s].peer = client[s].peer
  BY DEF UpKept, InSession
<1>2. LiveLinkIsFlagged'
  BY <1>1, SessionsKept DEF FlagInv
<1> QED
  BY <1>2 DEF FlagInv, AwaitedHasTarget

\* Without a link that is up there is nothing to flag.
LEMMA NoUpFlags ==
    ASSUME NoLinkUp(client'), loop'.pc \in Waiting => loop'.pClient \in Clients
    PROVE  FlagInv'
<1>1. LiveLinkIsFlagged'
  BY DEF LiveLinkIsFlagged, NoLinkUp
<1>2. AwaitedHasTarget'
  BY DEF AwaitedHasTarget, NoLinkUp
<1> QED
  BY <1>1, <1>2 DEF FlagInv

\* A step of the host task that leaves the loop task where it is and sets
\* no link up.
LEMMA QuietHostFlags ==
    ASSUME FlagInv, LinkInv, KeepsFlags(devices, devices'), UpKept,
           UNCHANGED loop
    PROVE  FlagInv'
<1>1. \A s \in Clients : InSession(s)' =>
          InSession(s) /\ client'[s].peer = client[s].peer
  BY DEF UpKept, InSession
<1>2. LiveLinkIsFlagged'
  BY <1>1, SessionsKept DEF FlagInv
<1>3. AwaitedHasTarget'
  BY DEF FlagInv, AwaitedHasTarget, UpKept, LinkInv, HasClient, Waiting
<1> QED
  BY <1>2, <1>3 DEF FlagInv

\* Lists that stay as they are keep their flags.
LEMMA SameFlags == ASSUME NEW devs PROVE KeepsFlags(devs, devs)
  BY DEF KeepsFlags

\* NimBLE gives no client that is up another address.
LEMMA PoolKept ==
    ASSUME NEW pool \in Pool, NEW s, NEW t \in Clients
    PROVE  /\ Unlinked(pool, s)[t].state = "up" =>
                  Unlinked(pool, s)[t].peer = pool[t].peer /\ pool[t].state = "up"
           /\ DeletedClient(pool, s)[t].state = "up" =>
                  DeletedClient(pool, s)[t].peer = pool[t].peer /\ pool[t].state = "up"
  BY DEF Pool, Client, Unlinked, DeletedClient, FreeClient

\* The callbacks of the host task leave every session flagged: a known device
\* that is lost takes all sessions with it, and its flag.
LEMMA HostFlags == TypeOK /\ ScanInv /\ LinkInv /\ FlagInv /\ HostStep => FlagInv'
<1> SUFFICES ASSUME TypeOK, ScanInv, LinkInv, FlagInv, HostStep PROVE FlagInv'
  OBVIOUS
<1>0. client \in Pool /\ devices \in Lists
  BY DEF TypeOK, Pool, Lists
<1>1. ASSUME UNCHANGED <<client, devices, loop>> PROVE FlagInv'
  BY <1>1, SameFlags, QuietHostFlags DEF UpKept
<1>2. ASSUME NEW p \in Peers, ScanResult(p) PROVE FlagInv'
  BY <1>1, <1>2 DEF ScanResult
<1>3. CASE ScanEnd
  <2>1. NoLinkUp(client) /\ UNCHANGED <<client, loop>>
    BY <1>3 DEF ScanEnd, ScanInv
  <2> QED
    BY <2>1, NoUpFlags DEF LinkInv, HasClient, Waiting
<1>4. CASE LinkUp
  <2> DEFINE c == loop.pClient
  <2>1. /\ gap = "conn" /\ loop.pc = "wait"
        /\ UNCHANGED <<loop, devices>>
        /\ client' = [client EXCEPT ![c].state = "up"]
    BY <1>4 DEF LinkUp
  <2>2. c \in Clients /\ client[c].peer = loop.target
    BY <2>1 DEF LinkInv, AttemptIsAlone, HasClient
  <2>3. /\ client'[c].peer = loop.target
        /\ \A t \in Clients : t # c => client'[t] = client[t]
    BY <1>0, <2>1, <2>2 DEF Pool, Client
  <2>4. \A t \in Clients : InSession(t)' =>
            InSession(t) /\ client'[t].peer = client[t].peer
    BY <2>1, <2>3 DEF InSession, Waiting
  <2>5. LiveLinkIsFlagged'
    BY <2>1, <2>4, SameFlags, SessionsKept DEF FlagInv
  <2> QED
    BY <2>1, <2>3, <2>5 DEF FlagInv, AwaitedHasTarget
<1>5. CASE AttemptFails
  BY <1>1, <1>5 DEF AttemptFails
<1>6. ASSUME NEW s \in Clients, Disconnect(s) PROVE FlagInv'
  <2>1. UNCHANGED loop
    BY <1>6 DEF Disconnect
  <2>2. CASE Known(client[s].peer)
    <3>1. client' = Unlinked(Terminated(client), s)
      BY <1>6, <2>2 DEF Disconnect
    <3>2. NoLinkUp(client')
      BY <1>0, <3>1, PoolTypes, PoolLinks DEF NoLinkUp
    <3> QED
      BY <2>1, <3>2, NoUpFlags DEF LinkInv, HasClient, Waiting
  <2>3. CASE ~Known(client[s].peer)
    <3>1. /\ client' = Unlinked(client, s)
          /\ devices' = devices \/ devices' = ForgetChr(devices, s)
      BY <1>6, <2>3 DEF Disconnect
    <3>2. UpKept
      BY <1>0, <3>1, PoolKept DEF UpKept
    <3>3. KeepsFlags(devices, devices')
      BY <1>0, <3>1, SameFlags, ForgetChrKeeps
    <3> QED
      BY <2>1, <3>2, <3>3, QuietHostFlags
  <2> QED
    BY <2>2, <2>3
<1>7. CASE EstablishmentFails
  <2>1. /\ UNCHANGED <<loop, devices>>
        /\ client' = Unlinked(client, loop.pClient)
    BY <1>7 DEF EstablishmentFails
  <2>2. UpKept
    BY <1>0, <2>1, PoolKept DEF UpKept
  <2> QED
    BY <2>1, <2>2, SameFlags, QuietHostFlags
<1>8. CASE CancelledAttemptEnds
  <2>1. UNCHANGED <<client, devices>> /\ gap = "cancel"
    BY <1>8 DEF CancelledAttemptEnds
  <2>2. CASE UNCHANGED loop
    BY <1>1, <2>1, <2>2
  <2>3. CASE loop' = [AtTop EXCEPT !.pc = "wild"]
    <3>1. loop'.pc \notin Waiting
      BY <2>3 DEF AtTop, Waiting
    <3>2. loop.pc \notin Waiting
      BY <2>1 DEF ScanInv
    <3> QED
      BY <2>1, <3>1, <3>2, SameFlags, QuietFlags DEF UpKept
  <2> QED
    BY <1>8, <2>2, <2>3 DEF CancelledAttemptEnds
<1> QED
  BY <1>2, <1>3, <1>4, <1>5, <1>6, <1>7, <1>8 DEF HostStep

\* The failure branch lowers no flag and sets no link up.
LEMMA FailFlags ==
    ASSUME TypeOK, FlagInv, loop.pc \notin Waiting,
           NEW devs \in Lists, KeepsFlags(devices, devs), Fail(devs)
    PROVE  FlagInv'
<1>0. client \in Pool /\ loop \in Loop
  BY DEF TypeOK, Pool
<1>1. UpKept
  BY <1>0, PoolKept DEF Fail, UpKept
<1>2. loop'.pc \notin Waiting
  BY <1>0, FailLocations DEF Waiting
<1>3. devices' = devs \/ devices' = ForgetChr(devs, loop.pClient)
  BY DEF Fail
<1>4. KeepsFlags(devices, devices')
  <2>1. KeepsFlags(devs, ForgetChr(devs, loop.pClient))
    BY ForgetChrKeeps
  <2> QED
    BY <1>3, <2>1 DEF KeepsFlags
<1> QED
  BY <1>1, <1>2, <1>4, QuietFlags

\* The connect functions leave every session flagged: the one that leaves
\* onConnect has just been.
LEMMA ConnectFlags ==
    TypeOK /\ ScanInv /\ LinkInv /\ FlagInv /\ ConnectStep => FlagInv'
<1> SUFFICES ASSUME TypeOK, ScanInv, LinkInv, FlagInv, ConnectStep PROVE FlagInv'
  OBVIOUS
<1> DEFINE s == loop.pClient
<1>0. client \in Pool /\ devices \in Lists /\ loop \in Loop
  BY DEF TypeOK, Pool, Lists
<1>1. CASE \/ ForEach \/ Pick \/ CheckPool \/ CheckConnected \/ ConnectRefused
           \/ ConnectReturns \/ ReconnectFailed \/ Summary
  <2>1. UNCHANGED <<client, devices>>
    BY <1>1 DEF ForEach, Pick, CheckPool, CheckConnected, ConnectRefused,
                ConnectReturns, ReconnectFailed, Summary, UnchangedExceptLoop
  <2>2. loop.pc \notin Waiting /\ loop'.pc \notin Waiting
    BY <1>0, <1>1, ConnectLocations DEF FromTo, Waiting
  <2> QED
    BY <2>1, <2>2, SameFlags, QuietFlags DEF UpKept
<1>2. CASE CreateClient
  <2>1. /\ Clients \ Created # {}
        /\ UNCHANGED devices
        /\ client' = [client EXCEPT ![First(Clients \ Created)].state = "idle"]
    BY <1>2 DEF CreateClient
  <2>2. UpKept
    BY <1>0, <2>1 DEF UpKept, Pool, Client
  <2>3. loop.pc \notin Waiting /\ loop'.pc \notin Waiting
    BY <1>0, <1>2, ConnectLocations DEF FromTo, Waiting
  <2> QED
    BY <2>1, <2>2, <2>3, SameFlags, QuietFlags
<1>3. CASE ConnectStarts
  <2>1. /\ s \in Clients /\ loop.pc \notin Waiting /\ UNCHANGED devices
        /\ client[s].state = "idle"
        /\ client' = [client EXCEPT ![s].peer = At]
    BY <1>3 DEF ConnectStarts, LinkInv, HasClient, Waiting
  <2>2. UpKept /\ client'[s].state # "up"
    BY <1>0, <2>1 DEF UpKept, Pool, Client
  <2>3. loop'.pClient = s
    BY <1>0, <1>3 DEF ConnectStarts, Loop
  <2>4. \A t \in Clients : InSession(t)' =>
            InSession(t) /\ client'[t].peer = client[t].peer
    BY <2>1, <2>2 DEF UpKept, InSession
  <2>5. LiveLinkIsFlagged'
    BY <2>1, <2>4, SameFlags, SessionsKept DEF FlagInv
  <2> QED
    BY <2>2, <2>3, <2>5 DEF FlagInv, AwaitedHasTarget
<1>4. CASE ConnectResumes
  <2>1. s \in Clients /\ loop.pc = "wait" /\ loop'.pClient = s
    BY <1>0, <1>4 DEF ConnectResumes, LinkInv, HasClient, Loop
  <2>2. CASE IsConnected(s)
    <3>1. /\ UNCHANGED <<client, devices>>
          /\ loop'.pc = "onConnect" /\ loop'.target = loop.target
      BY <1>0, <1>4, <2>2 DEF ConnectResumes, Loop
    <3>2. \A t \in Clients : InSession(t)' =>
              InSession(t) /\ client'[t].peer = client[t].peer
      BY <2>1, <3>1 DEF InSession, Waiting
    <3>3. LiveLinkIsFlagged'
      BY <3>1, <3>2, SameFlags, SessionsKept DEF FlagInv
    <3> QED
      BY <2>1, <3>1, <3>3 DEF FlagInv, AwaitedHasTarget, Waiting
  <2>3. CASE ~IsConnected(s)
    <3>1. /\ client' = [client EXCEPT ![s] = FreeClient]
          /\ devices' = ForgetChr(devices, s)
          /\ loop'.pc = "connectFailed"
      BY <1>0, <1>4, <2>3 DEF ConnectResumes, Loop
    <3>2. \A t \in Clients : client'[t].state = "up" => t # s /\ client'[t] = client[t]
      BY <1>0, <2>1, <3>1 DEF FreeClient, Pool
    <3>3. \A t \in Clients : InSession(t)' =>
              InSession(t) /\ client'[t].peer = client[t].peer
      BY <3>2 DEF InSession
    <3>4. LiveLinkIsFlagged'
      BY <1>0, <3>1, <3>3, ForgetChrKeeps, SessionsKept DEF FlagInv
    <3> QED
      BY <3>1, <3>4 DEF FlagInv, AwaitedHasTarget, Waiting
  <2> QED
    BY <2>2, <2>3
<1>5. CASE OnConnect
  <2> DEFINE p == loop.target
  <2>1. /\ loop.pc = "onConnect" /\ loop'.pc = "connectReturns"
        /\ UNCHANGED client
    BY <1>0, <1>5 DEF OnConnect, Loop
  <2>2. client[s].state = "up" => client[s].peer = p
    BY <2>1 DEF FlagInv, AwaitedHasTarget, Waiting
  <2>3. /\ KeepsFlags(devices, devices')
        /\ \A i \in DOMAIN devices'[KindOf(p)] :
               devices'[KindOf(p)][i].peer = p => devices'[KindOf(p)][i].connected
    <3>1. CASE Known(p)
      <4>1. devices' = SetConnected(p, TRUE)
        BY <1>5, <3>1 DEF OnConnect
      <4> QED
        BY <1>0, <4>1, SetConnectedRaises
    <3>2. CASE ~Known(p)
      <4>1. UNCHANGED devices
        BY <1>5, <3>2 DEF OnConnect
      <4> QED
        BY <3>2, <4>1, SameFlags DEF Known
    <3> QED
      BY <3>1, <3>2
  <2>4. ASSUME NEW t \in Clients, client'[t].state = "up",
               NEW i \in DOMAIN devices'[KindOf(client'[t].peer)],
               devices'[KindOf(client'[t].peer)][i].peer = client'[t].peer
        PROVE  devices'[KindOf(client'[t].peer)][i].connected
    <3>1. CASE t = s
      BY <2>1, <2>2, <2>3, <2>4, <3>1
    <3>2. CASE t # s
      <4> DEFINE q == client[t].peer
      <4>1. KindOf(q) \in Kinds
        BY KindOfType
      <4>2. devices[KindOf(q)][i].connected
        BY <2>1, <2>3, <2>4, <3>2, <4>1
        DEF FlagInv, LiveLinkIsFlagged, KeepsFlags
      <4> QED
        BY <2>1, <2>3, <2>4, <4>1, <4>2 DEF KeepsFlags
    <3> QED
      BY <3>1, <3>2
  <2>5. LiveLinkIsFlagged'
    BY <2>4 DEF LiveLinkIsFlagged, KindOf
  <2> QED
    BY <2>1, <2>5 DEF FlagInv, AwaitedHasTarget, Waiting
<1>6. CASE ConnectFailed
  BY <1>0, <1>6, SameFlags, FailFlags DEF ConnectFailed, Waiting
<1>7. CASE Discovered
  <2>1. UNCHANGED client /\ (devices' = devices \/ devices' = WithChr(s))
    BY <1>7 DEF Discovered
  <2>2. loop.pc \notin Waiting /\ loop'.pc \notin Waiting
    BY <1>0, <1>7, ConnectLocations DEF FromTo, Waiting
  <2> QED
    BY <1>0, <2>1, <2>2, SameFlags, WithChrKeeps, QuietFlags DEF UpKept
<1>8. CASE DiscoveryFails
  <2>1. loop.pc \notin Waiting
    BY <1>8 DEF DiscoveryFails, Waiting
  <2>2. CASE Fail(devices)
    BY <1>0, <2>1, <2>2, SameFlags, FailFlags
  <2>3. CASE /\ loop.kind = "bms" /\ loop.idx <= Len(devices["bms"])
             /\ Fail(WithChr(Null))
    <3>1. WithChr(Null) \in Lists
      BY <1>0, <2>3, WithChrType
    <3> QED
      BY <1>0, <2>1, <2>3, <3>1, WithChrKeeps, FailFlags
  <2> QED
    BY <1>8, <2>2, <2>3 DEF DiscoveryFails
<1>9. CASE ConnectTimesOut
  <2>1. /\ s \in Clients
        /\ client' = [client EXCEPT ![s] = FreeClient]
        /\ devices' = ForgetChr(devices, s)
        /\ loop'.pc = "connectFailed"
    BY <1>0, <1>9 DEF ConnectTimesOut, LinkInv, HasClient, Loop
  <2>2. \A t \in Clients : client'[t].state = "up" => t # s /\ client'[t] = client[t]
    BY <1>0, <2>1 DEF FreeClient, Pool
  <2>3. \A t \in Clients : InSession(t)' =>
            InSession(t) /\ client'[t].peer = client[t].peer
    BY <2>2 DEF InSession
  <2>4. LiveLinkIsFlagged'
    BY <1>0, <2>1, <2>3, ForgetChrKeeps, SessionsKept DEF FlagInv
  <2> QED
    BY <2>1, <2>4 DEF FlagInv, AwaitedHasTarget, Waiting
<1> QED
  BY <1>1, <1>2, <1>3, <1>4, <1>5, <1>6, <1>7, <1>8, <1>9 DEF ConnectStep

\* Every step leaves every session flagged.
LEMMA NextFlags == TypeOK /\ ScanInv /\ LinkInv /\ FlagInv /\ [Next]_vars => FlagInv'
<1> SUFFICES ASSUME TypeOK, ScanInv, LinkInv, FlagInv, [Next]_vars PROVE FlagInv'
  OBVIOUS
<1>0. client \in Pool /\ devices \in Lists
  BY DEF TypeOK, Pool, Lists
<1>1. CASE HostStep
  BY <1>1, HostFlags
<1>2. CASE ConnectStep
  BY <1>2, ConnectFlags
<1>3. CASE \/ TakeConnect \/ NoBmsToConnect \/ TakeConnectThermo
           \/ NoThermoToConnect \/ MainFail \/ Rescan \/ Wild
  <2>1. /\ UNCHANGED devices
        /\ UNCHANGED client \/ client' = Terminated(client)
    BY <1>3 DEF TakeConnect, NoBmsToConnect, TakeConnectThermo, Enter,
                NoThermoToConnect, MainFail, Rescan, Wild, UnchangedExceptLoop
  <2>2. UpKept
    BY <1>0, <2>1, PoolLinks DEF UpKept
  <2>3. loop.pc \notin Waiting /\ loop'.pc \notin Waiting
    BY <1>3, LoopLocations DEF FromTo, Waiting
  <2> QED
    BY <2>1, <2>2, <2>3, SameFlags, QuietFlags
<1>4. CASE Panic \/ DailyReset
  <2>1. Reboot
    BY <1>4 DEF Panic, DailyReset
  <2>2. NoLinkUp(client') /\ loop'.pc \notin Waiting
    BY <2>1, LoopLocations DEF Reboot, NoLinkUp, FreeClient, Waiting
  <2> QED
    BY <2>2, NoUpFlags
<1>5. CASE UNCHANGED vars
  BY <1>5, SameFlags, QuietHostFlags DEF vars, UpKept
<1> QED
  BY <1>1, <1>2, <1>3, <1>4, <1>5 DEF Next, LoopStep

\* loop() never publishes {"connected": 0} for a device with a session: from
\* onConnect on it is flagged, whatever scans, disconnections of older links
\* and failures of other devices come in between.
THEOREM SessionsFlagged == Spec => []LiveLinkIsFlagged
<1>1. Init => FlagInv
  BY DEF Init, FlagInv, LiveLinkIsFlagged, AwaitedHasTarget, FreeClient, AtTop,
         Waiting
<1>2. TypeOK /\ ScanInv /\ LinkInv /\ [Next]_vars => LinkInv'
  BY NextLinks DEF LinkStep
<1>3. FlagInv => LiveLinkIsFlagged
  BY DEF FlagInv
<1>4. Spec => []ScanInv
  BY TypeCorrect, InitScanInv, NextScanInv, PTL DEF Spec
<1>5. Spec => []LinkInv
  BY <1>2, <1>4, TypeCorrect, InitLinks, PTL DEF Spec
<1> QED
  BY <1>1, <1>3, <1>4, <1>5, TypeCorrect, NextFlags, PTL DEF Spec

-----------------------------------------------------------------------------
(***************************************************************************)
(* RecoveryArmed.  A device that is counted has, when all goes well, a     *)
(* link whose end onDisconnect will act on.  It has none after a scan that *)
(* ran next to the end of older links has rebuilt the lists without it, or *)
(* after a link that was gone before onConnect counted it.  In the first   *)
(* case the lists found by that scan are still to be connected, and the    *)
(* first board of them backs the count or fails; in the second the failure *)
(* that follows clears the count, while failures still end the round.      *)
(***************************************************************************)
Counted == \E k \in Kinds : numberOfConnected[k] > 0

\* neither the firmware has given up, nor do failures no longer end a round
Hopeful == failCount <= FAIL_LIMIT /\ ~GivenUp

\* a link whose end will scan again, and onConnect, if not called yet, count
Backed == \E s \in Clients :
              IsConnected(s) /\ Known(client[s].peer) /\ ~Awaited(s)

\* Nothing but a failure of the round, or of the chip, can come next.
Doomed ==
    \/ loop.pc \in {"failed", "wild"}
    \/ loop.pc = "connectFailed" /\ loop.via # "reconnect"
    \/ /\ loop.pc \in {"connectReturns", "connectFailed", "check", "connect"}
       /\ client[loop.pClient].state = "free"

Unbacked == Counted /\ Hopeful /\ ~Backed /\ ~Doomed

SlotLeft == \E s \in Clients : ~IsConnected(s) \/ Awaited(s)

AllKnown == \A k \in Kinds : \A i \in DOMAIN advDevices[k] :
                Known(advDevices[k][i].peer)

\* The first board found is being connected, with a client that is at hand.
FirstTried ==
    /\ loop.kind = "bms" /\ loop.idx = 1
    /\ loop.pc \in {"each", "pick", "create", "new", "connect", "wait",
                    "connectFailed", "check"}
    /\ loop.pc \in {"each", "pick"} => loop.pClient = Null
    /\ loop.pc = "create" => Created # Clients
    /\ loop.pc \in {"connect", "connectFailed", "check"} =>
           loop.pClient # Null /\ ~IsConnected(loop.pClient)

\* The boards found by the last scan are still to be connected.
Retrying ==
    /\ gap # "scan"
    /\ advDevices["bms"] # <<>>
    /\ AllKnown
    /\ SlotLeft
    /\ loop.pc = "wait" => Known(loop.target)
    /\ doConnect["bms"] \/ FirstTried

BackedOrRetried == Unbacked => Retrying

\* What connect() knows of its client, and a scan that starts meanwhile.
CountInv ==
    /\ gap = "scan" /\ loop.pc = "wait" => ~Counted
    /\ gap = "scan" /\ (Counted \/ loop.pc \in Waiting)
           => \E s \in Clients : ~IsConnected(s)
    /\ loop.pc = "rescan" => ~Counted
    /\ loop.pc = "wait" => client[loop.pClient].peer = loop.target
    /\ loop.pc = "onConnect" =>
           /\ client[loop.pClient].state # "idle"
           /\ IsConnected(loop.pClient) => client[loop.pClient].peer = loop.target
    /\ loop.pc = "connectReturns" => client[loop.pClient].state # "idle"

\* What loop() finds outside the connect functions.
Armed ==
    loop.pc \in {"top", "thermo"} =>
        \/ gap = "scan"
        \/ \E k \in Kinds : doConnect[k]
        \/ Counted
        \/ GivenUp

\* The three together are what is wanted.
LEMMA ArmedIsRecovery ==
    ASSUME TypeOK, Armed, BackedOrRetried
    PROVE  RecoveryArmed
<1> SUFFICES ASSUME loop.pc \in {"top", "thermo"}, ~Recovering, ~PhantomKept
             PROVE  FALSE
  BY DEF RecoveryArmed
<1>1. Counted /\ ~GivenUp
  BY DEF Armed, Recovering
<1>2. failCount <= FAIL_LIMIT
  BY <1>1, SessionAssumption DEF PhantomKept, Counted, TypeOK
<1>3. ~Backed /\ ~Doomed
  BY DEF Recovering, WillRescan, Backed, Doomed
<1>4. Retrying /\ ~FirstTried
  BY <1>1, <1>2, <1>3 DEF BackedOrRetried, Unbacked, Hopeful, FirstTried
<1> QED
  BY <1>4 DEF Retrying, Recovering, Kinds

\* An address stays in the lists when no entry changes its address.
LEMMA KnownKept ==
    ASSUME KeepsFlags(devices, devices'), NEW p
    PROVE  Known(p)' <=> Known(p)
  BY KindOfType DEF KeepsFlags, Known

\* The client that has lost its link, and the others.
LEMMA UnlinkedPool ==
    ASSUME NEW pool \in Pool, NEW s \in Clients
    PROVE  LET new == Unlinked(pool, s)
           IN  /\ new[s].state = IF Awaited(s) THEN "idle" ELSE "free"
               /\ Awaited(s) => new[s].peer = pool[s].peer
               /\ \A t \in Clients : t # s => new[t] = pool[t]
  BY DEF Unlinked, FreeClient, Pool, Client

\* Asking all links to end ends none, and changes no address.
LEMMA TerminatedPool ==
    ASSUME NEW pool \in Pool, NEW t \in Clients
    PROVE  /\ Terminated(pool)[t].peer = pool[t].peer
           /\ Terminated(pool)[t].state \in {"up", "term"} <=> pool[t].state \in {"up", "term"}
           /\ Terminated(pool)[t].state = "idle" <=> pool[t].state = "idle"
           /\ Terminated(pool)[t].state = "free" <=> pool[t].state = "free"
  BY DEF Terminated, Pool, Client

-----------------------------------------------------------------------------
(* CountInv *)

\* The callbacks of the host task preserve CountInv.
LEMMA HostCount == TypeOK /\ ScanInv /\ LinkInv /\ CountInv /\ HostStep => CountInv'
<1> SUFFICES ASSUME TypeOK, ScanInv, LinkInv, CountInv, HostStep PROVE CountInv'
  OBVIOUS
<1>0. client \in Pool
  BY DEF TypeOK, Pool
<1> USE DEF CountInv, Counted, IsConnected
<1>1. CASE (\E p \in Peers : ScanResult(p)) \/ ScanEnd \/ AttemptFails
  BY <1>1 DEF ScanResult, ScanEnd, AttemptFails
<1>2. CASE LinkUp
  <2>1. /\ loop.pc = "wait" /\ gap' = "idle" /\ UNCHANGED loop
        /\ loop.pClient \in Clients
        /\ client' = [client EXCEPT ![loop.pClient].state = "up"]
    BY <1>2 DEF LinkUp, LinkInv, HasClient
  <2>2. client'[loop.pClient].peer = client[loop.pClient].peer
    BY <1>0, <2>1 DEF Pool, Client
  <2> QED
    BY <2>1, <2>2
<1>3. ASSUME NEW s \in Clients, Disconnect(s) PROVE CountInv'
  <2> DEFINE c == loop.pClient
  <2>1. /\ UNCHANGED loop
        /\ client' = Unlinked(client, s) \/ client' = Unlinked(Terminated(client), s)
        /\ \/ gap' = gap /\ UNCHANGED numberOfConnected
           \/ numberOfConnected' = [k \in Kinds |-> 0]
    BY <1>3 DEF Disconnect, ClearResources
  <2>2. PICK pool \in Pool :
            /\ client' = Unlinked(pool, s)
            /\ \A t \in Clients :
                  /\ pool[t].peer = client[t].peer
                  /\ pool[t].state \in {"up", "term"} <=> client[t].state \in {"up", "term"}
                  /\ pool[t].state = "idle" <=> client[t].state = "idle"
    BY <1>0, <2>1, PoolTypes, TerminatedPool
  <2>3. loop.pc \in {"wait", "onConnect", "connectReturns"} => c \in Clients
    BY DEF LinkInv, HasClient
  <2>4. client'[s].state \in {"idle", "free"}
    BY <2>2, UnlinkedPool
  <2>5. loop.pc = "wait" => client'[c].peer = client[c].peer
    BY <2>2, <2>3, UnlinkedPool DEF Awaited
  <2>6. ASSUME loop.pc \in {"onConnect", "connectReturns"}
        PROVE  /\ client'[c].state = "idle" => client[c].state = "idle"
               /\ IsConnected(c)' => IsConnected(c) /\ client'[c].peer = client[c].peer
    <3>1. c \in Clients /\ ~Awaited(s)
      BY <2>3, <2>6 DEF Awaited
    <3>2. CASE c = s
      BY <2>2, <2>1, <3>1, <3>2, UnlinkedPool
    <3>3. CASE c # s
      BY <2>2, <2>1, <3>1, <3>3, UnlinkedPool
    <3> QED
      BY <3>2, <3>3
  <2>7. Counted' => Counted
    BY <2>1
  <2>8. gap' = "scan" /\ loop.pc = "wait" => ~Counted'
    BY <2>1
  <2> HIDE DEF Counted
  <2> QED
    BY <2>1, <2>4, <2>5, <2>6, <2>7, <2>8
<1>4. CASE EstablishmentFails
  <2> DEFINE c == loop.pClient
  <2>1. /\ loop.pc = "wait" /\ UNCHANGED <<gap, loop, numberOfConnected>>
        /\ c \in Clients
        /\ client' = Unlinked(client, c)
    BY <1>4 DEF EstablishmentFails, LinkInv, HasClient
  <2>2. /\ client'[c].peer = client[c].peer /\ client'[c].state = "idle"
    BY <1>0, <2>1 DEF Unlinked, Awaited, Pool, Client
  <2> QED
    BY <2>1, <2>2
<1>5. CASE CancelledAttemptEnds
  <2>1. /\ UNCHANGED <<client, numberOfConnected>> /\ gap' = "idle"
        /\ UNCHANGED loop \/ loop'.pc = "wild"
    BY <1>5 DEF CancelledAttemptEnds, AtTop
  <2> QED
    BY <2>1
<1> QED
  BY <1>1, <1>2, <1>3, <1>4, <1>5 DEF HostStep

\* So do the connect functions.
LEMMA ConnectCount ==
    TypeOK /\ ScanInv /\ LinkInv /\ CountInv /\ ConnectStep => CountInv'
<1> SUFFICES ASSUME TypeOK, ScanInv, LinkInv, CountInv, ConnectStep PROVE CountInv'
  OBVIOUS
<1> DEFINE c == loop.pClient
<1>0. client \in Pool /\ loop \in Loop
  BY DEF TypeOK, Pool
<1>1. ASSUME loop'.pc \notin Waiting \cup {"rescan", "connectReturns"},
             gap' = "scan" => gap = "scan",
             UNCHANGED numberOfConnected,
             \A s \in Clients : IsConnected(s)' => IsConnected(s)
      PROVE  CountInv'
  BY <1>1 DEF CountInv, Counted, Waiting
<1>2. CASE \/ ForEach \/ Pick \/ CheckPool \/ CheckConnected \/ ConnectRefused
           \/ ConnectReturns \/ ReconnectFailed \/ Discovered \/ Summary
  <2>1. UNCHANGED <<gap, client, numberOfConnected>>
    BY <1>2 DEF ForEach, Pick, CheckPool, CheckConnected, ConnectRefused,
                ConnectReturns, ReconnectFailed, Discovered, Summary,
                UnchangedExceptLoop
  <2>2. loop'.pc \notin Waiting \cup {"rescan", "connectReturns"}
    BY <1>0, <1>2, ConnectLocations DEF FromTo, Waiting
  <2> QED
    BY <1>1, <2>1, <2>2 DEF IsConnected
<1>3. CASE CreateClient
  <2>1. UNCHANGED <<gap, numberOfConnected>>
    BY <1>3 DEF CreateClient
  <2>2. \A s \in Clients : IsConnected(s)' => IsConnected(s)
    BY <1>0, <1>3 DEF CreateClient, IsConnected, Pool, Client
  <2>3. loop'.pc = "connect"
    BY <1>0, <1>3, ConnectLocations DEF FromTo
  <2> QED
    BY <1>1, <2>1, <2>2, <2>3 DEF Waiting
<1>4. CASE ConnectStarts
  <2>1. /\ c \in Clients /\ UNCHANGED numberOfConnected
        /\ client' = [client EXCEPT ![c].peer = At]
    BY <1>4 DEF ConnectStarts, LinkInv, HasClient
  <2>2. /\ client'[c].peer = At
        /\ \A s \in Clients : client'[s].state = client[s].state
    BY <1>0, <2>1 DEF Pool, Client
  <2>3. CASE gap' = "conn" /\ loop' = [loop EXCEPT !.pc = "wait", !.target = At]
    <3>1. loop'.pc = "wait" /\ loop'.target = At /\ loop'.pClient = c
      BY <1>0, <2>3 DEF Loop
    <3> QED
      BY <2>2, <2>3, <3>1 DEF CountInv
  <2>4. CASE loop' = [loop EXCEPT !.pc = "connectFailed"]
    <3>1. loop'.pc = "connectFailed"
      BY <1>0, <2>4 DEF Loop
    <3>2. gap' = "scan" => gap = "scan"
      BY <1>4, <3>1, <2>4 DEF ConnectStarts, ScanInv
    <3> QED
      BY <1>1, <2>1, <2>2, <3>1, <3>2 DEF IsConnected, Waiting
  <2> QED
    BY <1>4, <2>3, <2>4 DEF ConnectStarts
<1>5. CASE ConnectResumes
  <2>1. /\ loop.pc = "wait" /\ c \in Clients
        /\ UNCHANGED <<gap, numberOfConnected>>
    BY <1>5 DEF ConnectResumes, LinkInv, HasClient
  <2>2. CASE IsConnected(c)
    <3>1. /\ UNCHANGED client
          /\ loop'.pc = "onConnect" /\ loop'.target = loop.target /\ loop'.pClient = c
      BY <1>0, <1>5, <2>2 DEF ConnectResumes, Loop
    <3> QED
      BY <2>1, <2>2, <3>1 DEF CountInv, Counted, IsConnected, Waiting
  <2>3. CASE ~IsConnected(c)
    <3>1. /\ client' = [client EXCEPT ![c] = FreeClient]
          /\ loop'.pc = "connectFailed"
      BY <1>0, <1>5, <2>3 DEF ConnectResumes, Loop
    <3>2. \A s \in Clients : IsConnected(s)' => IsConnected(s)
      BY <1>0, <3>1 DEF FreeClient, IsConnected, Pool
    <3> QED
      BY <1>1, <2>1, <3>1, <3>2 DEF Waiting
  <2> QED
    BY <2>2, <2>3
<1>6. CASE ConnectTimesOut
  <2>1. gap' = "cancel" /\ loop'.pc = "connectFailed"
    BY <1>0, <1>6 DEF ConnectTimesOut, Loop
  <2> QED
    BY <2>1 DEF CountInv
<1>7. CASE OnConnect
  <2>1. /\ loop.pc = "onConnect" /\ loop'.pc = "connectReturns" /\ loop'.pClient = c
        /\ UNCHANGED <<gap, client>>
    BY <1>0, <1>7 DEF OnConnect, Loop
  <2> QED
    BY <2>1 DEF CountInv, IsConnected, Waiting
<1>8. ASSUME NEW devs, loop.pc \in {"connectFailed", "discover"}, Fail(devs)
      PROVE  CountInv'
  <2>1. UNCHANGED <<gap, numberOfConnected>>
    BY <1>8 DEF Fail
  <2>2. \A s \in Clients : IsConnected(s)' => IsConnected(s)
    BY <1>0, <1>8 DEF Fail, DeletedClient, FreeClient, IsConnected, Pool, Client
  <2>3. loop'.pc \in {"failed", "each"}
    BY <1>0, <1>8, FailLocations
  <2> QED
    BY <1>1, <2>1, <2>2, <2>3 DEF Waiting
<1>9. CASE ConnectFailed \/ DiscoveryFails
  BY <1>8, <1>9 DEF ConnectFailed, DiscoveryFails
<1> QED
  BY <1>2, <1>3, <1>4, <1>5, <1>6, <1>7, <1>9 DEF ConnectStep

\* Every step preserves CountInv.
LEMMA NextCount ==
    TypeOK /\ ScanInv /\ LinkInv /\ CountInv /\ [Next]_vars => CountInv'
<1> SUFFICES ASSUME TypeOK, ScanInv, LinkInv, CountInv, [Next]_vars
             PROVE  CountInv'
  OBVIOUS
<1>1. CASE HostStep
  BY <1>1, HostCount
<1>2. CASE ConnectStep
  BY <1>2, ConnectCount
<1>3. CASE \/ TakeConnect \/ NoBmsToConnect \/ TakeConnectThermo
           \/ NoThermoToConnect \/ Wild
  <2>1. UNCHANGED <<gap, client, numberOfConnected>>
    BY <1>3 DEF TakeConnect, NoBmsToConnect, TakeConnectThermo, Enter,
                NoThermoToConnect, Wild, UnchangedExceptLoop
  <2>2. loop'.pc \in {"each", "top", "thermo", "wild"}
    BY <1>3, LoopLocations DEF FromTo
  <2> QED
    BY <2>1, <2>2 DEF CountInv, Counted, IsConnected, Waiting
<1>4. CASE MainFail
  <2>1. UNCHANGED gap
    BY <1>4 DEF MainFail
  <2>2. \/ numberOfConnected' = [k \in Kinds |-> 0] /\ loop'.pc \in {"rescan", "top", "thermo"}
        \/ UNCHANGED <<numberOfConnected, client>> /\ loop'.pc \in {"top", "thermo"}
    BY <1>4, LoopLocations DEF MainFail, ClearResources, FromTo, RoundOver, AtTop
  <2> QED
    BY <2>1, <2>2 DEF CountInv, Counted, IsConnected, Waiting
<1>5. CASE Rescan
  <2>1. /\ UNCHANGED numberOfConnected /\ loop.pc = "rescan"
        /\ loop'.pc \in {"top", "thermo"}
    BY <1>5, LoopLocations DEF Rescan, FromTo
  <2> QED
    BY <2>1 DEF CountInv, Counted, Waiting
<1>6. CASE Panic \/ DailyReset
  <2>1. loop'.pc = "top" /\ numberOfConnected' = [k \in Kinds |-> 0]
    BY <1>6, LoopLocations DEF Panic, DailyReset, Reboot
  <2> QED
    BY <2>1 DEF CountInv, Counted, Waiting
<1>7. CASE UNCHANGED vars
  BY <1>7 DEF vars, CountInv, Counted, IsConnected, Waiting
<1> QED
  BY <1>1, <1>2, <1>3, <1>4, <1>5, <1>6, <1>7 DEF Next, LoopStep

-----------------------------------------------------------------------------
(* BackedOrRetried *)

\* A step that keeps the counters only takes away from what is Unbacked when
\* it keeps the links that back it and the failures that are due.
LEMMA StillUnbacked ==
    ASSUME TypeOK, Unbacked', UNCHANGED <<numberOfConnected, mainFailCount, lastScan>>,
           failCount' = failCount \/ failCount' = Bump(failCount, FAIL_LIMIT),
           Backed => Backed', Doomed => Doomed'
    PROVE  Unbacked
<1>1. Counted
  BY DEF Unbacked, Counted
<1>2. ~GivenUp
  BY DEF Unbacked, Hopeful, GivenUp
<1>3. failCount <= FAIL_LIMIT
  <2>1. failCount \in Nat /\ failCount' <= FAIL_LIMIT
    BY SessionAssumption DEF TypeOK, Unbacked, Hopeful
  <2> QED
    BY <2>1, SessionAssumption DEF Bump
<1> QED
  BY <1>1, <1>2, <1>3 DEF Unbacked, Hopeful

\* The links that back the count are kept by a step that keeps them and the
\* addresses of the lists.
LEMMA StillBacked ==
    ASSUME KeepsFlags(devices, devices'), Backed,
           \A s \in Clients : IsConnected(s) /\ ~Awaited(s) =>
               IsConnected(s)' /\ client'[s].peer = client[s].peer /\ ~Awaited(s)'
    PROVE  Backed'
<1>1. PICK s \in Clients : IsConnected(s) /\ Known(client[s].peer) /\ ~Awaited(s)
  BY DEF Backed
<1>2. Known(client[s].peer)'
  <2>1. client'[s].peer = client[s].peer
    BY <1>1
  <2> DEFINE p == client[s].peer
  <2>2. Known(p)
    BY <1>1
  <2> HIDE DEF p
  <2>3. \E i \in DOMAIN devices'[KindOf(p)] : devices'[KindOf(p)][i].peer = p
    BY <2>2, KindOfType DEF KeepsFlags, Known
  <2> QED
    BY <2>1, <2>3 DEF Known, p, KindOf
<1> QED
  BY <1>1, <1>2 DEF Backed

\* Nothing found is forgotten by a step that keeps the lists' addresses.
LEMMA StillKnown ==
    ASSUME KeepsFlags(devices, devices'), UNCHANGED advDevices, AllKnown
    PROVE  AllKnown'
<1> SUFFICES ASSUME NEW k \in Kinds, NEW i \in DOMAIN advDevices'[k]
             PROVE  Known(advDevices[k][i].peer)'
  BY DEF AllKnown
<1> DEFINE p == advDevices[k][i].peer
<1>1. Known(p)
  BY DEF AllKnown
<1> HIDE DEF p
<1>2. \E j \in DOMAIN devices'[KindOf(p)] : devices'[KindOf(p)][j].peer = p
  BY <1>1, KindOfType DEF KeepsFlags, Known
<1> QED
  BY <1>2 DEF Known, p, KindOf

\* The steps of the loop task that only move it on.
LEMMA MovedOn ==
    ASSUME TypeOK, BackedOrRetried, UnchangedExceptLoop,
           loop.pc # "wait", loop'.pc # "wait", Doomed => Doomed',
           Unbacked /\ FirstTried => FirstTried'
    PROVE  BackedOrRetried'
<1> SUFFICES ASSUME Unbacked' PROVE Retrying'
  BY DEF BackedOrRetried
<1>1. UNCHANGED <<gap, client, advDevices, devices, doConnect, numberOfConnected,
                  failCount, mainFailCount, lastScan>>
  BY DEF UnchangedExceptLoop
<1>2. \A s : ~Awaited(s) /\ ~Awaited(s)'
  BY DEF Awaited
<1>3. Backed => Backed'
  BY <1>1, <1>2, SameFlags, StillBacked DEF IsConnected
<1>4. Unbacked
  BY <1>1, <1>3, StillUnbacked
<1>5. Retrying
  BY <1>4 DEF BackedOrRetried
<1>6. AllKnown'
  BY <1>1, <1>5, SameFlags, StillKnown DEF Retrying
<1>7. SlotLeft'
  BY <1>1, <1>2, <1>5 DEF Retrying, SlotLeft, IsConnected
<1> QED
  BY <1>1, <1>4, <1>5, <1>6, <1>7 DEF Retrying

\* The callbacks of the host task.
LEMMA HostBacked ==
    TypeOK /\ RoundInv /\ LinkInv /\ CountInv /\ BackedOrRetried /\ HostStep
        => BackedOrRetried'
<1> SUFFICES ASSUME TypeOK, RoundInv, LinkInv, CountInv, BackedOrRetried, HostStep,
                    Unbacked'
             PROVE  Retrying'
  BY DEF BackedOrRetried
<1>0. client \in Pool /\ devices \in Lists /\ loop \in Loop
  BY DEF TypeOK, Pool, Lists
<1>1. CASE (\E p \in Peers : ScanResult(p)) \/ AttemptFails
  <2>1. UNCHANGED <<client, devices, doConnect, numberOfConnected, failCount,
                    mainFailCount, loop, lastScan>>
    BY <1>1 DEF ScanResult, AttemptFails
  <2>2. Unbacked
    BY <2>1 DEF Unbacked, Counted, Hopeful, GivenUp, Backed, IsConnected, Known,
                Awaited, Doomed
  <2>3. Retrying /\ gap # "scan"
    BY <2>2 DEF BackedOrRetried, Retrying
  <2>4. UNCHANGED advDevices /\ gap' = "idle"
    BY <1>1, <2>3 DEF ScanResult, AttemptFails
  <2> QED
    BY <2>1, <2>3, <2>4
    DEF Retrying, AllKnown, SlotLeft, IsConnected, Known, Awaited, FirstTried, Created
<1>2. CASE ScanEnd
  <2>1. /\ gap = "scan" /\ gap' = "idle"
        /\ UNCHANGED <<client, advDevices, numberOfConnected, loop>>
    BY <1>2 DEF ScanEnd
  <2>2. advDevices["bms"] # <<>>
    BY <1>2 DEF ScanEnd, Unbacked, Hopeful, GivenUp
  <2>3. Counted
    BY <2>1 DEF Unbacked, Counted
  <2>4. loop.pc # "wait" /\ \E s \in Clients : ~IsConnected(s)
    BY <2>1, <2>3 DEF CountInv
  <2>5. doConnect'["bms"]
    BY <1>2, <2>2 DEF ScanEnd, Kinds
  <2>6. AllKnown'
    <3> SUFFICES ASSUME NEW k \in Kinds, NEW i \in DOMAIN advDevices[k]
                 PROVE  Known(advDevices[k][i].peer)'
      BY <2>1 DEF AllKnown
    <3> DEFINE p == advDevices[k][i].peer
    <3>1. advDevices[k] \in Seq(Advert)
      BY DEF TypeOK
    <3>2. advDevices[k] # <<>> /\ i \in 1 .. Len(advDevices[k])
      BY <3>1
    <3>3. devices'[k] = Rebuilt(k)
      BY <1>2, <2>2, <3>2 DEF ScanEnd
    <3>4. i \in DOMAIN devices'[k] /\ devices'[k][i].peer = p
      BY <3>1, <3>2, <3>3 DEF Rebuilt
    <3>5. KindOf(p) = k
      BY <3>1, <3>2, SessionAssumption DEF RoundInv, Distinct, OfKind, KindOf, Kinds
    <3> QED
      BY <2>1, <3>4, <3>5 DEF Known, KindOf
  <2> QED
    BY <2>1, <2>2, <2>4, <2>5, <2>6 DEF Retrying, SlotLeft, IsConnected
<1>3. CASE LinkUp
  <2>1. /\ loop.pc = "wait" /\ gap' = "idle" /\ loop.pClient \in Clients
        /\ client' = [client EXCEPT ![loop.pClient].state = "up"]
        /\ UNCHANGED <<advDevices, devices, doConnect, numberOfConnected, failCount,
                       mainFailCount, loop, lastScan>>
    BY <1>3 DEF LinkUp, LinkInv, HasClient
  <2>2. \A s \in Clients : IsConnected(s) /\ ~Awaited(s) =>
            IsConnected(s)' /\ client'[s].peer = client[s].peer /\ ~Awaited(s)'
    BY <1>0, <2>1 DEF IsConnected, Awaited, Pool
  <2>3. Unbacked
    BY <2>1, <2>2, SameFlags, StillBacked, StillUnbacked DEF Doomed
  <2>4. Retrying
    BY <2>3 DEF BackedOrRetried
  <2> QED
    BY <2>1, <2>4
    DEF Retrying, AllKnown, SlotLeft, Known, Awaited, FirstTried
<1>4. ASSUME NEW s \in Clients, Disconnect(s) PROVE Retrying'
  <2>1. CASE Known(client[s].peer)
    <3>1. ~Counted'
      BY <1>4, <2>1 DEF Disconnect, ClearResources, Counted
    <3> QED
      BY <3>1 DEF Unbacked
  <2>2. CASE ~Known(client[s].peer)
    <3>1. /\ client' = Unlinked(client, s)
          /\ devices' = devices \/ devices' = ForgetChr(devices, s)
          /\ UNCHANGED <<gap, advDevices, doConnect, numberOfConnected, failCount,
                         mainFailCount, loop, lastScan>>
      BY <1>4, <2>2 DEF Disconnect
    <3>2. KeepsFlags(devices, devices')
      BY <1>0, <3>1, SameFlags, ForgetChrKeeps
    <3>3. /\ client'[s].state \in {"idle", "free"}
          /\ ~Awaited(s) => client'[s].state = "free"
          /\ Awaited(s) => client'[s].peer = client[s].peer
          /\ \A t \in Clients : t # s => client'[t] = client[t]
      BY <1>0, <3>1, UnlinkedPool
    <3>4. UNCHANGED loop /\ \A t : Awaited(t)' <=> Awaited(t)
      BY <3>1 DEF Awaited
    <3>5. Backed => Backed'
      <4> SUFFICES ASSUME Backed PROVE Backed'
        OBVIOUS
      <4>1. PICK t \in Clients : IsConnected(t) /\ Known(client[t].peer) /\ ~Awaited(t)
        BY DEF Backed
      <4>2. t # s /\ client'[t] = client[t]
        BY <2>2, <3>3, <4>1
      <4>3. Known(client[t].peer)'
        <5> DEFINE p == client[t].peer
        <5>1. Known(p)
          BY <4>1
        <5> HIDE DEF p
        <5>2. \E i \in DOMAIN devices'[KindOf(p)] : devices'[KindOf(p)][i].peer = p
          BY <3>2, <5>1, KindOfType DEF KeepsFlags, Known
        <5> QED
          BY <4>2, <5>2 DEF Known, p, KindOf
      <4> QED
        BY <3>4, <4>1, <4>2, <4>3 DEF Backed, IsConnected
    <3>6. Doomed => Doomed'
      BY <1>4, <3>3, <3>4, <1>0 DEF Doomed, Disconnect, IsConnected, LinkInv, HasClient
    <3>7. Unbacked
      BY <3>1, <3>5, <3>6, StillUnbacked
    <3>8. Retrying
      BY <3>7 DEF BackedOrRetried
    <3>9. AllKnown'
      BY <3>1, <3>2, <3>8, StillKnown DEF Retrying
    <3>10. SlotLeft'
      BY <3>3 DEF SlotLeft, IsConnected
    <3>11. loop.pc = "wait" => Known(loop.target)'
      <4> DEFINE p == loop.target
      <4>1. loop.pc = "wait" => Known(p)
        BY <3>8 DEF Retrying
      <4> HIDE DEF p
      <4>2. Known(p) => \E i \in DOMAIN devices'[KindOf(p)] : devices'[KindOf(p)][i].peer = p
        BY <3>2, KindOfType DEF KeepsFlags, Known
      <4> QED
        BY <3>4, <4>1, <4>2 DEF Known, p, KindOf
    <3>12. FirstTried => FirstTried'
      <4>1. \A t \in Clients : client[t].state = "free" => client'[t].state = "free"
        BY <1>4, <3>3 DEF Disconnect, IsConnected
      <4>2. Created # Clients => Created' # Clients
        BY <4>1 DEF Created
      <4>3. \A t \in Clients : ~IsConnected(t) => ~IsConnected(t)'
        BY <1>4, <3>3 DEF Disconnect, IsConnected
      <4> QED
        BY <3>4, <4>2, <4>3 DEF FirstTried, LinkInv, HasClient
    <3> QED
      BY <3>1, <3>4, <3>8, <3>9, <3>10, <3>11, <3>12 DEF Retrying
  <2> QED
    BY <2>1, <2>2
<1>5. CASE EstablishmentFails
  <2> DEFINE s == loop.pClient
  <2>1. /\ loop.pc = "wait" /\ s \in Clients /\ IsConnected(s)
        /\ client' = Unlinked(client, s)
        /\ UNCHANGED <<gap, advDevices, devices, doConnect, numberOfConnected,
                       failCount, mainFailCount, loop, lastScan>>
    BY <1>5 DEF EstablishmentFails, LinkInv, HasClient
  <2>2. /\ client'[s].state = "idle"
        /\ \A t \in Clients : t # s => client'[t] = client[t]
    BY <1>0, <2>1, UnlinkedPool DEF Awaited
  <2>3. \A t \in Clients : IsConnected(t) /\ ~Awaited(t) =>
            IsConnected(t)' /\ client'[t].peer = client[t].peer /\ ~Awaited(t)'
    BY <2>1, <2>2 DEF IsConnected, Awaited
  <2>4. Unbacked
    BY <2>1, <2>3, SameFlags, StillBacked, StillUnbacked DEF Doomed
  <2>5. Retrying
    BY <2>4 DEF BackedOrRetried
  <2> QED
    BY <2>1, <2>2, <2>5
    DEF Retrying, AllKnown, SlotLeft, Known, Awaited, IsConnected, FirstTried
<1>6. CASE CancelledAttemptEnds
  <2>1. /\ UNCHANGED loop \/ loop'.pc = "wild"
        /\ UNCHANGED <<client, advDevices, devices, doConnect, numberOfConnected,
                       failCount, mainFailCount, lastScan>>
    BY <1>6 DEF CancelledAttemptEnds, AtTop
  <2>2. gap' = "idle" /\ UNCHANGED loop
    BY <1>6, <2>1 DEF CancelledAttemptEnds, Unbacked, Doomed
  <2>3. Unbacked
    BY <2>1, <2>2 DEF Unbacked, Counted, Hopeful, GivenUp, Backed, IsConnected, Known,
                Awaited, Doomed
  <2>4. Retrying
    BY <2>3 DEF BackedOrRetried
  <2> QED
    BY <2>1, <2>2, <2>4
    DEF Retrying, AllKnown, SlotLeft, IsConnected, Known, Awaited, FirstTried, Created
<1> QED
  BY <1>1, <1>2, <1>3, <1>4, <1>5, <1>6 DEF HostStep

\* connect() begins with the device at the index of the loop task.
LEMMA StartsKnown ==
    ASSUME TypeOK, AllKnown, InRange
    PROVE  Known(At)
<1>1. loop.kind \in Kinds /\ loop.idx \in Nat \ {0}
  BY DEF TypeOK, Loop
<1>2. advDevices[loop.kind] \in Seq(Advert)
  BY <1>1 DEF TypeOK
<1> QED
  BY <1>1, <1>2 DEF AllKnown, At, InRange

\* The choice of the client, for the first board found: one without a link.
LEMMA PickFirst ==
    ASSUME TypeOK, Pick, ~Backed, Retrying, FirstTried
    PROVE  FirstTried'
<1> DEFINE knows == {s \in Created : client[s].peer = At}
           spare == {s \in Created : ~IsConnected(s)}
<1>0. loop \in Loop
  BY DEF TypeOK
<1>1. /\ loop.pc = "pick" /\ InRange /\ loop.pClient = Null
      /\ UNCHANGED client
  BY DEF Pick, UnchangedExceptLoop, FirstTried
<1>2. Known(At) /\ \A s : ~Awaited(s)
  BY <1>1, StartsKnown DEF Retrying, Awaited
<1>3. Created \in SUBSET Clients /\ Null \notin Clients
  BY DEF Created, Clients, Null
<1>4. CASE knows # {}
  <2>1. First(knows) \in knows
    BY <1>3, <1>4, FirstIsElement
  <2> HIDE DEF knows
  <2>2. loop' = [loop EXCEPT !.pc = "connect", !.via = "reconnect",
                             !.pClient = First(knows)]
    BY <1>4 DEF Pick, knows
  <2>3. ~IsConnected(First(knows)) /\ First(knows) # Null
    BY <1>2, <1>3, <2>1 DEF Backed, knows
  <2> QED
    BY <1>0, <1>1, <2>2, <2>3 DEF FirstTried, Loop, IsConnected
<1>5. CASE knows = {} /\ spare # {}
  <2>1. First(spare) \in spare
    BY <1>3, <1>5, FirstIsElement
  <2> HIDE DEF spare
  <2>2. First(spare) # Null /\ Created # {} /\ ~IsConnected(First(spare))
    BY <1>3, <2>1 DEF spare
  <2>3. loop' = [loop EXCEPT !.pc = "check", !.pClient = First(spare)]
    BY <1>5, <2>2 DEF Pick, spare
  <2> QED
    BY <1>0, <1>1, <2>2, <2>3 DEF FirstTried, Loop, IsConnected
<1>6. CASE knows = {} /\ spare = {}
  <2>1. loop' = [loop EXCEPT !.pc = "create", !.pClient = Null]
    BY <1>1, <1>6 DEF Pick
  <2>2. PICK s \in Clients : ~IsConnected(s)
    BY <1>2 DEF Retrying, SlotLeft
  <2>3. s \notin Created
    BY <1>6, <2>2
  <2>4. Created' # Clients
    BY <1>1, <2>2, <2>3 DEF Created
  <2> QED
    BY <1>0, <1>1, <2>1, <2>4 DEF FirstTried, Loop
<1> QED
  BY <1>4, <1>5, <1>6

\* A failure of the round is due, or failures no longer end rounds.
LEMMA FailBacked ==
    ASSUME TypeOK, NEW devs, Fail(devs), Unbacked'
    PROVE  FALSE
<1>1. failCount' <= FAIL_LIMIT
  BY DEF Unbacked, Hopeful
<1>2. loop'.pc = "failed"
  BY <1>1 DEF Fail, AtTop
<1> QED
  BY <1>2 DEF Unbacked, Doomed

\* The connect functions.
LEMMA ConnectBacked ==
    TypeOK /\ ScanInv /\ LinkInv /\ CountInv /\ BackedOrRetried /\ ConnectStep
        => BackedOrRetried'
<1> SUFFICES ASSUME TypeOK, ScanInv, LinkInv, CountInv, BackedOrRetried, ConnectStep
             PROVE  BackedOrRetried'
  OBVIOUS
<1> DEFINE c == loop.pClient
<1>0. client \in Pool /\ devices \in Lists /\ loop \in Loop
  BY DEF TypeOK, Pool, Lists
<1>1. CASE ForEach
  <2>1. Unbacked /\ FirstTried => FirstTried'
    <3> SUFFICES ASSUME Unbacked, FirstTried PROVE FirstTried'
      OBVIOUS
    <3>1. advDevices["bms"] \in Seq(Advert) /\ advDevices["bms"] # <<>>
      BY DEF TypeOK, BackedOrRetried, Retrying, Kinds
    <3>2. InRange
      BY <3>1 DEF FirstTried, InRange
    <3> QED
      BY <1>0, <1>1, <3>2 DEF ForEach, FirstTried, Loop
  <2> QED
    BY <1>0, <1>1, <2>1, MovedOn, ConnectLocations DEF ForEach, FromTo, Doomed
<1>2. CASE Pick
  <2>1. Unbacked /\ FirstTried => FirstTried'
    BY <1>2, PickFirst DEF BackedOrRetried, Unbacked
  <2>2. UnchangedExceptLoop /\ loop.pc = "pick"
    BY <1>2 DEF Pick
  <2> QED
    BY <1>0, <1>2, <2>1, <2>2, MovedOn, ConnectLocations DEF FromTo, Doomed
<1>3. CASE CheckPool
  <2>1. FirstTried => FirstTried'
    <3> SUFFICES ASSUME FirstTried PROVE FirstTried'
      OBVIOUS
    <3>1. Created # Clients /\ Created \subseteq Clients
      BY <1>3 DEF FirstTried, CheckPool, Created
    <3>2. ~PoolFull
      BY <3>1, FullPool, FS_Subset, FS_CardinalityType, SessionAssumption DEF PoolFull
    <3> QED
      BY <1>0, <1>3, <3>2 DEF CheckPool, FirstTried, Loop
  <2> QED
    BY <1>0, <1>3, <2>1, MovedOn, ConnectLocations DEF CheckPool, FromTo, Doomed
<1>4. CASE CreateClient
  <2> DEFINE spare == Clients \ Created
  <2>1. /\ loop.pc = "new" /\ spare # {}
        /\ client' = [client EXCEPT ![First(spare)].state = "idle"]
        /\ loop' = [loop EXCEPT !.pc = "connect", !.via = "new",
                                !.pClient = First(spare)]
        /\ UNCHANGED <<gap, advDevices, devices, doConnect, numberOfConnected,
                       failCount, mainFailCount, lastScan>>
    BY <1>4 DEF CreateClient
  <2>2. First(spare) \in spare
    BY <2>1, FirstIsElement
  <2> DEFINE f == First(spare)
  <2>3. f \in Clients /\ client[f].state = "free" /\ f # Null
    BY <2>2 DEF Created, Clients, Null
  <2> HIDE DEF f
  <2>4. /\ client'[f].state = "idle"
        /\ \A t \in Clients : t # f => client'[t] = client[t]
    BY <1>0, <2>1, <2>3 DEF f, Pool, Client
  <2>5. loop'.pc = "connect" /\ loop'.pClient = f
        /\ loop'.kind = loop.kind /\ loop'.idx = loop.idx
    BY <1>0, <2>1 DEF Loop, f
  <2> SUFFICES ASSUME Unbacked' PROVE Retrying'
    BY DEF BackedOrRetried
  <2>6. \A s \in Clients : IsConnected(s) /\ ~Awaited(s) =>
            IsConnected(s)' /\ client'[s].peer = client[s].peer /\ ~Awaited(s)'
    BY <2>3, <2>4, <2>5 DEF IsConnected, Awaited
  <2>7. Backed => Backed'
    BY <2>1, <2>6, SameFlags, StillBacked
  <2>8. ~Doomed
    BY <2>1 DEF Doomed
  <2>9. Unbacked
    BY <2>1, <2>7, <2>8, StillUnbacked
  <2>10. Retrying
    BY <2>9 DEF BackedOrRetried
  <2>11. AllKnown'
    BY <2>1, <2>10, SameFlags, StillKnown DEF Retrying
  <2>12. SlotLeft'
    BY <2>3, <2>4 DEF SlotLeft, IsConnected
  <2>13. FirstTried => FirstTried'
    BY <2>3, <2>4, <2>5 DEF FirstTried, IsConnected
  <2> QED
    BY <2>1, <2>5, <2>10, <2>11, <2>12, <2>13 DEF Retrying
<1>5. CASE CheckConnected
  <2>1. /\ UnchangedExceptLoop
        /\ loop.pc = "check" /\ loop'.pc # "wait"
        /\ loop'.pClient = c /\ loop'.kind = loop.kind /\ loop'.idx = loop.idx
        /\ loop'.pc = IF IsConnected(c) THEN "discover" ELSE "connect"
    BY <1>0, <1>5 DEF CheckConnected, Loop
  <2>2. UNCHANGED client
    BY <2>1 DEF UnchangedExceptLoop
  <2>3. Doomed => Doomed'
    BY <2>1, <2>2 DEF Doomed, IsConnected
  <2>4. FirstTried => FirstTried'
    BY <2>1, <2>2 DEF FirstTried, IsConnected
  <2> QED
    BY <2>1, <2>3, <2>4, MovedOn
<1>6. CASE ConnectRefused
  <2>1. /\ UnchangedExceptLoop
        /\ loop.pc = "connect" /\ loop'.pc = "connectFailed"
        /\ client[c].state # "free" /\ InRange
        /\ IsConnected(c) \/ LinkedTo(At)
    BY <1>0, <1>6 DEF ConnectRefused, Loop
  <2>2. ~(Unbacked /\ FirstTried)
    <3> SUFFICES ASSUME Unbacked, FirstTried PROVE FALSE
      OBVIOUS
    <3>1. Known(At) /\ \A s : ~Awaited(s)
      BY <2>1, StartsKnown DEF BackedOrRetried, Retrying, Awaited
    <3>2. LinkedTo(At)
      BY <2>1 DEF FirstTried
    <3> QED
      BY <3>1, <3>2 DEF LinkedTo, Unbacked, Backed
  <2> QED
    BY <2>1, <2>2, MovedOn DEF Doomed
<1>7. CASE ConnectStarts
  <2>1. /\ c \in Clients /\ loop.pc = "connect" /\ InRange
        /\ client[c].state = "idle"
        /\ client' = [client EXCEPT ![c].peer = At]
        /\ UNCHANGED <<advDevices, devices, doConnect, numberOfConnected,
                       failCount, mainFailCount, lastScan>>
    BY <1>7 DEF ConnectStarts, LinkInv, HasClient
  <2>2. /\ client'[c].state = "idle"
        /\ \A t \in Clients : t # c => client'[t] = client[t]
    BY <1>0, <2>1 DEF Pool, Client
  <2>3. /\ loop'.kind = loop.kind /\ loop'.idx = loop.idx /\ loop'.pClient = c
        /\ \/ loop'.pc = "wait" /\ loop'.target = At /\ gap' = "conn"
           \/ loop'.pc = "connectFailed" /\ (gap' = gap \/ gap' = "idle")
    <3>1. CASE gap' = "conn" /\ loop' = [loop EXCEPT !.pc = "wait", !.target = At]
      BY <1>0, <3>1 DEF Loop
    <3>2. CASE /\ loop' = [loop EXCEPT !.pc = "connectFailed"]
               /\ gap' = gap \/ gap' = "idle"
      <4>1. loop'.pc = "connectFailed" /\ loop'.kind = loop.kind
            /\ loop'.idx = loop.idx /\ loop'.pClient = c
        BY <1>0, <3>2 DEF Loop
      <4> QED
        BY <3>2, <4>1
    <3> QED
      BY <1>7, <3>1, <3>2 DEF ConnectStarts
  <2> SUFFICES ASSUME Unbacked' PROVE Retrying'
    BY DEF BackedOrRetried
  <2>4. \A s \in Clients : IsConnected(s) /\ ~Awaited(s) =>
            IsConnected(s)' /\ client'[s].peer = client[s].peer /\ ~Awaited(s)'
    BY <2>1, <2>2, <2>3 DEF IsConnected, Awaited
  <2>5. Unbacked
    BY <2>1, <2>4, SameFlags, StillBacked, StillUnbacked DEF Doomed
  <2>6. Retrying /\ Known(At)
    BY <2>1, <2>5, StartsKnown DEF BackedOrRetried, Retrying
  <2>7. AllKnown'
    BY <2>1, <2>6, SameFlags, StillKnown DEF Retrying
  <2>8. SlotLeft'
    BY <2>1, <2>2 DEF SlotLeft, IsConnected
  <2>9. FirstTried => FirstTried'
    BY <2>1, <2>2, <2>3 DEF FirstTried, IsConnected
  <2>10. loop'.pc = "wait" => Known(loop.target)'
    <3> SUFFICES ASSUME loop'.pc = "wait" PROVE Known(loop.target)'
      OBVIOUS
    <3>1. loop'.target = At
      BY <2>3
    <3> QED
      BY <2>1, <2>6, <3>1 DEF Known, KindOf
  <2> QED
    BY <2>1, <2>3, <2>6, <2>7, <2>8, <2>9, <2>10 DEF Retrying
<1>8. CASE ConnectResumes
  <2> SUFFICES ASSUME Unbacked' PROVE FALSE
    BY DEF BackedOrRetried
  <2>1. /\ loop.pc = "wait" /\ c \in Clients
        /\ UNCHANGED <<advDevices, numberOfConnected, failCount, mainFailCount, lastScan>>
    BY <1>8 DEF ConnectResumes, LinkInv, HasClient
  <2>2. CASE IsConnected(c)
    <3>1. /\ UNCHANGED <<client, devices>>
          /\ loop'.pc = "onConnect" /\ loop'.pClient = c
      BY <1>0, <1>8, <2>2 DEF ConnectResumes, Loop
    <3>2. \A s \in Clients : IsConnected(s) /\ ~Awaited(s) =>
              IsConnected(s)' /\ client'[s].peer = client[s].peer /\ ~Awaited(s)'
      BY <3>1 DEF IsConnected, Awaited
    <3>3. Unbacked
      BY <2>1, <3>1, <3>2, SameFlags, StillBacked, StillUnbacked DEF Doomed
    <3>4. Known(loop.target) /\ client[c].peer = loop.target
      BY <2>1, <3>3 DEF BackedOrRetried, Retrying, CountInv
    <3>5. Known(client[c].peer)
      BY <3>4 DEF Known, KindOf
    <3>6. Backed'
      BY <2>1, <2>2, <3>1, <3>5 DEF Backed, IsConnected, Known, KindOf, Awaited
    <3> QED
      BY <3>6 DEF Unbacked
  <2>3. CASE ~IsConnected(c)
    <3>1. /\ client' = [client EXCEPT ![c] = FreeClient]
          /\ loop'.pc = "connectFailed" /\ loop'.pClient = c
      BY <1>0, <1>8, <2>3 DEF ConnectResumes, Loop
    <3>2. client'[c].state = "free"
      BY <1>0, <2>1, <3>1 DEF FreeClient, Pool
    <3> QED
      BY <3>1, <3>2 DEF Unbacked, Doomed
  <2> QED
    BY <2>2, <2>3
<1>9. CASE ConnectTimesOut
  <2>1. /\ c \in Clients
        /\ client' = [client EXCEPT ![c] = FreeClient]
        /\ loop'.pc = "connectFailed" /\ loop'.pClient = c
    BY <1>0, <1>9 DEF ConnectTimesOut, LinkInv, HasClient, Loop
  <2>2. client'[c].state = "free"
    BY <1>0, <2>1 DEF FreeClient, Pool
  <2> QED
    BY <2>1, <2>2 DEF BackedOrRetried, Unbacked, Doomed
<1>10. CASE OnConnect
  <2> DEFINE p == loop.target
  <2> SUFFICES ASSUME Unbacked' PROVE Retrying'
    BY DEF BackedOrRetried
  <2>1. /\ loop.pc = "onConnect" /\ c \in Clients
        /\ loop'.pc = "connectReturns" /\ loop'.pClient = c
        /\ UNCHANGED <<gap, client, advDevices, doConnect, failCount,
                       mainFailCount, lastScan>>
    BY <1>0, <1>10 DEF OnConnect, LinkInv, HasClient, Loop
  <2>2. client[c].state # "idle" /\ (IsConnected(c) => client[c].peer = p)
    BY <2>1 DEF CountInv
  <2>3. IsConnected(c)
    <3>1. client[c].state # "free"
      BY <2>1 DEF Unbacked, Doomed
    <3> QED
      BY <1>0, <2>1, <2>2, <3>1 DEF IsConnected, Pool, Client
  <2>4. ~Known(p)
    <3> SUFFICES ASSUME Known(p) PROVE FALSE
      OBVIOUS
    <3>1. KeepsFlags(devices, devices')
      BY <1>0, <1>10, SetConnectedRaises DEF OnConnect
    <3> HIDE DEF p
    <3>2. \E i \in DOMAIN devices'[KindOf(p)] : devices'[KindOf(p)][i].peer = p
      BY <3>1, KindOfType DEF KeepsFlags, Known
    <3>3. Known(client[c].peer)'
      BY <2>1, <2>2, <2>3, <3>2 DEF Known, KindOf
    <3>4. Backed'
      BY <2>1, <2>3, <3>3 DEF Backed, IsConnected, Awaited
    <3> QED
      BY <3>4 DEF Unbacked
  <2>5. UNCHANGED <<devices, numberOfConnected>>
    BY <1>10, <2>4 DEF OnConnect
  <2>6. UnchangedExceptLoop
    BY <2>1, <2>5 DEF UnchangedExceptLoop
  <2>7. ~Doomed /\ ~FirstTried
    BY <2>1 DEF Doomed, FirstTried
  <2> QED
    BY <2>1, <2>6, <2>7, MovedOn DEF BackedOrRetried
<1>11. CASE ConnectReturns
  <2>1. /\ UnchangedExceptLoop
        /\ loop.pc = "connectReturns" /\ loop'.pc # "wait"
        /\ loop'.pClient = c
        /\ ~IsConnected(c) => loop'.pc = "connectFailed"
    BY <1>0, <1>11 DEF ConnectReturns, Loop
  <2>2. UNCHANGED client
    BY <2>1 DEF UnchangedExceptLoop
  <2>3. Doomed => Doomed'
    BY <2>1, <2>2 DEF Doomed, IsConnected
  <2>4. ~FirstTried
    BY <2>1 DEF FirstTried
  <2> QED
    BY <2>1, <2>3, <2>4, MovedOn
<1>12. CASE ReconnectFailed
  <2> SUFFICES ASSUME Unbacked' PROVE Retrying'
    BY DEF BackedOrRetried
  <2>1. /\ loop.pc = "connectFailed" /\ loop.via = "reconnect"
        /\ loop'.pc = "check" /\ loop'.pClient = c
        /\ loop'.kind = loop.kind /\ loop'.idx = loop.idx
        /\ failCount' = failCount \/ failCount' = Bump(failCount, FAIL_LIMIT)
        /\ UNCHANGED <<gap, client, advDevices, devices, doConnect,
                       numberOfConnected, mainFailCount, lastScan>>
    BY <1>0, <1>12 DEF ReconnectFailed, Loop
  <2>2. \A s : ~Awaited(s) /\ ~Awaited(s)'
    BY <2>1 DEF Awaited
  <2>3. Backed => Backed'
    BY <2>1, <2>2, SameFlags, StillBacked DEF IsConnected
  <2>4. Doomed => Doomed'
    BY <2>1 DEF Doomed
  <2>5. Unbacked
    BY <2>1, <2>3, <2>4, StillUnbacked
  <2>6. Retrying
    BY <2>5 DEF BackedOrRetried
  <2>7. AllKnown'
    BY <2>1, <2>6, SameFlags, StillKnown DEF Retrying
  <2>8. SlotLeft'
    BY <2>1, <2>2, <2>6 DEF Retrying, SlotLeft, IsConnected
  <2>9. FirstTried => FirstTried'
    BY <2>1 DEF FirstTried, IsConnected
  <2> QED
    BY <2>1, <2>6, <2>7, <2>8, <2>9 DEF Retrying
<1>13. CASE ConnectFailed \/ DiscoveryFails
  <2>1. \E devs : Fail(devs)
    BY <1>13 DEF ConnectFailed, DiscoveryFails
  <2> QED
    BY <2>1, FailBacked DEF BackedOrRetried
<1>14. CASE Discovered
  <2> SUFFICES ASSUME Unbacked' PROVE Retrying'
    BY DEF BackedOrRetried
  <2>1. /\ loop.pc = "discover" /\ loop'.pc = "each"
        /\ devices' = devices \/ devices' = WithChr(c)
        /\ UNCHANGED <<gap, client, advDevices, doConnect, numberOfConnected,
                       failCount, mainFailCount, lastScan>>
    BY <1>0, <1>14, ConnectLocations DEF Discovered, FromTo
  <2>2. KeepsFlags(devices, devices')
    BY <1>0, <2>1, SameFlags, WithChrKeeps
  <2>3. \A s : ~Awaited(s) /\ ~Awaited(s)'
    BY <2>1 DEF Awaited
  <2>4. Unbacked
    BY <2>1, <2>2, <2>3, StillBacked, StillUnbacked DEF IsConnected, Doomed
  <2>5. Retrying /\ ~FirstTried
    BY <2>1, <2>4 DEF BackedOrRetried, FirstTried
  <2>6. AllKnown'
    BY <2>1, <2>2, <2>5, StillKnown DEF Retrying
  <2>7. SlotLeft'
    BY <2>1, <2>3, <2>5 DEF Retrying, SlotLeft, IsConnected
  <2> QED
    BY <2>1, <2>5, <2>6, <2>7 DEF Retrying
<1>15. CASE Summary
  <2>1. UnchangedExceptLoop /\ loop.pc = "summary" /\ loop'.pc # "wait"
    BY <1>0, <1>15, ConnectLocations DEF Summary, FromTo
  <2>2. ~Doomed /\ ~FirstTried
    BY <2>1 DEF Doomed, FirstTried
  <2> QED
    BY <2>1, <2>2, MovedOn
<1> QED
  BY <1>1, <1>2, <1>3, <1>4, <1>5, <1>6, <1>7, <1>8, <1>9, <1>10, <1>11,
     <1>12, <1>13, <1>14, <1>15 DEF ConnectStep

\* Every step.
LEMMA NextBacked ==
    TypeOK /\ ScanInv /\ RoundInv /\ LinkInv /\ CountInv /\ BackedOrRetried
        /\ [Next]_vars => BackedOrRetried'
<1> SUFFICES ASSUME TypeOK, ScanInv, RoundInv, LinkInv, CountInv, BackedOrRetried,
                    [Next]_vars
             PROVE  BackedOrRetried'
  OBVIOUS
<1>1. CASE HostStep
  BY <1>1, HostBacked
<1>2. CASE ConnectStep
  BY <1>2, ConnectBacked
<1>3. CASE TakeConnect \/ TakeConnectThermo
  <2> SUFFICES ASSUME Unbacked' PROVE Retrying'
    BY DEF BackedOrRetried
  <2>1. PICK k \in Kinds : Enter(k) /\ loop.pc = IF k = "bms" THEN "top" ELSE "thermo"
    BY <1>3 DEF TakeConnect, TakeConnectThermo, Kinds
  <2>2. /\ loop'.pc = "each" /\ loop'.kind = k /\ loop'.idx = 1 /\ loop'.pClient = Null
        /\ doConnect' = [doConnect EXCEPT ![k] = FALSE]
        /\ UNCHANGED <<gap, client, advDevices, devices, numberOfConnected,
                       failCount, mainFailCount, lastScan>>
    BY <2>1 DEF Enter, AtTop
  <2>3. \A s : ~Awaited(s) /\ ~Awaited(s)'
    BY <2>1, <2>2 DEF Awaited
  <2>4. Unbacked
    BY <2>1, <2>2, <2>3, SameFlags, StillBacked, StillUnbacked DEF IsConnected, Doomed
  <2>5. Retrying /\ doConnect["bms"]
    BY <2>1, <2>4 DEF BackedOrRetried, Retrying, FirstTried
  <2>6. AllKnown'
    BY <2>2, <2>5, SameFlags, StillKnown DEF Retrying
  <2>7. SlotLeft'
    BY <2>2, <2>3, <2>5 DEF Retrying, SlotLeft, IsConnected
  <2>8. CASE k = "bms"
    <3>1. FirstTried'
      BY <2>2, <2>8 DEF FirstTried
    <3> QED
      BY <2>2, <2>5, <2>6, <2>7, <3>1 DEF Retrying
  <2>9. CASE k # "bms"
    <3>1. doConnect'["bms"]
      BY <2>2, <2>5, <2>9 DEF TypeOK, Kinds
    <3> QED
      BY <2>2, <2>5, <2>6, <2>7, <3>1 DEF Retrying
  <2> QED
    BY <2>8, <2>9
<1>4. CASE NoBmsToConnect \/ NoThermoToConnect
  <2>1. UnchangedExceptLoop /\ loop.pc \in {"top", "thermo"} /\ loop'.pc \in {"top", "thermo"}
    BY <1>4, LoopLocations
    DEF NoBmsToConnect, NoThermoToConnect, UnchangedExceptLoop, FromTo
  <2>2. ~Doomed /\ ~FirstTried
    BY <2>1 DEF Doomed, FirstTried
  <2> QED
    BY <2>1, <2>2, MovedOn
<1>5. CASE MainFail
  <2> SUFFICES ASSUME Unbacked' PROVE FALSE
    BY DEF BackedOrRetried
  <2>1. mainFailCount' <= FAIL_LIMIT_MAIN
    <3>1. mainFailCount' \in 0 .. FAIL_LIMIT_MAIN + 1
      BY <1>5, BumpTypes DEF MainFail
    <3> QED
      BY <3>1, SessionAssumption DEF Unbacked, Hopeful, GivenUp
  <2>2. ~Counted'
    BY <1>5, <2>1 DEF MainFail, WithinMainLimit, ClearResources, Counted
  <2> QED
    BY <2>2 DEF Unbacked
<1>6. CASE Rescan
  <2>1. ~Counted /\ UNCHANGED numberOfConnected
    BY <1>6 DEF Rescan, CountInv
  <2> QED
    BY <2>1 DEF BackedOrRetried, Unbacked, Counted
<1>7. CASE Wild
  <2>1. loop'.pc = "wild"
    BY <1>7, LoopLocations DEF FromTo
  <2> QED
    BY <2>1 DEF BackedOrRetried, Unbacked, Doomed
<1>8. CASE Panic \/ DailyReset
  <2>1. ~Counted'
    BY <1>8 DEF Panic, DailyReset, Reboot, Counted
  <2> QED
    BY <2>1 DEF BackedOrRetried, Unbacked
<1>9. CASE UNCHANGED vars
  BY <1>9 DEF vars, BackedOrRetried, Unbacked, Counted, Hopeful, GivenUp, Backed,
     IsConnected, Known, Awaited, Doomed, Retrying, AllKnown, SlotLeft, FirstTried,
     Created
<1> QED
  BY <1>1, <1>2, <1>3, <1>4, <1>5, <1>6, <1>7, <1>8, <1>9 DEF Next, LoopStep

-----------------------------------------------------------------------------
(* Armed *)

\* Every step.  Outside the connect functions the host task disarms recovery
\* by the end of a scan or by a lost link only, and then it sets doConnect,
\* scans again or gives up.
LEMMA NextArmed ==
    TypeOK /\ ScanInv /\ Armed /\ [Next]_vars => Armed'
<1> SUFFICES ASSUME TypeOK, ScanInv, Armed, [Next]_vars,
                    loop'.pc \in {"top", "thermo"}
             PROVE  \/ gap' = "scan"
                    \/ \E k \in Kinds : doConnect'[k]
                    \/ Counted'
                    \/ GivenUp'
  BY DEF Armed
<1>0. loop \in Loop
  BY DEF TypeOK
<1>1. CASE HostStep
  <2>1. UNCHANGED loop /\ gap # "conn"
    BY <1>1, HostKeepsLoop DEF ScanInv
  <2>2. CASE ScanEnd
    <3>1. CASE advDevices["bms"] = <<>>
      BY <2>2, <3>1 DEF ScanEnd, GivenUp
    <3>2. CASE advDevices["bms"] # <<>>
      <4>1. doConnect'["bms"]
        BY <2>2, <3>2 DEF ScanEnd, Kinds
      <4> QED
        BY <4>1 DEF Kinds
    <3> QED
      BY <3>1, <3>2
  <2>3. ASSUME NEW s \in Clients, Disconnect(s), Known(client[s].peer)
        PROVE  gap' = "scan" \/ GivenUp'
    BY <2>1, <2>3 DEF Disconnect, AfterScanStart, ScanAskedFor, GivenUp
  <2>4. ASSUME NEW s \in Clients, Disconnect(s), ~Known(client[s].peer)
        PROVE  UNCHANGED <<gap, doConnect, numberOfConnected, mainFailCount, lastScan>>
    BY <2>4 DEF Disconnect
  <2>5. CASE (\E p \in Peers : ScanResult(p)) \/ EstablishmentFails
    BY <2>1, <2>5 DEF ScanResult, EstablishmentFails, Armed, Counted, GivenUp
  <2>6. CASE CancelledAttemptEnds
    BY <2>1, <2>6 DEF CancelledAttemptEnds, Armed, Counted, GivenUp
  <2>7. ~LinkUp /\ ~AttemptFails
    BY <2>1 DEF LinkUp, AttemptFails
  <2> QED
    BY <1>1, <2>1, <2>2, <2>3, <2>4, <2>5, <2>6, <2>7
    DEF HostStep, Armed, Counted, GivenUp
<1>2. CASE ConnectStep
  <2>1. Summary
    BY <1>0, <1>2, ConnectLocations DEF ConnectStep, FromTo
  <2>2. /\ numberOfConnected[loop.kind] > 0
        /\ UNCHANGED numberOfConnected
    BY <2>1 DEF Summary, AtTop, UnchangedExceptLoop
  <2>3. loop.kind \in Kinds
    BY <1>0 DEF Loop
  <2> QED
    BY <2>2, <2>3 DEF Counted
<1>3. CASE TakeConnect \/ TakeConnectThermo \/ Wild
  BY <1>3, LoopLocations DEF FromTo
<1>4. CASE NoBmsToConnect \/ NoThermoToConnect
  BY <1>4 DEF NoBmsToConnect, NoThermoToConnect, Armed, Counted, GivenUp
<1>5. CASE MainFail
  <2>1. [AtTop EXCEPT !.pc = "rescan", !.kind = loop.kind].pc = "rescan"
    BY DEF AtTop
  <2>2. ~WithinMainLimit(mainFailCount')
    BY <1>5, <2>1 DEF MainFail
  <2>3. mainFailCount' \in 0 .. FAIL_LIMIT_MAIN + 1
    BY <1>5, BumpTypes DEF MainFail
  <2> QED
    BY <2>2, <2>3, SessionAssumption DEF WithinMainLimit, GivenUp
<1>6. CASE Rescan
  BY <1>6 DEF Rescan, AfterScanStart, ScanAskedFor, ScanInv, GivenUp
<1>7. CASE Panic \/ DailyReset
  BY <1>7 DEF Panic, DailyReset, Reboot
<1>8. CASE UNCHANGED vars
  BY <1>8 DEF vars, Armed, Counted, GivenUp
<1> QED
  BY <1>1, <1>2, <1>3, <1>4, <1>5, <1>6, <1>7, <1>8 DEF Next, LoopStep

\* Recovery is not lost between the two tasks: whenever loop() is outside the
\* connect functions, a scan runs, found devices wait to be connected, a link
\* is there whose end will scan again, or the firmware has given up; only past
\* FAIL_LIMIT failures may a device that was counted without a link stand in
\* for them.  For any number of devices, clients and failures.
THEOREM RecoveryNeverLost == Spec => []RecoveryArmed
<1>1. Init => CountInv /\ BackedOrRetried /\ Armed
  <2> SUFFICES ASSUME Init PROVE CountInv /\ BackedOrRetried /\ Armed
    OBVIOUS
  <2>1. ~Counted /\ loop.pc = "top" /\ gap = "scan"
    BY DEF Init, Counted, AtTop
  <2> QED
    BY <2>1 DEF CountInv, BackedOrRetried, Unbacked, Armed, Waiting
<1>2. TypeOK /\ ScanInv /\ LinkInv /\ [Next]_vars => LinkInv'
  BY NextLinks DEF LinkStep
<1>3. Spec => []ScanInv
  BY TypeCorrect, InitScanInv, NextScanInv, PTL DEF Spec
<1>4. Spec => []RoundInv
  BY TypeCorrect, InitRoundInv, NextRoundInv, PTL DEF Spec
<1>5. Spec => []LinkInv
  BY <1>2, <1>3, TypeCorrect, InitLinks, PTL DEF Spec
<1>6. Spec => []CountInv
  BY <1>1, <1>3, <1>5, TypeCorrect, NextCount, PTL DEF Spec
<1>7. Spec => []BackedOrRetried
  BY <1>1, <1>3, <1>4, <1>5, <1>6, TypeCorrect, NextBacked, PTL DEF Spec
<1>8. Spec => []Armed
  BY <1>1, <1>3, TypeCorrect, NextArmed, PTL DEF Spec
<1> QED
  BY <1>7, <1>8, ArmedIsRecovery, TypeCorrect, PTL
=============================================================================
