------------------------- MODULE MqttReconnect_proofs -------------------------
(***************************************************************************)
(* reConnectMqttServer, for any number of topics and servers and whatever  *)
(* the network does.                                                       *)
(***************************************************************************)
EXTENDS MqttReconnect, TLAPS

\* While an activation subscribes over a connection that stands, the topics it
\* has been through have their subscriptions; when it has returned, all have.
SubsInv == /\ connected /\ pc = "subscribe" => 1 .. done \subseteq subs
           /\ connected /\ pc = "idle" => subs = 1 .. Topics
           /\ pc \in {"try", "failed", "shutdown"} => ~connected

\* The index has moved once after the third failure.
IndexInv == j = IF i > 3 THEN 1 ELSE 0

\* An activation that announces itself over a lost connection has not yet been
\* counted in depth, the loss has.
DepthInv == /\ depth <= losses
            /\ pc = "announce" /\ ~connected => depth < losses
            /\ pc = "idle" => depth = 0

IInv == TypeOK /\ SubsInv /\ IndexInv /\ DepthInv

\* What an empty count or set is within.
LEMMA Bounds == /\ 0 \in 0 .. Topics /\ 0 \in 0 .. MaxLosses
                /\ {} \in SUBSET (1 .. Topics)
  BY MqttAssumption

\* It holds after the boot.
LEMMA InitInv == Init => IInv
<1> SUFFICES ASSUME Init PROVE IInv
  OBVIOUS
<1>1. TypeOK
  <2>1. i \in 1 .. 6 /\ j \in 0 .. 5 /\ depth \in Nat
    BY DEF Init
  <2>2. subs \in SUBSET (1 .. Topics) /\ ha \in 0 .. Topics
        /\ done \in 0 .. Topics /\ losses \in 0 .. MaxLosses
    BY Bounds, Zenon DEF Init
  <2>3. connected \in BOOLEAN /\ mqttDisabled \in BOOLEAN
    BY DEF Init
  <2> QED
    BY <2>1, <2>2, <2>3 DEF Init, TypeOK
<1>2. SubsInv
  BY DEF Init, SubsInv
<1>3. IndexInv /\ DepthInv
  BY DEF Init, IndexInv, DepthInv
<1> QED
  BY <1>1, <1>2, <1>3 DEF IInv

\* The network takes connections away, and gives none.
LEMMA NetworkInv == IInv /\ (ServerLost \/ WiFiLost \/ WiFiBack) => IInv'
<1>1. ASSUME IInv, ServerLost PROVE IInv'
  <2>1. losses' \in 0 .. MaxLosses /\ depth < losses'
        /\ (pc = "idle" => depth = 0)
    BY <1>1, MqttAssumption DEF ServerLost, IInv, TypeOK, DepthInv
  <2>2. TypeOK'
    BY <1>1, <2>1 DEF ServerLost, IInv, TypeOK
  <2>3. SubsInv' /\ IndexInv'
    BY <1>1 DEF ServerLost, IInv, SubsInv, IndexInv
  <2>4. DepthInv'
    BY <1>1, <2>1, MqttAssumption DEF ServerLost, IInv, TypeOK, DepthInv
  <2> QED
    BY <2>2, <2>3, <2>4 DEF IInv
<1>2. ASSUME IInv, WiFiLost PROVE IInv'
  <2>1. losses' \in 0 .. MaxLosses /\ depth < losses'
        /\ (pc = "idle" => depth = 0)
    BY <1>2, MqttAssumption DEF WiFiLost, IInv, TypeOK, DepthInv
  <2>2. TypeOK'
    BY <1>2, <2>1 DEF WiFiLost, IInv, TypeOK
  <2>3. SubsInv' /\ IndexInv'
    BY <1>2 DEF WiFiLost, IInv, SubsInv, IndexInv
  <2>4. DepthInv'
    BY <1>2, <2>1, MqttAssumption DEF WiFiLost, IInv, TypeOK, DepthInv
  <2> QED
    BY <2>2, <2>3, <2>4 DEF IInv
<1>3. CASE WiFiBack
  BY <1>3 DEF WiFiBack, IInv, TypeOK, SubsInv, IndexInv, DepthInv
<1> QED
  BY <1>1, <1>2, <1>3

\* The tries.
LEMMA TryInv == IInv /\ (ConnectOk \/ ConnectFails \/ PowerStays \/ TryAgain) => IInv'
<1>1. CASE ConnectOk
  BY <1>1 DEF ConnectOk, IInv, TypeOK, SubsInv, IndexInv, DepthInv
<1>2. CASE ConnectFails
  BY <1>2 DEF ConnectFails, GivesUp, IInv, TypeOK, SubsInv, IndexInv, DepthInv
<1>3. CASE PowerStays
  BY <1>3 DEF PowerStays, IInv, TypeOK, SubsInv, IndexInv, DepthInv
<1>4. CASE TryAgain
  BY <1>4 DEF TryAgain, SecondServer, IInv, TypeOK, SubsInv, IndexInv, DepthInv
<1> QED
  BY <1>1, <1>2, <1>3, <1>4

\* The announcement, which may nest.
LEMMA AnnounceInv == IInv /\ (Announce \/ AnnounceNested) => IInv'
<1>1. CASE Announce
  BY <1>1, MqttAssumption
     DEF Announce, IInv, TypeOK, SubsInv, IndexInv, DepthInv
<1>2. CASE AnnounceNested
  BY <1>2 DEF AnnounceNested, FoundLost, Enter, IInv, TypeOK, SubsInv, IndexInv, DepthInv
<1> QED
  BY <1>1, <1>2

\* A subscription more.
LEMMA SubscribeInv == IInv /\ Subscribe => IInv'
<1> SUFFICES ASSUME IInv, Subscribe PROVE IInv'
  OBVIOUS
<1>1. done \in Nat /\ done < Topics /\ done' = done + 1 /\ done' \in 1 .. Topics
  BY MqttAssumption DEF Subscribe, Subscribed, IInv, TypeOK
<1>2. TypeOK'
  BY <1>1, MqttAssumption DEF Subscribe, IInv, TypeOK
<1>3. 1 .. done' = (1 .. done) \cup {done'}
  BY <1>1
<1>4. SubsInv'
  BY <1>3 DEF Subscribe, IInv, SubsInv
<1> QED
  BY <1>2, <1>4 DEF Subscribe, IInv, IndexInv, DepthInv

\* The end of an activation: the connection that stands is complete.
LEMMA ReturnInv == IInv /\ Return => IInv'
<1> SUFFICES ASSUME IInv, Return PROVE IInv'
  OBVIOUS
<1>1. done = Topics /\ done' = 0 /\ Topics \in Nat /\ depth \in Nat
  BY MqttAssumption DEF Return, Subscribed, IInv, TypeOK
<1>2. TypeOK'
  BY <1>1 DEF Return, IInv, TypeOK
<1>3. connected => subs = 1 .. Topics
  BY <1>1 DEF Return, IInv, SubsInv, TypeOK
<1>4. 1 .. done' = {}
  BY <1>1
<1>5. SubsInv'
  BY <1>3, <1>4 DEF Return, IInv, SubsInv
<1>6. DepthInv'
  BY <1>1, MqttAssumption DEF Return, IInv, DepthInv, TypeOK
<1> QED
  BY <1>2, <1>5, <1>6 DEF Return, IInv, IndexInv

\* The callers.
LEMMA CallersInv ==
    IInv /\ (Publish \/ HaDiscovery \/ LoopSends \/ SetupEnd \/ PowerOff) => IInv'
<1>1. CASE Publish
  BY <1>1 DEF Publish, FoundLost, Enter, IInv, TypeOK, SubsInv, IndexInv, DepthInv
<1>2. CASE HaDiscovery
  BY <1>2, MqttAssumption
     DEF HaDiscovery, IInv, TypeOK, SubsInv, IndexInv, DepthInv
<1>3. CASE LoopSends
  BY <1>3, MqttAssumption
     DEF LoopSends, IInv, TypeOK, SubsInv, IndexInv, DepthInv
<1>4. CASE SetupEnd
  BY <1>4 DEF SetupEnd, IInv, TypeOK, SubsInv, IndexInv, DepthInv
<1>5. ASSUME IInv, PowerOff PROVE IInv'
  <2>1. TypeOK'
    <3>1. i' \in 1 .. 6 /\ j' \in 0 .. 5 /\ depth' \in Nat
      BY <1>5 DEF PowerOff
    <3>2. subs' \in SUBSET (1 .. Topics) /\ ha' \in 0 .. Topics /\ done' \in 0 .. Topics
      BY <1>5, Bounds, Zenon DEF PowerOff
    <3>3. connected' \in BOOLEAN /\ mqttDisabled' \in BOOLEAN
      BY <1>5 DEF PowerOff
    <3> QED
      BY <1>5, <3>1, <3>2, <3>3 DEF PowerOff, IInv, TypeOK
  <2>2. SubsInv'
    BY <1>5 DEF PowerOff, SubsInv
  <2>3. IndexInv' /\ DepthInv'
    BY <1>5, MqttAssumption DEF PowerOff, IInv, TypeOK, IndexInv, DepthInv
  <2> QED
    BY <2>1, <2>2, <2>3 DEF IInv
<1> QED
  BY <1>1, <1>2, <1>3, <1>4, <1>5

\* Every step keeps the invariant.
LEMMA NextInv == IInv /\ [Next]_vars => IInv'
<1> SUFFICES ASSUME IInv, [Next]_vars PROVE IInv'
  OBVIOUS
<1>1. CASE UNCHANGED vars
  BY <1>1 DEF vars, IInv, TypeOK, SubsInv, IndexInv, DepthInv
<1> QED
  BY <1>1, NetworkInv, TryInv, AnnounceInv, SubscribeInv, ReturnInv, CallersInv
     DEF Next, Task, ReConnect

\* The invariant holds in every state.
LEMMA AlwaysIInv == Spec => []IInv
<1>1. Init => IInv
  BY InitInv
<1>2. IInv /\ [Next]_vars => IInv'
  BY NextInv
<1> QED
  BY <1>1, <1>2, PTL DEF Spec

\* The variables keep their types.
THEOREM MqttTypeOK == Spec => []TypeOK
<1>1. IInv => TypeOK
  BY DEF IInv
<1> QED
  BY <1>1, AlwaysIInv, PTL

\* MyMqtt.cpp:183-197: a connection that stands outside reConnectMqttServer
\* has the subscriptions of all command topics.
THEOREM EveryCommandHeard == Spec => []CommandsHeard
<1>1. IInv => CommandsHeard
  BY DEF IInv, SubsInv, CommandsHeard
<1> QED
  BY <1>1, AlwaysIInv, PTL

\* MyMqtt.cpp:174 and 218: the index stays in mqttServerArr if it has two.
THEOREM ServersConfigured == Spec => []ServerConfigured
<1>1. IInv => ServerConfigured
  BY MqttAssumption DEF IInv, TypeOK, IndexInv, ServerConfigured
<1> QED
  BY <1>1, AlwaysIInv, PTL

\* MyMqtt.cpp:185 and 241: no activation nests without a lost connection.
THEOREM NestingCostsLoss == Spec => []NestedByLoss
<1>1. IInv => NestedByLoss
  BY DEF IInv, DepthInv, NestedByLoss
<1> QED
  BY <1>1, AlwaysIInv, PTL

-----------------------------------------------------------------------------
(* The end of an outage                                                    *)

\* Before it has given up, reConnectMqttServer has not failed five times.
TriesInv == ~mqttDisabled => /\ pc = "try" => i <= 5
                             /\ pc = "failed" => i <= 4
                             /\ pc # "shutdown"

\* It is kept by every step.
LEMMA NextTries == TypeOK /\ TriesInv /\ [Next]_vars => TriesInv'
<1> SUFFICES ASSUME TypeOK, TriesInv, [Next]_vars PROVE TriesInv'
  OBVIOUS
<1>0. i \in 1 .. 6
  BY DEF TypeOK
<1> USE DEF TriesInv
<1>1. CASE ServerLost \/ WiFiLost \/ WiFiBack \/ UNCHANGED vars
  BY <1>1 DEF ServerLost, WiFiLost, WiFiBack, vars
<1>2. CASE ConnectOk \/ PowerOff \/ PowerStays \/ TryAgain
  BY <1>0, <1>2 DEF ConnectOk, PowerOff, PowerStays, TryAgain
<1>5. CASE ConnectFails
  <2>1. CASE GivesUp
    <3>1. mqttDisabled'
      BY <1>5, <2>1 DEF ConnectFails
    <3> QED
      BY <3>1
  <2>2. CASE ~GivesUp
    <3>1. ~mqttDisabled' => ~mqttDisabled
      BY <1>5 DEF ConnectFails
    <3>2. pc = "try" /\ pc' = "failed" /\ UNCHANGED i
      BY <1>5, <2>2 DEF ConnectFails
    <3> QED
      BY <1>0, <2>2, <3>1, <3>2 DEF GivesUp
  <2> QED
    BY <2>1, <2>2
<1>3. CASE Announce \/ AnnounceNested \/ Subscribe \/ Return
  BY <1>3 DEF Announce, AnnounceNested, Enter, Subscribe, Return
<1>4. CASE Publish \/ HaDiscovery \/ LoopSends \/ SetupEnd
  BY <1>4 DEF Publish, Enter, HaDiscovery, LoopSends, SetupEnd
<1> QED
  BY <1>1, <1>2, <1>3, <1>4, <1>5 DEF Next, Task, ReConnect

\* How far a step of the task brings an outage nearer to its end.
LEMMA TaskCounts ==
    ASSUME IInv, TriesInv, Outage, Outage', Task
    PROVE  StepsLeft' \in Nat /\ StepsLeft' < StepsLeft
<1>0. /\ i \in 1 .. 6 /\ depth \in Nat /\ Topics \in Nat
      /\ done \in Nat /\ done <= Topics
  BY MqttAssumption DEF IInv, TypeOK
<1>1. ~connected /\ ~mqttDisabled /\ ~connected' /\ ~mqttDisabled'
  BY DEF Outage
<1> USE DEF StepsLeft
<1>2. CASE ConnectFails
  BY <1>0, <1>1, <1>2 DEF ConnectFails, TriesInv
<1>3. CASE TryAgain
  BY <1>0, <1>1, <1>3 DEF TryAgain, TriesInv
<1>4. CASE AnnounceNested \/ Publish
  BY <1>4 DEF AnnounceNested, Publish, Enter
<1>5. CASE Subscribe
  <2> DEFINE w == depth * (Topics + 1)
  <2>1. w \in Nat
    BY <1>0
  <2>2. pc = "subscribe" /\ done < Topics /\ done' = done + 1
        /\ UNCHANGED <<pc, depth>>
    BY <1>0, <1>5 DEF Subscribe, Subscribed
  <2>3. StepsLeft = 12 + w + (Topics - done) /\ StepsLeft' = 12 + w + (Topics - done')
    BY <2>2
  <2> HIDE DEF w
  <2> QED
    BY <1>0, <2>1, <2>2, <2>3
<1>6. CASE Return
  <2> DEFINE w == depth * (Topics + 1)
             v == (depth - 1) * (Topics + 1)
  <2>1. pc = "subscribe" /\ done = Topics /\ done' = 0 /\ UNCHANGED caller
        /\ \/ depth > 0 /\ depth' = depth - 1 /\ pc' = "subscribe"
           \/ depth = 0 /\ pc' = "idle"
    BY <1>0, <1>6 DEF Return, Subscribed
  <2>2. w \in Nat /\ StepsLeft = 12 + w
    BY <1>0, <2>1
  <2>3. CASE depth > 0 /\ depth' = depth - 1 /\ pc' = "subscribe"
    <3>1. v \in Nat /\ w = v + (Topics + 1)
      BY <1>0, <2>3
    <3>2. StepsLeft' = 12 + v + Topics
      BY <1>0, <2>1, <2>3
    <3> HIDE DEF v, w
    <3> QED
      BY <1>0, <2>2, <3>1, <3>2
  <2>4. CASE depth = 0 /\ pc' = "idle"
    <3>1. StepsLeft' \in {10, 11}
      BY <2>4
    <3> HIDE DEF w
    <3> QED
      BY <2>2, <3>1
  <2> QED
    BY <2>1, <2>3, <2>4
<1>7. CASE SetupEnd
  BY <1>7 DEF SetupEnd
<1>8. CASE ConnectOk \/ PowerOff \/ PowerStays \/ Announce \/ HaDiscovery \/ LoopSends
  BY <1>1, <1>8 DEF ConnectOk, PowerOff, PowerStays, Announce, HaDiscovery,
                    LoopSends, FoundLost, TriesInv
<1> QED
  BY <1>2, <1>3, <1>4, <1>5, <1>6, <1>7, <1>8 DEF Task, ReConnect

\* In an outage the steps left are a natural, and those of the network do not
\* change them.
LEMMA NetworkCounts ==
    ASSUME IInv, TriesInv, Outage, ServerLost \/ WiFiLost \/ WiFiBack
    PROVE  StepsLeft' \in Nat /\ StepsLeft' = StepsLeft
<1>1. UNCHANGED <<pc, i, depth, caller, done>>
  BY DEF ServerLost, WiFiLost, WiFiBack
<1>2. StepsLeft' = StepsLeft
  BY <1>1 DEF StepsLeft
<1>3. /\ i \in 1 .. 6 /\ depth \in Nat /\ Topics \in Nat
      /\ done \in Nat /\ done <= Topics
  BY MqttAssumption DEF IInv, TypeOK
<1>4. StepsLeft \in Nat
  <2>1. depth * (Topics + 1) \in Nat
    BY <1>3
  <2>2. 12 + depth * (Topics + 1) + (Topics - done) \in Nat
    <3> DEFINE w == depth * (Topics + 1)
    <3> HIDE DEF w
    <3>1. w \in Nat => 12 + w + (Topics - done) \in Nat
      BY <1>3
    <3> QED
      BY <2>1, <3>1 DEF w
  <2>3. /\ pc = "try" => 11 - 2 * i \in Nat
        /\ pc = "failed" => 10 - 2 * i \in Nat
    BY <1>3 DEF TriesInv, Outage
  <2> QED
    BY <2>2, <2>3 DEF StepsLeft
<1> QED
  BY <1>2, <1>4

\* OutageEnds without the fairness: the task has a bounded number of steps to do
\* in an outage, whatever the network does, for any number of topics, servers
\* and losses.
THEOREM OutageAlwaysCountsDown == Spec => OutageCountsDown
<1>1. Init => TriesInv
  BY DEF Init, TriesInv
<1>2. IInv => TypeOK
  BY DEF IInv
<1>3. IInv /\ TriesInv /\ [Next]_vars =>
          [Outage /\ Outage' =>
              /\ StepsLeft' \in Nat
              /\ StepsLeft' <= StepsLeft
              /\ Task => StepsLeft' < StepsLeft]_vars
  <2> SUFFICES ASSUME IInv, TriesInv, Next, Outage, Outage'
               PROVE  /\ StepsLeft' \in Nat
                      /\ StepsLeft' <= StepsLeft
                      /\ Task => StepsLeft' < StepsLeft
    OBVIOUS
  <2>1. CASE Task
    <3>1. StepsLeft \in Int
      <4>1. i \in Int /\ depth \in Int /\ Topics \in Int /\ done \in Int
        BY MqttAssumption DEF IInv, TypeOK
      <4>2. 12 + depth * (Topics + 1) + (Topics - done) \in Int
        BY <4>1
      <4>3. 11 - 2 * i \in Int /\ 10 - 2 * i \in Int
        BY <4>1
      <4> QED
        BY <4>2, <4>3 DEF StepsLeft
    <3> QED
      BY <2>1, <3>1, TaskCounts
  <2>2. CASE ~Task
    <3>1. ServerLost \/ WiFiLost \/ WiFiBack
      BY <2>2 DEF Next
    <3> QED
      BY <2>2, <3>1, NetworkCounts
  <2> QED
    BY <2>1, <2>2
<1> QED
  BY <1>1, <1>2, <1>3, AlwaysIInv, NextTries, PTL DEF Spec, OutageCountsDown
=============================================================================
