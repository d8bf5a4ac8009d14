---------------------------- MODULE MqttReconnect ----------------------------
(***************************************************************************)
(* The connection to the MQTT server: publish() and publishJson() find it  *)
(* lost and call reConnectMqttServer, which tries the servers of the       *)
(* configuration, announces itself with publish() -- which may find the    *)
(* new connection lost, and call it again -- and subscribes to the topics  *)
(* of the commands.                                                        *)
(*                                                                         *)
(* All calls come from one task.  An activation of reConnectMqttServer     *)
(* that waits for a nested one has nothing left to do but to subscribe and *)
(* to return, so the number of them is all that is kept of the stack.      *)
(***************************************************************************)
EXTENDS Integers, FiniteSets

CONSTANTS
    Topics,     \* number of command topics: the controller's, and one per device
    Servers,    \* length of mqttServerArr
    MaxLosses   \* bound on the connections lost between two messages of loop()

ASSUME MqttAssumption ==
    Topics \in Nat \ {0} /\ Servers \in Nat \ {0} /\ MaxLosses \in Nat

VARIABLES
    pc,         \* where the task is
    ha,         \* publishHaDiscovery: messages published in setup()
    caller,     \* "setup" or "loop": who called publish
    wifi,       \* "up", "lost" or "off" (by WiFi.disconnect())
    connected,  \* mqttClient->connected()
    subs,       \* topics the server has subscriptions for in this connection
    done,       \* subscribe() calls made by the running activation
    i, j,       \* its count of tries and its index of the server
    depth,      \* activations that wait for a nested one
    mqttDisabled,
    losses      \* connections lost since loop() last sent a message

vars == <<pc, ha, caller, wifi, connected, subs, done, i, j, depth,
          mqttDisabled, losses>>

\* Types; the failures i and the host j of a reconnection stay in their
\* ranges, through nested calls and an MQTT server that comes and goes.
TypeOK ==
    /\ pc \in {"idle", "try", "failed", "announce", "subscribe", "shutdown"}
    /\ ha \in 0 .. Topics
    /\ caller \in {"setup", "loop"}
    /\ wifi \in {"up", "lost", "off"}
    /\ connected \in BOOLEAN
    /\ subs \in SUBSET (1 .. Topics)
    /\ done \in 0 .. Topics
    /\ i \in 1 .. 6
    /\ j \in 0 .. 5
    /\ depth \in Nat
    /\ mqttDisabled \in BOOLEAN
    /\ losses \in 0 .. MaxLosses

\* setup(), when MyWiFi::setup has connected
Init ==
    /\ pc = "idle" /\ ha = 0 /\ caller = "setup"
    /\ wifi = "up" /\ connected = FALSE /\ subs = {}
    /\ done = 0 /\ i = 1 /\ j = 0 /\ depth = 0
    /\ mqttDisabled = FALSE
    /\ losses = 0

-----------------------------------------------------------------------------
(* The network *)

ServerLost ==
    /\ connected
    /\ losses < MaxLosses
    /\ connected' = FALSE
    /\ losses' = losses + 1
    /\ UNCHANGED <<pc, ha, caller, wifi, subs, done, i, j, depth, mqttDisabled>>

WiFiLost ==
    /\ wifi = "up"
    /\ losses < MaxLosses
    /\ wifi' = "lost"
    /\ connected' = FALSE
    /\ losses' = losses + 1
    /\ UNCHANGED <<pc, ha, caller, subs, done, i, j, depth, mqttDisabled>>

\* the driver reconnects by itself, unless disconnect() was called
WiFiBack ==
    /\ wifi = "lost"
    /\ wifi' = "up"
    /\ UNCHANGED <<pc, ha, caller, connected, subs, done, i, j, depth,
                   mqttDisabled, losses>>

-----------------------------------------------------------------------------
(* reConnectMqttServer *)

\* Its first lines: one attempt to get the WiFi back, and the locals.
Enter ==
    /\ wifi' \in IF wifi = "up" THEN {"up"} ELSE {"up", wifi}
    /\ i' = 1
    /\ j' = 0
    /\ pc' = "try"

\* Connecting to mqttServerArr[j], which is "null" beyond the end.  The session
\* is a clean one: the server knows no subscription of it.
ConnectOk ==
    /\ pc = "try"
    /\ wifi = "up" /\ j < Servers
    /\ connected' = TRUE
    /\ subs' = {}
    /\ pc' = "announce"
    /\ UNCHANGED <<ha, caller, wifi, done, i, j, depth, mqttDisabled, losses>>

\* mutants: another comparison in the choice of the server, and no last try
NextServerEachTime == i >= 3
NeverGivesUp == FALSE

SecondServer == i = 3
GivesUp == i = 5

ConnectFails ==
    /\ pc = "try"
    /\ mqttDisabled' = (mqttDisabled \/ GivesUp)
    /\ pc' = IF GivesUp THEN "shutdown" ELSE "failed"
    /\ UNCHANGED <<ha, caller, wifi, connected, subs, done, i, j, depth, losses>>

\* M5.shutdown(1): the power goes, and comes back after a second; or it stays.
PowerOff ==
    /\ pc = "shutdown"
    /\ pc' = "idle" /\ ha' = 0 /\ caller' = "setup"
    /\ wifi' = "up" /\ connected' = FALSE /\ subs' = {}
    /\ done' = 0 /\ i' = 1 /\ j' = 0 /\ depth' = 0
    /\ mqttDisabled' = FALSE
    /\ UNCHANGED losses

PowerStays ==
    /\ pc = "shutdown"
    /\ pc' = "failed"
    /\ UNCHANGED <<ha, caller, wifi, connected, subs, done, i, j, depth,
                   mqttDisabled, losses>>

\* the rest of the branch, with the delay; i is not told apart beyond 6
TryAgain ==
    /\ pc = "failed"
    /\ j' = IF SecondServer THEN j + 1 ELSE j
    /\ i' = IF i < 6 THEN i + 1 ELSE 6
    /\ pc' = "try"
    /\ UNCHANGED <<ha, caller, wifi, connected, subs, done, depth, mqttDisabled,
                   losses>>

\* mutant: the announcement calls reConnectMqttServer whatever connected() says
AlwaysNested == ~mqttDisabled

FoundLost == ~mqttDisabled /\ ~connected

\* publish("stat/...STATE", "MQTT reconnected"), before the subscriptions
Announce ==
    /\ pc = "announce"
    /\ ~FoundLost
    /\ pc' = "subscribe"
    /\ done' = 0
    /\ UNCHANGED <<ha, caller, wifi, connected, subs, i, j, depth, mqttDisabled,
                   losses>>

AnnounceNested ==
    /\ pc = "announce"
    /\ FoundLost
    /\ Enter
    /\ depth' = depth + 1
    /\ UNCHANGED <<ha, caller, connected, subs, done, mqttDisabled, losses>>

\* mutant: the subscriptions are made in setup() and never again
OnlyInSetup == done = Topics \/ caller = "loop"

Subscribed == done = Topics

\* subscribe() has no effect, and no one looks, when the connection is lost
Subscribe ==
    /\ pc = "subscribe"
    /\ ~Subscribed
    /\ done' = done + 1
    /\ subs' = IF connected THEN subs \cup {done'} ELSE subs
    /\ UNCHANGED <<pc, ha, caller, wifi, connected, i, j, depth, mqttDisabled,
                   losses>>

\* The activation returns: to the publish() of the one that waits for it,
\* which subscribes next, or to the caller.
Return ==
    /\ pc = "subscribe"
    /\ Subscribed
    /\ done' = 0
    /\ IF depth > 0 THEN depth' = depth - 1 /\ pc' = pc
                    ELSE depth' = depth /\ pc' = "idle"
    /\ UNCHANGED <<ha, caller, wifi, connected, subs, i, j, mqttDisabled, losses>>

ReConnect == \/ ConnectOk \/ ConnectFails \/ PowerOff \/ PowerStays \/ TryAgain
             \/ Announce \/ AnnounceNested \/ Subscribe \/ Return

-----------------------------------------------------------------------------
(* The callers *)

\* setup() looks at connected() itself; every later caller is a publish.
Publish ==
    /\ pc = "idle"
    /\ FoundLost
    /\ Enter
    /\ UNCHANGED <<ha, caller, connected, subs, done, depth, mqttDisabled, losses>>

\* publishHaDiscovery: one message for each device
HaDiscovery ==
    /\ pc = "idle" /\ caller = "setup"
    /\ ~FoundLost
    /\ ha < Topics
    /\ ha' = ha + 1
    /\ UNCHANGED <<pc, caller, wifi, connected, subs, done, i, j, depth,
                   mqttDisabled, losses>>

\* a message of loop() is sent, or not even tried
LoopSends ==
    /\ pc = "idle" /\ caller = "loop"
    /\ ~FoundLost
    /\ losses' = 0
    /\ UNCHANGED <<pc, ha, caller, wifi, connected, subs, done, i, j, depth,
                   mqttDisabled>>

\* the end of setup(), after updatePOI: WiFi.disconnect(), and loop() begins
SetupEnd ==
    /\ pc = "idle" /\ caller = "setup"
    /\ ha = Topics
    /\ caller' = "loop"
    /\ wifi' = "off"
    /\ connected' = FALSE
    /\ UNCHANGED <<pc, ha, subs, done, i, j, depth, mqttDisabled, losses>>

Task == ReConnect \/ Publish \/ HaDiscovery \/ LoopSends \/ SetupEnd

Next == Task \/ ServerLost \/ WiFiLost \/ WiFiBack

\* The task runs on: no message blocks it, and the timers of loop() make it
\* publish again and again (LoopTimers).  Nothing is assumed of the network.
Spec == Init /\ [][Next]_vars /\ WF_vars(Task)

-----------------------------------------------------------------------------
(* Properties *)

\* Whatever was lost while an activation subscribed, and however activations
\* nested: outside of them, a connection that stands has every subscription,
\* so no command topic is deaf.
CommandsHeard == pc = "idle" /\ connected => subs = 1 .. Topics

\* Every server that is tried is one of the configuration, if that has two:
\* the index moves once in an activation, and starts again in the next.
ServerConfigured == pc = "try" /\ Servers >= 2 => j < Servers

\* Activations nest through publish(), on the stack of the loop task; but each
\* of them has cost a connection that was lost after it had been established.
NestedByLoss == depth <= losses

\* An outage does not go on in silence: after it, the connection is there
\* again, or five tries have failed and M5.shutdown(1) has been called.
OutageEnds == (pc = "idle" /\ ~connected /\ ~mqttDisabled)
              ~> (connected \/ mqttDisabled)

Outage == ~connected /\ ~mqttDisabled

\* The steps of the task that are left of an outage: to return from the
\* activations that wait, to publish, and to fail five times.
StepsLeft ==
    CASE pc = "try"       -> 11 - 2 * i
      [] pc = "failed"    -> 10 - 2 * i
      [] pc = "announce"  -> 10
      [] pc = "idle"      -> IF caller = "setup" THEN 11 ELSE 10
      [] pc = "subscribe" -> 12 + depth * (Topics + 1) + (Topics - done)
      [] OTHER            -> 0

\* Why it ends: every step of the task brings the end of the outage nearer, and
\* nothing that the network does puts it off, whatever is nested
\* (MyMqtt.cpp, reConnectMqttServer).
OutageCountsDown ==
    [][Outage /\ Outage' =>
          /\ StepsLeft' \in Nat
          /\ StepsLeft' <= StepsLeft
          /\ Task => StepsLeft' < StepsLeft]_vars
=============================================================================
