------------------------------ MODULE BleSession ------------------------------
(***************************************************************************)
(* The Bluetooth session of the bridge: scanning, connecting, losing and   *)
(* recovering the BMS boards and thermometers.                             *)
(*                                                                         *)
(* Two FreeRTOS tasks share every variable below without a lock:           *)
(*                                                                         *)
(*   - the Arduino loop task runs loop() of main.cpp, and inside it        *)
(*     MyNotification::connectToServer() / connectToThermo(), which block  *)
(*     in NimBLEClient::connect() and in service discovery;                *)
(*   - the NimBLE host task delivers MyScanCallbacks::onResult/onScanEnd   *)
(*     and MyClientCallbacks::onDisconnect.                                *)
(*                                                                         *)
(* One callback of the host task is one action.  The loop task is cut at   *)
(* every point where it blocks, calls into NimBLE or re-reads a vector the *)
(* host task writes; loop.pc names the point it is at.                     *)
(*                                                                         *)
(* The two connect functions are one text in the code up to the reconnect  *)
(* branch, the kind of device and the characteristics they look up, so     *)
(* they are one set of actions with loop.kind as the difference.           *)
(***************************************************************************)
EXTENDS Integers, Sequences, FiniteSets

CONSTANTS
    BMS,              \* the battery boards within radio range
    Thermos,          \* the thermometers within radio range
    NoPeer,           \* the null address
    MAX_CONNECTIONS,  \* NIMBLE_MAX_CONNECTIONS: size of the client pool
    FAIL_LIMIT,       \* failures for which connectTo... returns at once
    FAIL_LIMIT_MAIN   \* failed rounds after which loop() rescans

ASSUME SessionAssumption ==
    /\ BMS \cap Thermos = {}
    /\ NoPeer \notin BMS \cup Thermos
    /\ MAX_CONNECTIONS \in Nat \ {0}
    /\ FAIL_LIMIT \in Nat
    /\ FAIL_LIMIT_MAIN \in Nat
    /\ IsFiniteSet(BMS) /\ IsFiniteSet(Thermos)

Kinds == {"bms", "thermo"}
Peers == BMS \cup Thermos
Clients == 1 .. MAX_CONNECTIONS
Null == 0
Dangling == -1

VARIABLES
    gap,               \* GAP master procedure: "idle", "scan", "conn", or
                       \* "cancel": an attempt connect() has given up
    client,            \* the pool NimBLEDevice::m_pClients
    advDevices,        \* advDevices and advThermoDevices
    devices,           \* bleDevices and thermoDevices
    doConnect,         \* doConnect and doConnectThermo
    numberOfConnected, \* numberOfConnectedBMS and numberOfConnectedThermo
    failCount,         \* MyNotification::failCount, up to FAIL_LIMIT + 1
    mainFailCount,     \* failCount of main.cpp, up to FAIL_LIMIT_MAIN + 1
    loop,              \* where the loop task is and its local variables
    lastScan           \* history: what became of the last scan asked for

vars == <<gap, client, advDevices, devices, doConnect, numberOfConnected,
          failCount, mainFailCount, loop, lastScan>>

-----------------------------------------------------------------------------
(* Types and initial values *)

\* A client is not allocated ("free"), disconnected ("idle"), connected
\* ("up"), or connected with its termination requested ("term").
Client == [state : {"free", "idle", "up", "term"}, peer : Peers \cup {NoPeer}]
FreeClient == [state |-> "free", peer |-> NoPeer]

\* An entry of advDevices is a pointer to a scan result; live says whether
\* the object it points to still exists.
Advert == [peer : Peers, live : BOOLEAN]

\* An entry of bleDevices; chr is the client that owns the object pChr_tx
\* points to, Null for nullptr, Dangling when that client was deleted.
Device == [peer : Peers, connected : BOOLEAN,
           chr : Clients \cup {Null, Dangling}]

Locations == {"top", "thermo", "each", "pick", "create", "new", "connect",
              "wait", "onConnect", "connectReturns", "connectFailed", "check",
              "discover", "summary", "failed", "rescan", "wild"}

Loop == [pc : Locations, kind : Kinds, idx : Nat \ {0},
         pClient : Clients \cup {Null},
         via : {"reconnect", "new", "again"},
         target : Peers \cup {NoPeer}]

AtTop == [pc |-> "top", kind |-> "bms", idx |-> 1, pClient |-> Null,
          via |-> "new", target |-> NoPeer]

\* Types; no order of onConnect, onDisconnect and clearResources takes a
\* counter of connected devices below 0, nor loop() its failures beyond the
\* limits.
TypeOK ==
    /\ gap \in {"idle", "scan", "conn", "cancel"}
    /\ client \in [Clients -> Client]
    /\ advDevices \in [Kinds -> Seq(Advert)]
    /\ devices \in [Kinds -> Seq(Device)]
    /\ doConnect \in [Kinds -> BOOLEAN]
    /\ numberOfConnected \in [Kinds -> Nat]
    /\ failCount \in 0 .. FAIL_LIMIT + 1
    /\ mainFailCount \in 0 .. FAIL_LIMIT_MAIN + 1
    /\ loop \in Loop
    /\ lastScan \in {"pending", "empty", "found", "refused"}

\* setup() ends with scanBle(), which starts the first scan.
Init ==
    /\ gap = "scan"
    /\ client = [s \in Clients |-> FreeClient]
    /\ advDevices = [k \in Kinds |-> <<>>]
    /\ devices = [k \in Kinds |-> <<>>]
    /\ doConnect = [k \in Kinds |-> FALSE]
    /\ numberOfConnected = [k \in Kinds |-> 0]
    /\ failCount = 0
    /\ mainFailCount = 0
    /\ loop = AtTop
    /\ lastScan = "pending"

-----------------------------------------------------------------------------
(* Helpers *)

KindOf(p) == IF p \in BMS THEN "bms" ELSE "thermo"

IsConnected(s) == client[s].state \in {"up", "term"}

LinkedTo(p) == \E s \in Clients : IsConnected(s) /\ client[s].peer = p

\* mutant: index > 0 instead of index > -1
KnownAfterFirst(p) == \E i \in DOMAIN devices[KindOf(p)] :
                          i > 1 /\ devices[KindOf(p)][i].peer = p

\* MyGetIndex: the address is in bleDevices or thermoDevices
Known(p) == \E i \in DOMAIN devices[KindOf(p)] :
                devices[KindOf(p)][i].peer = p

SetConnected(p, b) ==
    [devices EXCEPT ![KindOf(p)] =
        [i \in DOMAIN @ |-> IF @[i].peer = p
                            THEN [@[i] EXCEPT !.connected = b]
                            ELSE @[i]]]

\* deleting a client deletes the characteristics it owns
ForgetChr(devs, s) ==
    [k \in Kinds |-> [i \in DOMAIN devs[k] |->
        IF devs[k][i].chr = s THEN [devs[k][i] EXCEPT !.chr = Dangling]
                              ELSE devs[k][i]]]

\* mutant: clearResources forgets the links and clears the vectors only
NotTerminated(pool) == pool

\* ble_gap_terminate on every connected client
Terminated(pool) ==
    [s \in Clients |-> IF pool[s].state = "up"
                       THEN [pool[s] EXCEPT !.state = "term"] ELSE pool[s]]

\* a failure counter: only its comparison with the limit matters
Bump(count, limit) == IF count > limit THEN count ELSE count + 1

\* NimBLEScan::clearResults deletes the objects advDevices points to
ResultsCleared(adv) ==
    [k \in Kinds |-> [i \in DOMAIN adv[k] |-> [adv[k][i] EXCEPT !.live = FALSE]]]

\* mutant: the scan is not started again
ScanNotStarted == gap

\* NimBLEScan::start(scanTimeMs, false, true): restarts a running scan; is
\* refused with BLE_HS_EBUSY, after clearing the results, while a connection
\* attempt is in progress, be it one that connect() waits for or one it has
\* cancelled.  No caller looks at the result.
AfterScanStart == IF gap \in {"conn", "cancel"} THEN gap ELSE "scan"

\* the history of that request; connect() still answers for its own attempt
ScanAskedFor == CASE gap = "conn"   -> lastScan
                  [] gap = "cancel" -> "refused"
                  [] OTHER          -> "pending"

Nothing == [k \in Kinds |-> <<>>]

-----------------------------------------------------------------------------
(* The NimBLE host task *)

\* onResult: a device of interest advertises while a scan runs.  NimBLE
\* drops the report of a peer it is connected to; a known address is not
\* pushed a second time.
ScanResult(p) ==
    /\ gap = "scan"
    /\ ~LinkedTo(p)
    /\ \A i \in DOMAIN advDevices[KindOf(p)] :
           advDevices[KindOf(p)][i].peer # p
    /\ advDevices' = [advDevices EXCEPT ![KindOf(p)] =
                         Append(@, [peer |-> p, live |-> TRUE])]
    /\ UNCHANGED <<gap, client, devices, doConnect, numberOfConnected,
                   failCount, mainFailCount, loop, lastScan>>

Rebuilt(k) == [i \in DOMAIN advDevices[k] |->
                  [peer |-> advDevices[k][i].peer,
                   connected |-> FALSE, chr |-> Null]]

\* onScanEnd: without a BMS it returns at once, thermometers or not.
ScanEnd ==
    /\ gap = "scan"
    /\ gap' = "idle"
    /\ IF advDevices["bms"] = <<>>
       THEN /\ lastScan' = "empty"
            /\ UNCHANGED <<devices, doConnect>>
       ELSE LET found == {k \in Kinds : advDevices[k] # <<>>} IN
            /\ lastScan' = "found"
            /\ devices' = [k \in Kinds |-> IF k \in found THEN Rebuilt(k)
                                                          ELSE devices[k]]
            /\ doConnect' = [k \in Kinds |-> k \in found \/ doConnect[k]]
    /\ UNCHANGED <<client, advDevices, numberOfConnected, failCount,
                   mainFailCount, loop>>

\* mutant: the counters are decremented instead of reset
CountersDecremented ==
    /\ numberOfConnected' = [k \in Kinds |-> numberOfConnected[k] - 1]
    /\ advDevices' = Nothing

\* clearResources: request the end of every link, forget what was found.
ClearResources ==
    /\ numberOfConnected' = [k \in Kinds |-> 0]
    /\ advDevices' = Nothing

\* The attempt of a waiting connect() succeeds: the link is up; the loop
\* task goes on later, when the MTU exchange is over.
LinkUp ==
    /\ loop.pc = "wait"
    /\ gap = "conn"
    /\ gap' = "idle"
    /\ client' = [client EXCEPT ![loop.pClient].state = "up"]
    /\ UNCHANGED <<advDevices, devices, doConnect, numberOfConnected,
                   failCount, mainFailCount, loop, lastScan>>

\* The attempt ends without a link: time-out or controller error.
AttemptFails ==
    /\ gap = "conn"
    /\ gap' = "idle"
    /\ UNCHANGED <<client, advDevices, devices, doConnect, numberOfConnected,
                   failCount, mainFailCount, loop, lastScan>>

\* The end of an attempt that connect() has cancelled is reported later, with
\* the deleted client as argument: the event reads freed memory.  The bytes
\* are still there (no task waits: a late link is terminated), or not.
CancelledAttemptEnds ==
    /\ gap = "cancel"
    /\ gap' = "idle"
    /\ loop' \in {loop, [AtTop EXCEPT !.pc = "wild"]}
    /\ UNCHANGED <<client, advDevices, devices, doConnect, numberOfConnected,
                   failCount, mainFailCount, lastScan>>

\* Whether a task is blocked in connect() on client s.
Awaited(s) == loop.pc = "wait" /\ loop.pClient = s

\* What NimBLE does with the client once its link is gone: it is deleted,
\* unless the loop task still waits for the outcome of connect().
Unlinked(pool, s) ==
    [pool EXCEPT ![s] = IF Awaited(s) THEN [@ EXCEPT !.state = "idle"]
                                      ELSE FreeClient]

\* BLE_GAP_EVENT_DISCONNECT of client s with onDisconnect: a known device
\* ends the whole session and scans again, an unknown one is only logged.
\* The counter onDisconnect decrements is reset by clearResources right after.
Disconnect(s) ==
    LET p == client[s].peer
        devs == IF Known(p) THEN SetConnected(p, FALSE) ELSE devices
    IN  /\ IsConnected(s)
        /\ devices' = IF Awaited(s) THEN devs ELSE ForgetChr(devs, s)
        /\ IF Known(p)
           THEN /\ ClearResources
                /\ client' = Unlinked(Terminated(client), s)
                /\ gap' = AfterScanStart
                /\ lastScan' = ScanAskedFor
           ELSE /\ client' = Unlinked(client, s)
                /\ UNCHANGED <<gap, advDevices, numberOfConnected, lastScan>>
        /\ UNCHANGED <<doConnect, failCount, mainFailCount, loop>>

\* The same event when the link failed to be established: no callback.
EstablishmentFails ==
    /\ loop.pc = "wait"
    /\ IsConnected(loop.pClient)
    /\ client' = Unlinked(client, loop.pClient)
    /\ UNCHANGED <<gap, advDevices, devices, doConnect, numberOfConnected,
                   failCount, mainFailCount, loop, lastScan>>

-----------------------------------------------------------------------------
(* The loop task: loop() of main.cpp *)

\* loop() takes doConnect (doConnectThermo) and enters the connect function.
Enter(k) ==
    /\ doConnect[k]
    /\ doConnect' = [doConnect EXCEPT ![k] = FALSE]
    /\ loop' = [AtTop EXCEPT !.pc = "each", !.kind = k]
    /\ UNCHANGED <<gap, client, advDevices, devices, numberOfConnected,
                   failCount, mainFailCount, lastScan>>

TakeConnect == loop.pc = "top" /\ Enter("bms")

\* the thermometers are looked at once the BMS part of loop() is over
NoBmsToConnect ==
    /\ loop.pc = "top"
    /\ ~doConnect["bms"]
    /\ loop' = [AtTop EXCEPT !.pc = "thermo"]
    /\ UNCHANGED <<gap, client, advDevices, devices, doConnect,
                   numberOfConnected, failCount, mainFailCount, lastScan>>

TakeConnectThermo == loop.pc = "thermo" /\ Enter("thermo")

NoThermoToConnect ==
    /\ loop.pc = "thermo"
    /\ ~doConnect["thermo"]
    /\ loop' = AtTop
    /\ UNCHANGED <<gap, client, advDevices, devices, doConnect,
                   numberOfConnected, failCount, mainFailCount, lastScan>>

\* after the round of kind k
RoundOver == IF loop.kind = "bms" THEN [AtTop EXCEPT !.pc = "thermo"] ELSE AtTop

\* mutant: the budget of rescans is one short of the limit
BelowMainLimit(count) == count < FAIL_LIMIT_MAIN

WithinMainLimit(count) == count <= FAIL_LIMIT_MAIN

\* The connect function returned false: rescan while the budget lasts.
MainFail ==
    /\ loop.pc = "failed"
    /\ mainFailCount' = Bump(mainFailCount, FAIL_LIMIT_MAIN)
    /\ IF WithinMainLimit(mainFailCount')
       THEN /\ ClearResources
            /\ client' = Terminated(client)
            /\ loop' = [AtTop EXCEPT !.pc = "rescan", !.kind = loop.kind]
       ELSE /\ loop' = RoundOver
            /\ UNCHANGED <<client, advDevices, numberOfConnected>>
    /\ UNCHANGED <<gap, devices, doConnect, failCount, lastScan>>

Rescan ==
    /\ loop.pc = "rescan"
    /\ gap' = AfterScanStart
    /\ lastScan' = ScanAskedFor
    /\ advDevices' = ResultsCleared(advDevices)
    /\ loop' = RoundOver
    /\ UNCHANGED <<client, devices, doConnect, numberOfConnected, failCount,
                   mainFailCount>>

-----------------------------------------------------------------------------
(* The loop task: connectToServer() and connectToThermo() *)

UnchangedExceptLoop ==
    UNCHANGED <<gap, client, advDevices, devices, doConnect,
                numberOfConnected, failCount, mainFailCount, lastScan>>

InRange == loop.idx <= Len(advDevices[loop.kind])
At == advDevices[loop.kind][loop.idx].peer

\* the head of the for loop
ForEach ==
    /\ loop.pc = "each"
    /\ loop' = [loop EXCEPT !.pc = IF InRange THEN "pick" ELSE "summary"]
    /\ UnchangedExceptLoop

Created == {s \in Clients : client[s].state # "free"}

\* the first slot of a set, as the range-for over m_pClients finds it
First(S) == CHOOSE s \in S : \A t \in S : s <= t

\* Choose the client for the device: the one that knows its address, else a
\* disconnected one, else none.  Without any client pClient keeps the value
\* of the previous iteration.
Pick ==
    LET knows == {s \in Created : client[s].peer = At}
        spare == {s \in Created : ~IsConnected(s)}
    IN  /\ loop.pc = "pick"
        /\ InRange
        /\ loop' =
             IF knows # {}
             THEN [loop EXCEPT !.pc = "connect", !.via = "reconnect",
                               !.pClient = First(knows)]
             ELSE LET c == IF Created = {} THEN loop.pClient
                           ELSE IF spare = {} THEN Null ELSE First(spare)
                  IN  [loop EXCEPT !.pc = IF c = Null THEN "create" ELSE "check",
                                   !.pClient = c]
        /\ UnchangedExceptLoop

\* mutant: one client more than there are slots
PoolOverfull == Cardinality(Created) > MAX_CONNECTIONS

PoolFull == Cardinality(Created) >= MAX_CONNECTIONS

\* the pool check before createClient: a full pool ends the loop
CheckPool ==
    /\ loop.pc = "create"
    /\ loop' = [loop EXCEPT !.pc = IF PoolFull THEN "summary" ELSE "new"]
    /\ UnchangedExceptLoop

\* createClient takes the first free slot
CreateClient ==
    /\ loop.pc = "new"
    /\ LET spare == Clients \ Created IN
       /\ spare # {}
       /\ client' = [client EXCEPT ![First(spare)].state = "idle"]
       /\ loop' = [loop EXCEPT !.pc = "connect", !.via = "new",
                               !.pClient = First(spare)]
    /\ UNCHANGED <<gap, advDevices, devices, doConnect, numberOfConnected,
                   failCount, mainFailCount, lastScan>>

\* if (!pClient->isConnected())
CheckConnected ==
    /\ loop.pc = "check"
    /\ loop' = IF IsConnected(loop.pClient)
               THEN [loop EXCEPT !.pc = "discover", !.via = "new"]
               ELSE [loop EXCEPT !.pc = "connect", !.via = "again"]
    /\ UnchangedExceptLoop

\* connect() refuses at once: the client is connected, or the peer is.
ConnectRefused ==
    /\ loop.pc = "connect"
    /\ InRange
    /\ client[loop.pClient].state # "free"
    /\ IsConnected(loop.pClient) \/ LinkedTo(At)
    /\ loop' = [loop EXCEPT !.pc = "connectFailed"]
    /\ UnchangedExceptLoop

\* connect() takes the address, stops a running scan (onScanEnd is not
\* called) and starts the attempt; or the host refuses the attempt, before or
\* after the scan is stopped, which leaves the client in the pool.  While a
\* cancelled attempt has not ended it always refuses (BLE_HS_EALREADY).
ConnectStarts ==
    /\ loop.pc = "connect"
    /\ InRange
    /\ client[loop.pClient].state = "idle"
    /\ ~LinkedTo(At)
    /\ client' = [client EXCEPT ![loop.pClient].peer = At]
    /\ \/ /\ gap # "cancel"
          /\ gap' = "conn"
          /\ loop' = [loop EXCEPT !.pc = "wait", !.target = At]
       \/ /\ loop' = [loop EXCEPT !.pc = "connectFailed"]
          /\ gap' \in {gap, IF gap = "scan" THEN "idle" ELSE gap}
    /\ UNCHANGED <<advDevices, devices, doConnect, numberOfConnected,
                   failCount, mainFailCount, lastScan>>

\* connect() resumes: with a link it calls onConnect, without one the
\* self-deleting client is gone.
ConnectResumes ==
    /\ loop.pc = "wait"
    /\ gap # "conn"
    /\ IF IsConnected(loop.pClient)
       THEN /\ loop' = [loop EXCEPT !.pc = "onConnect"]
            /\ UNCHANGED <<client, devices>>
       ELSE /\ loop' = [loop EXCEPT !.pc = "connectFailed", !.target = NoPeer]
            /\ client' = [client EXCEPT ![loop.pClient] = FreeClient]
            /\ devices' = ForgetChr(devices, loop.pClient)
    /\ UNCHANGED <<gap, advDevices, doConnect, numberOfConnected, failCount,
                   mainFailCount, lastScan>>

\* The wait times out (m_connectTimeout + 1000 ms) before the attempt has
\* ended: connect() asks for its end, deletes the client and fails at once.
ConnectTimesOut ==
    /\ loop.pc = "wait"
    /\ gap = "conn"
    /\ gap' = "cancel"
    /\ loop' = [loop EXCEPT !.pc = "connectFailed", !.target = NoPeer]
    /\ client' = [client EXCEPT ![loop.pClient] = FreeClient]
    /\ devices' = ForgetChr(devices, loop.pClient)
    /\ UNCHANGED <<advDevices, doConnect, numberOfConnected, failCount,
                   mainFailCount, lastScan>>

\* onConnect, on the loop task: an unknown device is only logged.
OnConnect ==
    LET p == loop.target IN
    /\ loop.pc = "onConnect"
    /\ loop' = [loop EXCEPT !.pc = "connectReturns", !.target = NoPeer]
    /\ IF Known(p)
       THEN /\ devices' = SetConnected(p, TRUE)
            /\ numberOfConnected' = [numberOfConnected EXCEPT ![KindOf(p)] = @ + 1]
       ELSE UNCHANGED <<devices, numberOfConnected>>
    /\ UNCHANGED <<gap, client, advDevices, doConnect, failCount,
                   mainFailCount, lastScan>>

\* "Check if still connected before returning"
ConnectReturns ==
    /\ loop.pc = "connectReturns"
    /\ loop' = IF ~IsConnected(loop.pClient)
               THEN [loop EXCEPT !.pc = "connectFailed"]
               ELSE IF loop.via = "again"
                    THEN [loop EXCEPT !.pc = "discover", !.via = "new"]
                    ELSE [loop EXCEPT !.pc = "check", !.via = "new"]
    /\ UnchangedExceptLoop

\* The warning of a failure prints bleInfo(index), which throws out_of_range
\* beyond bleDevices; connectToThermo prints thermoInfo only when connect fails.
WarningPrintable ==
    \/ loop.kind = "thermo" /\ loop.pc = "discover"
    \/ loop.idx <= Len(devices[loop.kind])

\* A failed reconnect is counted for a BMS only, and the code goes on.
ReconnectFailed ==
    /\ loop.pc = "connectFailed"
    /\ loop.via = "reconnect"
    /\ loop.kind = "bms" => WarningPrintable
    /\ failCount' = IF loop.kind = "bms" THEN Bump(failCount, FAIL_LIMIT)
                                         ELSE failCount
    /\ loop' = [loop EXCEPT !.pc = "check", !.via = "new"]
    /\ UNCHANGED <<gap, client, advDevices, devices, doConnect,
                   numberOfConnected, mainFailCount, lastScan>>

\* NimBLEDevice::deleteClient: nothing for a pointer that is not in the pool
DeletedClient(pool, s) ==
    CASE pool[s].state = "up" -> [pool EXCEPT ![s].state = "term"]
      [] pool[s].state = "idle" -> [pool EXCEPT ![s] = FreeClient]
      [] OTHER -> pool

\* mutant: the loop tries the same device for ever
SameDevice == [loop EXCEPT !.pc = "each", !.via = "new"]

NextDevice == [loop EXCEPT !.pc = "each", !.idx = @ + 1, !.via = "new"]

\* What every other failure does: the first FAIL_LIMIT ones return false, a
\* later one deletes the client and continues with the next device.
Fail(devs) ==
    /\ WarningPrintable
    /\ failCount' = Bump(failCount, FAIL_LIMIT)
    /\ IF failCount' <= FAIL_LIMIT
       THEN /\ loop' = [AtTop EXCEPT !.pc = "failed", !.kind = loop.kind]
            /\ devices' = devs
            /\ UNCHANGED client
       ELSE /\ client' = DeletedClient(client, loop.pClient)
            /\ devices' = IF client[loop.pClient].state = "idle"
                          THEN ForgetChr(devs, loop.pClient) ELSE devs
            /\ loop' = NextDevice
    /\ UNCHANGED <<gap, advDevices, doConnect, numberOfConnected,
                   mainFailCount, lastScan>>

ConnectFailed ==
    /\ loop.pc = "connectFailed"
    /\ loop.via # "reconnect"
    /\ Fail(devices)

\* pChr_tx of the device at the loop's index
WithChr(c) == [devices EXCEPT ![loop.kind][loop.idx].chr = c]

\* Service and characteristics found and subscribed: pChr_tx is set (the
\* thermometers have none) and the loop goes on with the next device.
Discovered ==
    /\ loop.pc = "discover"
    /\ IsConnected(loop.pClient)
    /\ loop.idx <= Len(devices[loop.kind])
    /\ devices' = IF loop.kind = "bms" THEN WithChr(loop.pClient) ELSE devices
    /\ loop' = NextDevice
    /\ UNCHANGED <<gap, client, advDevices, doConnect, numberOfConnected,
                   failCount, mainFailCount, lastScan>>

\* One of the look-ups or subscriptions fails; when it is the last one of a
\* BMS, pChr_tx has been overwritten with nullptr.
DiscoveryFails ==
    /\ loop.pc = "discover"
    /\ \/ Fail(devices)
       \/ /\ loop.kind = "bms"
          /\ IsConnected(loop.pClient)
          /\ loop.idx <= Len(devices["bms"])
          /\ Fail(WithChr(Null))

\* the value of connectToServer() / connectToThermo()
Summary ==
    /\ loop.pc = "summary"
    /\ loop' = IF numberOfConnected[loop.kind] > 0 THEN RoundOver
               ELSE [AtTop EXCEPT !.pc = "failed", !.kind = loop.kind]
    /\ UnchangedExceptLoop

-----------------------------------------------------------------------------
(* Undefined behaviour and restarts *)

\* connect() through a pointer to a deleted client, or writing a
\* characteristic beyond bleDevices: anything may follow.
Wild ==
    /\ \/ /\ loop.pc = "connect"
          /\ client[loop.pClient].state = "free"
       \/ /\ loop.pc = "discover"
          /\ IsConnected(loop.pClient)
          /\ loop.idx > Len(devices[loop.kind])
    /\ loop' = [AtTop EXCEPT !.pc = "wild"]
    /\ UnchangedExceptLoop

\* back to the first scan of setup()
Reboot ==
    /\ gap' = "scan"
    /\ client' = [s \in Clients |-> FreeClient]
    /\ advDevices' = Nothing
    /\ devices' = Nothing
    /\ doConnect' = [k \in Kinds |-> FALSE]
    /\ numberOfConnected' = [k \in Kinds |-> 0]
    /\ failCount' = 0
    /\ mainFailCount' = 0
    /\ loop' = AtTop
    /\ lastScan' = "pending"

\* std::out_of_range from vector::at, which catch (std::runtime_error) lets
\* pass: at() of advDevices, or of bleDevices when a warning is printed
OutOfRange ==
    \/ loop.pc \in {"pick", "connect"} /\ ~InRange
    \/ /\ loop.pc \in {"connectFailed", "discover"}
       /\ ~WarningPrintable
       /\ loop.via = "reconnect" => loop.kind = "bms"

\* A read through a dangling pointer, or the missing argument of a %s: the
\* read gives the old value (the actions above) or the chip panics.
BadRead ==
    \/ /\ loop.pc \in {"check", "onConnect", "connectReturns", "discover"}
       /\ client[loop.pClient].state = "free"
    \/ /\ loop.pc \in {"pick", "connect"}
       /\ InRange
       /\ ~advDevices[loop.kind][loop.idx].live
    \/ loop.pc = "failed"

Panic == (OutOfRange \/ BadRead \/ loop.pc = "wild") /\ Reboot

\* "reset once everyday", at the end of loop()
DailyReset == loop.pc = "top" /\ Reboot

-----------------------------------------------------------------------------
HostStep ==
    \/ \E p \in Peers : ScanResult(p)
    \/ ScanEnd
    \/ LinkUp
    \/ AttemptFails
    \/ CancelledAttemptEnds
    \/ \E s \in Clients : Disconnect(s)
    \/ EstablishmentFails

ConnectStep ==
    \/ ForEach \/ Pick \/ CheckPool \/ CreateClient \/ CheckConnected
    \/ ConnectRefused \/ ConnectStarts \/ ConnectResumes \/ ConnectTimesOut
    \/ OnConnect \/ ConnectReturns \/ ReconnectFailed \/ ConnectFailed
    \/ Discovered \/ DiscoveryFails \/ Summary

LoopStep ==
    \/ TakeConnect \/ NoBmsToConnect
    \/ TakeConnectThermo \/ NoThermoToConnect
    \/ MainFail \/ Rescan
    \/ ConnectStep
    \/ Wild \/ Panic

Next == HostStep \/ LoopStep \/ DailyReset

Spec == Init /\ [][Next]_vars

(***************************************************************************)
(* The scheduler runs the loop task again whenever it can go on: the wait  *)
(* of connect() has a time-out.  Nothing is assumed of the radio, of scans *)
(* or of disconnections.                                                   *)
(***************************************************************************)
FairSpec == Spec /\ WF_vars(LoopStep)

-----------------------------------------------------------------------------
(* Safety *)

\* createClient() never returns the null pointer that the next line of
\* connectToServer would use: the pool check and the allocation are two
\* steps, but between them the host task only frees clients.
ClientAvailable == loop.pc = "new" => Created # Clients

\* onScanEnd throws bleDevices away and builds it anew: no scan can run, and
\* so end, while a session is up.  Every link has ended, or its end has been
\* requested, wherever the two tasks were when the scan was started.
NoSessionDuringScan ==
    gap = "scan" => \A s \in Clients : client[s].state # "up"

\* A device with a session is flagged connected from onConnect on, so loop()
\* never publishes {"connected": 0} for it: the flag is not lost to a
\* rebuild of bleDevices or to the late disconnect of an older link.
LiveLinkIsFlagged ==
    \A s \in Clients :
        client[s].state = "up" /\ ~(loop.pClient = s /\ loop.pc \in {"wait", "onConnect"})
        => \A i \in DOMAIN devices[KindOf(client[s].peer)] :
               LET d == devices[KindOf(client[s].peer)][i]
               IN  d.peer = client[s].peer => d.connected

\* The ways in which the firmware gives up finding devices: a scan that saw
\* no BMS, thermometers or not (although MyScanCallbacks.cpp:83 has onScanEnd
\* "process the results of the completed scan or restart it"); a start of the
\* scan that was refused for a cancelled attempt and is not repeated; and the
\* exhausted budget of rescans of loop().
GivenUp == lastScan \in {"empty", "refused"} \/ mainFailCount > FAIL_LIMIT_MAIN

\* a link whose end onDisconnect will find in its lists, and scan again
WillRescan == \E s \in Clients : IsConnected(s) /\ Known(client[s].peer)

\* Something is left that will scan or connect, or the firmware has given up.
Recovering ==
    \/ gap = "scan"
    \/ \E k \in Kinds : doConnect[k]
    \/ WillRescan
    \/ GivenUp

\* onConnect has counted a device whose link was already gone, and the failure
\* that follows does not end the round any more: connectToServer() returns
\* true for it, and no event will ever correct the count.
PhantomKept ==
    failCount > FAIL_LIMIT /\ \E k \in Kinds : numberOfConnected[k] > 0

\* Recovery is not lost between the tasks: whenever loop() is outside the
\* connect functions, a scan runs, or found devices wait to be connected, or
\* a device is really linked whose disconnect will scan again, or the firmware
\* has given up.  A counted device without a link never stands in for them
\* while failures still end the round: it is cleared and loop() rescans.  Past
\* that limit it does, and recovery is lost (SuccessMeansConnected).
RecoveryArmed == loop.pc \in {"top", "thermo"} => Recovering \/ PhantomKept

(* Liveness *)

\* connectToServer and connectToThermo always come back to loop(), whatever
\* the host task does to the vectors they iterate over: buttons, MQTT and
\* the daily reset are served again (or the chip runs wild).
LoopReturns == loop.pc # "top" ~> loop.pc \in {"top", "wild"}

\* How far the loop task has got: the part of loop(), and for the device at its
\* index the step of the connect function, which tries a second time once.
Part ==
    CASE loop.pc = "top"    -> 8
      [] loop.pc = "wild"   -> 7
      [] loop.pc = "thermo" -> 3
      [] OTHER -> (IF loop.kind = "bms" THEN 0 ELSE 4)
                      + (IF loop.pc = "failed" THEN 1
                         ELSE IF loop.pc = "rescan" THEN 2 ELSE 0)

Place == [each |-> 0, pick |-> 1, create |-> 2, new |-> 3, connect |-> 4,
          wait |-> 5, onConnect |-> 6, connectReturns |-> 7, connectFailed |-> 8,
          check |-> 9, discover |-> 15, summary |-> 16]

Stage == Place[loop.pc] + (IF loop.via = "again" THEN 6 ELSE 0)

OfKind(k) == IF k = "bms" THEN BMS ELSE Thermos

\* Why it comes back: each step of the loop task leads to a later part, to the
\* next device, of no more than there are, or to a later step with the same one.
\* The vectors may shrink, grow or be emptied under it, but not gain a device
\* twice (MyNotification.cpp, the for loops; MyScanCallbacks.cpp, onResult).
LoopAdvances ==
    [][LoopStep /\ loop.pc # "top" =>
          \/ Part' > Part
          \/ /\ Part' = Part
             /\ loop'.idx > loop.idx
             /\ loop'.idx <= Cardinality(OfKind(loop.kind)) + 1
          \/ Part' = Part /\ loop'.idx = loop.idx /\ Stage' > Stage]_vars

(* What comments in the code say, and the code does not do *)

\* main.cpp:218: "Success! we should now be getting notifications from BMS":
\* when connectToServer() returns true, some board has a link; or at least, if
\* a link has been lost again, something is left that recovers it.
SuccessMeansConnected ==
    [][loop.pc = "summary" /\ loop.kind = "bms" /\ loop'.pc = "thermo"
       => \/ \E s \in Clients : IsConnected(s) /\ client[s].peer \in BMS
          \/ Recovering]_vars

\* MyNotification.cpp:137: "No client to reuse? Create a new one."  When
\* connectToServer goes on without creating one, it reuses a client that
\* exists.
ReusedClientExists ==
    [][loop.pc = "pick" /\ loop'.pc = "check"
       => client[loop'.pClient].state # "free"]_vars
=============================================================================
