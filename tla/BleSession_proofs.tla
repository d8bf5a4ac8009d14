--------------------------- MODULE BleSession_proofs ---------------------------
(***************************************************************************)
(* Theorems about BleSession, for every set of boards and thermometers,    *)
(* every size of the client pool and every limit of failures.              *)
(***************************************************************************)
EXTENDS BleSession, TLAPS, FiniteSetTheorems, WellFoundedInduction

-----------------------------------------------------------------------------
(* Sequences and sets *)

\* A function on 1 .. n is a sequence of length n (the vectors that are rebuilt).
LEMMA FunctionIsSeq ==
    ASSUME NEW S, NEW n \in Nat, NEW r \in [1 .. n -> S]
    PROVE  r \in Seq(S) /\ Len(r) = n
OBVIOUS

\* A non-empty set of naturals has a smallest element: well-foundedness of <.
LEMMA SmallestExists ==
    ASSUME NEW S \in SUBSET Nat, S # {}
    PROVE  \E s \in S : \A t \in S : s <= t
<1>1. IsWellFoundedOn(OpToRel(<, Nat), Nat)
  BY NatLessThanWellFounded
<1>2. PICK s \in S : \A t \in S : ~(<<t, s>> \in OpToRel(<, Nat))
  BY <1>1, WFMin
<1>3. \A t \in S : ~(t < s)
  BY <1>2 DEF OpToRel
<1> QED
  BY <1>3

\* The range-for over m_pClients finds one of the slots it looks for.
LEMMA FirstIsElement ==
    ASSUME NEW S \in SUBSET Clients, S # {}
    PROVE  First(S) \in S
<1>1. S \in SUBSET Nat
  BY SessionAssumption DEF Clients
<1>2. \E s \in S : \A t \in S : s <= t
  BY <1>1, SmallestExists
<1> QED
  BY <1>2 DEF First

-----------------------------------------------------------------------------
(* Types of the helpers *)

Pool == [Clients -> Client]
Lists == [Kinds -> Seq(Device)]

\* Every address is looked up in the list of one of the two kinds.
LEMMA KindOfType == ASSUME NEW p PROVE KindOf(p) \in Kinds
  BY DEF KindOf, Kinds

\* Writing a connected flag leaves lists of devices.
LEMMA SetConnectedType ==
    ASSUME devices \in Lists, NEW p, NEW b \in BOOLEAN
    PROVE  SetConnected(p, b) \in Lists
<1> DEFINE k == KindOf(p)
           ds == devices[k]
           r == [i \in DOMAIN ds |-> IF ds[i].peer = p
                                     THEN [ds[i] EXCEPT !.connected = b]
                                     ELSE ds[i]]
<1>1. k \in Kinds
  BY KindOfType
<1>2. ds \in Seq(Device)
  BY <1>1 DEF Lists
<1>3. DOMAIN ds = 1 .. Len(ds) /\ Len(ds) \in Nat
  BY <1>2
<1>4. ASSUME NEW i \in DOMAIN ds PROVE r[i] \in Device
  <2>1. ds[i] \in Device
    BY <1>2, <1>3
  <2> QED
    BY <2>1 DEF Device
<1>5. r \in [1 .. Len(ds) -> Device]
  BY <1>3, <1>4
<1>6. SetConnected(p, b) = [devices EXCEPT ![k] = r]
  BY <1>1 DEF SetConnected, Lists
<1> HIDE DEF r
<1>7. r \in Seq(Device)
  BY <1>3, <1>5, FunctionIsSeq
<1> QED
  BY <1>1, <1>6, <1>7 DEF Lists

\* Deleting a client leaves lists of devices, some with a dangling pChr_tx.
LEMMA ForgetChrType ==
    ASSUME NEW devs \in Lists, NEW s
    PROVE  ForgetChr(devs, s) \in Lists
<1> SUFFICES ASSUME NEW k \in Kinds
             PROVE  [i \in DOMAIN devs[k] |->
                        IF devs[k][i].chr = s
                        THEN [devs[k][i] EXCEPT !.chr = Dangling]
                        ELSE devs[k][i]] \in Seq(Device)
  BY DEF ForgetChr, Lists
<1> DEFINE ds == devs[k]
           r == [i \in DOMAIN ds |-> IF ds[i].chr = s
                                     THEN [ds[i] EXCEPT !.chr = Dangling]
                                     ELSE ds[i]]
<1>1. ds \in Seq(Device)
  BY DEF Lists
<1>2. DOMAIN ds = 1 .. Len(ds) /\ Len(ds) \in Nat
  BY <1>1
<1>3. ASSUME NEW i \in DOMAIN ds PROVE r[i] \in Device
  <2>1. ds[i] \in Device
    BY <1>1, <1>2
  <2> QED
    BY <2>1 DEF Device
<1>4. r \in [1 .. Len(ds) -> Device]
  BY <1>2, <1>3
<1> HIDE DEF r
<1>5. r \in Seq(Device)
  BY <1>2, <1>4, FunctionIsSeq
<1> QED
  BY <1>5 DEF r

\* Clearing the scan results leaves lists of (dangling) references.
LEMMA ResultsClearedType ==
    ASSUME NEW adv \in [Kinds -> Seq(Advert)]
    PROVE  ResultsCleared(adv) \in [Kinds -> Seq(Advert)]
<1> SUFFICES ASSUME NEW k \in Kinds
             PROVE  [i \in DOMAIN adv[k] |-> [adv[k][i] EXCEPT !.live = FALSE]]
                        \in Seq(Advert)
  BY DEF ResultsCleared
<1> DEFINE as == adv[k]
           r == [i \in DOMAIN as |-> [as[i] EXCEPT !.live = FALSE]]
<1>1. as \in Seq(Advert)
  OBVIOUS
<1>2. DOMAIN as = 1 .. Len(as) /\ Len(as) \in Nat
  BY <1>1
<1>3. ASSUME NEW i \in DOMAIN as PROVE r[i] \in Advert
  <2>1. as[i] \in Advert
    BY <1>1, <1>2
  <2> QED
    BY <2>1 DEF Advert
<1>4. r \in [1 .. Len(as) -> Advert]
  BY <1>2, <1>3
<1> HIDE DEF r
<1>5. r \in Seq(Advert)
  BY <1>2, <1>4, FunctionIsSeq
<1> QED
  BY <1>5 DEF r

\* What onScanEnd builds from advDevices is a list of devices.
LEMMA RebuiltType ==
    ASSUME advDevices \in [Kinds -> Seq(Advert)], NEW k \in Kinds
    PROVE  Rebuilt(k) \in Seq(Device)
<1> DEFINE as == advDevices[k]
<1>1. as \in Seq(Advert)
  OBVIOUS
<1>2. DOMAIN as = 1 .. Len(as) /\ Len(as) \in Nat
  BY <1>1
<1>3. ASSUME NEW i \in DOMAIN as PROVE Rebuilt(k)[i] \in Device
  <2>1. as[i] \in Advert
    BY <1>1, <1>2
  <2> QED
    BY <2>1 DEF Rebuilt, Advert, Device
<1>4. Rebuilt(k) \in [1 .. Len(as) -> Device]
  BY <1>2, <1>3 DEF Rebuilt
<1> QED
  BY <1>2, <1>4, FunctionIsSeq

\* Writing pChr_tx at an index within bleDevices leaves lists of devices.
LEMMA WithChrType ==
    ASSUME devices \in Lists, loop \in Loop,
           loop.idx <= Len(devices[loop.kind]),
           NEW c \in Clients \cup {Null, Dangling}
    PROVE  WithChr(c) \in Lists
<1> DEFINE k == loop.kind
           ds == devices[k]
           r == [ds EXCEPT ![loop.idx].chr = c]
<1>1. k \in Kinds /\ loop.idx \in Nat \ {0}
  BY DEF Loop
<1>2. ds \in Seq(Device)
  BY <1>1 DEF Lists
<1>3. DOMAIN ds = 1 .. Len(ds) /\ Len(ds) \in Nat
  BY <1>2
<1>4. ASSUME NEW i \in DOMAIN ds PROVE r[i] \in Device
  <2>1. ds[i] \in Device
    BY <1>2, <1>3
  <2> QED
    BY <2>1 DEF Device
<1>5. r \in [1 .. Len(ds) -> Device]
  BY <1>3, <1>4
<1>6. WithChr(c) = [devices EXCEPT ![k] = r]
  BY <1>1 DEF WithChr, Lists
<1> HIDE DEF r
<1>7. r \in Seq(Device)
  BY <1>3, <1>5, FunctionIsSeq
<1> QED
  BY <1>1, <1>6, <1>7 DEF Lists

\* What NimBLE does to its clients leaves a pool of clients.
LEMMA PoolTypes ==
    ASSUME NEW pool \in Pool, NEW s
    PROVE  /\ Terminated(pool) \in Pool
           /\ Unlinked(pool, s) \in Pool
           /\ DeletedClient(pool, s) \in Pool
  BY DEF Pool, Client, Terminated, Unlinked, DeletedClient, FreeClient

\* Within advDevices, the device of the iteration is one of the peers.
LEMMA AtType ==
    ASSUME TypeOK, InRange
    PROVE  At \in Peers
<1>1. loop.kind \in Kinds /\ loop.idx \in Nat \ {0}
  BY DEF TypeOK, Loop
<1>2. advDevices[loop.kind] \in Seq(Advert)
  BY <1>1 DEF TypeOK
<1>3. advDevices[loop.kind][loop.idx] \in Advert
  BY <1>1, <1>2 DEF InRange
<1> QED
  BY <1>3 DEF At, Advert

\* The places the connect functions return to are locations of the loop task.
LEMMA AtTopType == AtTop \in Loop /\ RoundOver \in Loop
  BY DEF AtTop, RoundOver, Loop, Locations, Kinds, Null

\* So is the next iteration.
LEMMA NextDeviceType ==
    ASSUME loop \in Loop
    PROVE  NextDevice \in Loop
<1>1. loop.idx + 1 \in Nat \ {0}
  BY DEF Loop
<1> DEFINE next == loop.idx + 1
<1>2. NextDevice = [loop EXCEPT !.pc = "each", !.idx = next, !.via = "new"]
  BY DEF NextDevice
<1>3. next \in Nat \ {0}
  BY <1>1
<1> HIDE DEF next
<1> QED
  BY <1>2, <1>3 DEF Loop, Locations

\* The failure counters stay within their bounds.
LEMMA BumpTypes ==
    ASSUME TypeOK
    PROVE  /\ Bump(failCount, FAIL_LIMIT) \in 0 .. FAIL_LIMIT + 1
           /\ Bump(mainFailCount, FAIL_LIMIT_MAIN) \in 0 .. FAIL_LIMIT_MAIN + 1
  BY SessionAssumption DEF TypeOK, Bump

\* clearResources leaves counters that are natural and empty lists.
LEMMA ClearResourcesType ==
    ASSUME TypeOK, ClearResources
    PROVE  /\ numberOfConnected' \in [Kinds -> Nat]
           /\ advDevices' \in [Kinds -> Seq(Advert)]
  BY DEF ClearResources, Nothing

\* Starting a scan leaves the GAP procedure in one of its states.
LEMMA ScanStartType ==
    TypeOK => /\ AfterScanStart \in {"idle", "scan", "conn", "cancel"}
              /\ ScanAskedFor \in {"pending", "empty", "found", "refused"}
  BY DEF TypeOK, AfterScanStart, ScanAskedFor

-----------------------------------------------------------------------------
(* Type correctness *)

\* The state after setup() has the types.
LEMMA InitTypeOK == Init => TypeOK
  BY SessionAssumption, AtTopType
  DEF Init, TypeOK, Client, FreeClient

\* So has the state after a reboot.
LEMMA RebootTypeOK == Reboot => TypeOK'
  BY SessionAssumption, AtTopType
  DEF Reboot, Nothing, TypeOK, Client, FreeClient

\* The callbacks of the host task preserve the types.
LEMMA HostTypeOK == TypeOK /\ HostStep => TypeOK'
<1> SUFFICES ASSUME TypeOK, HostStep PROVE TypeOK'
  OBVIOUS
<1> USE DEF Lists, Pool
<1>1. ASSUME NEW p \in Peers, ScanResult(p) PROVE TypeOK'
  <2>1. KindOf(p) \in Kinds
    BY KindOfType
  <2>2. advDevices' \in [Kinds -> Seq(Advert)]
    <3> DEFINE k == KindOf(p)
               new == [peer |-> p, live |-> TRUE]
    <3>1. new \in Advert
      BY DEF Advert
    <3>2. advDevices[k] \in Seq(Advert)
      BY <2>1 DEF TypeOK
    <3>3. Append(advDevices[k], new) \in Seq(Advert)
      BY <3>1, <3>2
    <3>4. advDevices' = [advDevices EXCEPT ![k] = Append(advDevices[k], new)]
      BY <1>1 DEF ScanResult
    <3> HIDE DEF new
    <3> QED
      BY <3>3, <3>4 DEF TypeOK
  <2> QED
    BY <1>1, <2>2 DEF ScanResult, TypeOK
<1>2. CASE ScanEnd
  <2>1. \A k \in Kinds : Rebuilt(k) \in Seq(Device)
    BY RebuiltType DEF TypeOK
  <2>2. devices' \in [Kinds -> Seq(Device)] /\ doConnect' \in [Kinds -> BOOLEAN]
    BY <1>2, <2>1 DEF ScanEnd, TypeOK
  <2> QED
    BY <1>2, <2>2 DEF ScanEnd, TypeOK
<1>3. CASE LinkUp
  BY <1>3 DEF LinkUp, TypeOK, Client
<1>4. CASE AttemptFails
  BY <1>4 DEF AttemptFails, TypeOK
<1>5. ASSUME NEW s \in Clients, Disconnect(s) PROVE TypeOK'
  <2> DEFINE p == client[s].peer
             devs == IF Known(p) THEN SetConnected(p, FALSE) ELSE devices
  <2>1. devs \in Lists
    BY SetConnectedType DEF TypeOK
  <2>2. ForgetChr(devs, s) \in Lists
    BY <2>1, ForgetChrType
  <2>3. devices' \in Lists
    BY <1>5, <2>1, <2>2 DEF Disconnect
  <2>4. client' \in Pool
    <3>1. client \in Pool
      BY DEF TypeOK
    <3>2. Unlinked(client, s) \in Pool /\ Unlinked(Terminated(client), s) \in Pool
      BY <3>1, PoolTypes
    <3> QED
      BY <1>5, <3>2 DEF Disconnect
  <2>5. /\ numberOfConnected' \in [Kinds -> Nat]
        /\ advDevices' \in [Kinds -> Seq(Advert)]
        /\ gap' \in {"idle", "scan", "conn", "cancel"}
        /\ lastScan' \in {"pending", "empty", "found", "refused"}
    BY <1>5, ClearResourcesType, ScanStartType DEF Disconnect, TypeOK
  <2> QED
    BY <1>5, <2>3, <2>4, <2>5 DEF Disconnect, TypeOK
<1>6. CASE EstablishmentFails
  BY <1>6, PoolTypes DEF EstablishmentFails, TypeOK
<1>7. CASE CancelledAttemptEnds
  <2>1. [AtTop EXCEPT !.pc = "wild"] \in Loop
    BY AtTopType DEF Loop, Locations
  <2> QED
    BY <1>7, <2>1 DEF CancelledAttemptEnds, TypeOK
<1> QED
  BY <1>1, <1>2, <1>3, <1>4, <1>5, <1>6, <1>7 DEF HostStep

\* The failure branch of the connect functions preserves the types.
LEMMA FailTypeOK ==
    ASSUME TypeOK, NEW devs \in Lists, Fail(devs)
    PROVE  TypeOK'
<1>1. failCount' \in 0 .. FAIL_LIMIT + 1
  BY BumpTypes DEF Fail
<1>2. client' \in Pool
  <2>1. client \in Pool
    BY DEF TypeOK, Pool
  <2>2. DeletedClient(client, loop.pClient) \in Pool
    BY <2>1, PoolTypes
  <2> QED
    BY <2>1, <2>2 DEF Fail
<1>3. devices' \in Lists
  BY ForgetChrType DEF Fail
<1>4. loop' \in Loop
  <2>1. loop \in Loop /\ AtTop \in Loop
    BY AtTopType DEF TypeOK
  <2>2. NextDevice \in Loop
    BY <2>1, NextDeviceType
  <2>3. [AtTop EXCEPT !.pc = "failed", !.kind = loop.kind] \in Loop
    BY <2>1 DEF Loop, Locations
  <2> QED
    BY <2>2, <2>3 DEF Fail
<1> QED
  BY <1>1, <1>2, <1>3, <1>4 DEF Fail, TypeOK, Pool, Lists

\* The steps of the connect functions preserve the types.
LEMMA ConnectTypeOK == TypeOK /\ ConnectStep => TypeOK'
<1> SUFFICES ASSUME TypeOK, ConnectStep PROVE TypeOK'
  OBVIOUS
<1> USE DEF Lists, Pool
<1>1. CASE ForEach
  BY <1>1 DEF ForEach, UnchangedExceptLoop, TypeOK, Loop, Locations
<1>2. CASE Pick
  <2>1. \A S \in SUBSET Clients : S # {} => First(S) \in Clients
    BY FirstIsElement
  <2>2. Created \in SUBSET Clients
    BY DEF Created
  <2>3. loop' \in Loop
    BY <1>2, <2>1, <2>2 DEF Pick, TypeOK, Loop, Locations
  <2> QED
    BY <1>2, <2>3 DEF Pick, UnchangedExceptLoop, TypeOK
<1>3. CASE CheckPool
  BY <1>3 DEF CheckPool, UnchangedExceptLoop, TypeOK, Loop, Locations
<1>4. CASE CreateClient
  <2>1. First(Clients \ Created) \in Clients
    BY <1>4, FirstIsElement DEF CreateClient
  <2> QED
    BY <1>4, <2>1 DEF CreateClient, TypeOK, Loop, Locations, Client
<1>5. CASE CheckConnected
  BY <1>5 DEF CheckConnected, UnchangedExceptLoop, TypeOK, Loop, Locations
<1>6. CASE ConnectRefused
  BY <1>6 DEF ConnectRefused, UnchangedExceptLoop, TypeOK, Loop, Locations
<1>7. CASE ConnectStarts
  <2>1. At \in Peers
    BY <1>7, AtType DEF ConnectStarts
  <2> QED
    <3>1. client' \in Pool
      BY <1>7, <2>1 DEF ConnectStarts, TypeOK, Client
    <3>2. loop \in Loop
      BY DEF TypeOK
    <3>3. loop' \in Loop
      BY <1>7, <2>1, <3>2 DEF ConnectStarts, Loop, Locations
    <3>4. gap' \in {"idle", "scan", "conn", "cancel"}
      BY <1>7 DEF ConnectStarts, TypeOK
    <3> QED
      BY <1>7, <3>1, <3>3, <3>4 DEF ConnectStarts, TypeOK
<1>8. CASE ConnectResumes
  <2>1. devices' \in Lists
    <3>1. devices \in Lists
      BY DEF TypeOK
    <3>2. ForgetChr(devices, loop.pClient) \in Lists
      BY <3>1, ForgetChrType
    <3> QED
      BY <1>8, <3>1, <3>2 DEF ConnectResumes
  <2>2. client' \in Pool
    <3>1. FreeClient \in Client /\ client \in Pool
      BY DEF TypeOK, Client, FreeClient
    <3> QED
      BY <1>8, <3>1 DEF ConnectResumes
  <2>3. loop \in Loop
    BY DEF TypeOK
  <2>4. loop' \in Loop
    BY <1>8, <2>3 DEF ConnectResumes, Loop, Locations
  <2> QED
    BY <1>8, <2>1, <2>2, <2>4 DEF ConnectResumes, TypeOK
<1>9. CASE OnConnect
  <2>1. KindOf(loop.target) \in Kinds
    BY KindOfType
  <2>2. devices' \in Lists
    BY <1>9, SetConnectedType DEF OnConnect, TypeOK
  <2> QED
    <3>1. loop \in Loop
      BY DEF TypeOK
    <3>2. loop' \in Loop
      BY <1>9, <3>1 DEF OnConnect, Loop, Locations
    <3>3. numberOfConnected' \in [Kinds -> Nat]
      <4> DEFINE k == KindOf(loop.target)
                 n == numberOfConnected[k] + 1
      <4>1. n \in Nat /\ numberOfConnected \in [Kinds -> Nat]
        BY <2>1 DEF TypeOK
      <4>2. \/ numberOfConnected' = [numberOfConnected EXCEPT ![k] = n]
            \/ UNCHANGED numberOfConnected
        BY <1>9 DEF OnConnect
      <4> HIDE DEF n
      <4> QED
        BY <4>1, <4>2
    <3> QED
      BY <1>9, <2>2, <3>2, <3>3 DEF OnConnect, TypeOK
<1>10. CASE ConnectReturns
  BY <1>10 DEF ConnectReturns, UnchangedExceptLoop, TypeOK, Loop, Locations
<1>11. CASE ReconnectFailed
  BY <1>11, BumpTypes DEF ReconnectFailed, TypeOK, Loop, Locations
<1>12. CASE ConnectFailed
  BY <1>12, FailTypeOK DEF ConnectFailed, TypeOK
<1>13. CASE Discovered
  <2>1. loop.pClient \in Clients \cup {Null, Dangling}
    BY DEF TypeOK, Loop
  <2>2. devices' \in Lists
    BY <1>13, <2>1, WithChrType DEF Discovered, TypeOK
  <2>3. loop' \in Loop
    BY <1>13, NextDeviceType DEF Discovered, TypeOK
  <2> QED
    BY <1>13, <2>2, <2>3 DEF Discovered, TypeOK
<1>14. CASE DiscoveryFails
  <2>1. CASE Fail(devices)
    BY <2>1, FailTypeOK DEF TypeOK
  <2>2. CASE /\ loop.kind = "bms"
             /\ loop.idx <= Len(devices["bms"])
             /\ Fail(WithChr(Null))
    <3>1. WithChr(Null) \in Lists
      BY <2>2, WithChrType DEF TypeOK
    <3> QED
      BY <2>2, <3>1, FailTypeOK
  <2> QED
    BY <1>14, <2>1, <2>2 DEF DiscoveryFails
<1>15. CASE Summary
  BY <1>15, AtTopType
  DEF Summary, UnchangedExceptLoop, TypeOK, AtTop, Loop, Locations
<1>16. CASE ConnectTimesOut
  <2>1. devices' \in Lists
    BY <1>16, ForgetChrType DEF ConnectTimesOut, TypeOK
  <2>2. client' \in Pool
    <3>1. FreeClient \in Client /\ client \in Pool
      BY DEF TypeOK, Client, FreeClient
    <3> QED
      BY <1>16, <3>1 DEF ConnectTimesOut
  <2>3. loop \in Loop
    BY DEF TypeOK
  <2>4. loop' \in Loop
    BY <1>16, <2>3 DEF ConnectTimesOut, Loop, Locations
  <2> QED
    BY <1>16, <2>1, <2>2, <2>4 DEF ConnectTimesOut, TypeOK
<1> QED
  BY <1>1, <1>2, <1>3, <1>4, <1>5, <1>6, <1>7, <1>8, <1>9, <1>10, <1>11,
     <1>12, <1>13, <1>14, <1>15, <1>16 DEF ConnectStep

\* Every step preserves the types.
LEMMA NextTypeOK == TypeOK /\ [Next]_vars => TypeOK'
<1> SUFFICES ASSUME TypeOK, [Next]_vars PROVE TypeOK'
  OBVIOUS
<1>1. CASE HostStep
  BY <1>1, HostTypeOK
<1>2. CASE ConnectStep
  BY <1>2, ConnectTypeOK
<1>3. ASSUME NEW k \in Kinds, Enter(k) PROVE TypeOK'
  <2>1. loop' \in Loop
    BY <1>3, AtTopType DEF Enter, Loop, Locations
  <2>2. doConnect' \in [Kinds -> BOOLEAN]
    BY <1>3 DEF Enter, TypeOK
  <2> QED
    BY <1>3, <2>1, <2>2 DEF Enter, TypeOK
<1>4. CASE TakeConnect \/ TakeConnectThermo
  BY <1>3, <1>4 DEF TakeConnect, TakeConnectThermo, Kinds
<1>5. CASE NoBmsToConnect \/ NoThermoToConnect
  <2>1. loop' \in Loop
    BY <1>5, AtTopType DEF NoBmsToConnect, NoThermoToConnect, AtTop, Loop,
                           Locations
  <2> QED
    BY <1>5, <2>1 DEF NoBmsToConnect, NoThermoToConnect, TypeOK
<1>6. CASE MainFail
  <2>1. mainFailCount' \in 0 .. FAIL_LIMIT_MAIN + 1
    BY <1>6, BumpTypes DEF MainFail
  <2>2. client' \in Pool
    BY <1>6, PoolTypes DEF MainFail, TypeOK, Pool
  <2>3. /\ numberOfConnected' \in [Kinds -> Nat]
        /\ advDevices' \in [Kinds -> Seq(Advert)]
    BY <1>6, ClearResourcesType DEF MainFail, TypeOK
  <2>4. loop' \in Loop
    <3>1. loop.kind \in Kinds
      BY DEF TypeOK, Loop
    <3>2. [AtTop EXCEPT !.pc = "rescan", !.kind = loop.kind] \in Loop
      BY <3>1, AtTopType DEF Loop, Locations
    <3> QED
      BY <1>6, <3>2, AtTopType DEF MainFail
  <2> QED
    BY <1>6, <2>1, <2>2, <2>3, <2>4 DEF MainFail, TypeOK, Pool
<1>7. CASE Rescan
  BY <1>7, ScanStartType, ResultsClearedType, AtTopType DEF Rescan, TypeOK
<1>8. CASE Wild
  <2>1. loop' \in Loop
    BY <1>8, AtTopType DEF Wild, Loop, Locations
  <2> QED
    BY <1>8, <2>1 DEF Wild, UnchangedExceptLoop, TypeOK
<1>9. CASE Panic \/ DailyReset
  BY <1>9, RebootTypeOK DEF Panic, DailyReset
<1>10. CASE UNCHANGED vars
  BY <1>10 DEF vars, TypeOK
<1> QED
  BY <1>1, <1>2, <1>4, <1>5, <1>6, <1>7, <1>8, <1>9, <1>10
  DEF Next, LoopStep

\* The variables keep their types: whatever the tasks interleave, the
\* counters of connected devices stay natural, the lists stay lists of known
\* devices and the loop task is at one of its locations.
THEOREM TypeCorrect == Spec => []TypeOK
  BY InitTypeOK, NextTypeOK, PTL DEF Spec

-----------------------------------------------------------------------------
(* Where the actions of the loop task start and where they lead *)

FromTo(from, to) == loop.pc \in from /\ loop'.pc \in to

\* A failure returns false or goes on with the next device.
LEMMA FailLocations ==
    ASSUME loop \in Loop, NEW devs, Fail(devs)
    PROVE  loop'.pc \in {"failed", "each"}
  BY DEF Fail, NextDevice, AtTop, Loop

\* From where to where the steps of the connect functions go.
LEMMA ConnectLocations ==
    ASSUME loop \in Loop
    PROVE  /\ ForEach => FromTo({"each"}, {"pick", "summary"})
           /\ Pick => FromTo({"pick"}, {"connect", "create", "check"})
           /\ CheckPool => FromTo({"create"}, {IF PoolFull THEN "summary" ELSE "new"})
           /\ CreateClient => FromTo({"new"}, {"connect"})
           /\ CheckConnected => FromTo({"check"}, {"discover", "connect"})
           /\ ConnectRefused => FromTo({"connect"}, {"connectFailed"})
           /\ ConnectStarts => FromTo({"connect"}, {"wait", "connectFailed"})
           /\ ConnectResumes => FromTo({"wait"}, {"onConnect", "connectFailed"})
           /\ ConnectTimesOut => FromTo({"wait"}, {"connectFailed"})
           /\ OnConnect => FromTo({"onConnect"}, {"connectReturns"})
           /\ ConnectReturns =>
                FromTo({"connectReturns"}, {"connectFailed", "discover", "check"})
           /\ ReconnectFailed => FromTo({"connectFailed"}, {"check"})
           /\ ConnectFailed => FromTo({"connectFailed"}, {"failed", "each"})
           /\ Discovered => FromTo({"discover"}, {"each"})
           /\ DiscoveryFails => FromTo({"discover"}, {"failed", "each"})
           /\ Summary => FromTo({"summary"}, {"top", "thermo", "failed"})
<1> USE DEF FromTo
<1>1. ForEach => FromTo({"each"}, {"pick", "summary"})
  BY DEF ForEach, Loop
<1>2. Pick => FromTo({"pick"}, {"connect", "create", "check"})
  BY DEF Pick, Loop
<1>3. CheckPool => FromTo({"create"}, {IF PoolFull THEN "summary" ELSE "new"})
  BY DEF CheckPool, Loop
<1>4. CreateClient => FromTo({"new"}, {"connect"})
  BY DEF CreateClient, Loop
<1>5. CheckConnected => FromTo({"check"}, {"discover", "connect"})
  BY DEF CheckConnected, Loop
<1>6. ConnectRefused => FromTo({"connect"}, {"connectFailed"})
  BY DEF ConnectRefused, Loop
<1>7. ConnectStarts => FromTo({"connect"}, {"wait", "connectFailed"})
  BY DEF ConnectStarts, Loop
<1>8. ConnectResumes => FromTo({"wait"}, {"onConnect", "connectFailed"})
  BY DEF ConnectResumes, Loop
<1>9. OnConnect => FromTo({"onConnect"}, {"connectReturns"})
  BY DEF OnConnect, Loop
<1>10. ConnectReturns =>
         FromTo({"connectReturns"}, {"connectFailed", "discover", "check"})
  BY DEF ConnectReturns, Loop
<1>11. ReconnectFailed => FromTo({"connectFailed"}, {"check"})
  BY DEF ReconnectFailed, Loop
<1>12. ConnectFailed => FromTo({"connectFailed"}, {"failed", "each"})
  BY FailLocations DEF ConnectFailed
<1>13. Discovered => FromTo({"discover"}, {"each"})
  BY DEF Discovered, NextDevice, Loop
<1>14. DiscoveryFails => FromTo({"discover"}, {"failed", "each"})
  BY FailLocations DEF DiscoveryFails
<1>15. Summary => FromTo({"summary"}, {"top", "thermo", "failed"})
  BY DEF Summary, RoundOver, AtTop
<1>16. ConnectTimesOut => FromTo({"wait"}, {"connectFailed"})
  BY DEF ConnectTimesOut, Loop
<1> QED
  BY <1>1, <1>2, <1>3, <1>4, <1>5, <1>6, <1>7, <1>8, <1>9, <1>10, <1>11,
     <1>12, <1>13, <1>14, <1>15, <1>16

\* From where to where the steps of loop() go.
LEMMA LoopLocations ==
    /\ \A k \in Kinds : Enter(k) => loop'.pc = "each"
    /\ TakeConnect \/ TakeConnectThermo => FromTo({"top", "thermo"}, {"each"})
    /\ NoBmsToConnect => FromTo({"top"}, {"thermo"})
    /\ NoThermoToConnect => FromTo({"thermo"}, {"top"})
    /\ MainFail => FromTo({"failed"}, {"rescan", "top", "thermo"})
    /\ Rescan => FromTo({"rescan"}, {"top", "thermo"})
    /\ Wild => FromTo({"connect", "discover"}, {"wild"})
    /\ Reboot => loop'.pc = "top"
<1>1. \A k : Enter(k) => loop'.pc = "each"
  BY DEF Enter, AtTop
<1>2. TakeConnect \/ TakeConnectThermo => FromTo({"top", "thermo"}, {"each"})
  BY <1>1 DEF TakeConnect, TakeConnectThermo, FromTo
<1>3. /\ NoBmsToConnect => FromTo({"top"}, {"thermo"})
      /\ NoThermoToConnect => FromTo({"thermo"}, {"top"})
  BY DEF NoBmsToConnect, NoThermoToConnect, AtTop, FromTo
<1>4. MainFail => FromTo({"failed"}, {"rescan", "top", "thermo"})
  <2> SUFFICES ASSUME MainFail
               PROVE  FromTo({"failed"}, {"rescan", "top", "thermo"})
    OBVIOUS
  <2>1. RoundOver.pc \in {"top", "thermo"}
    BY DEF RoundOver, AtTop
  <2>2. [AtTop EXCEPT !.pc = "rescan", !.kind = loop.kind].pc = "rescan"
    BY DEF AtTop
  <2>3. \/ loop' = RoundOver
        \/ loop' = [AtTop EXCEPT !.pc = "rescan", !.kind = loop.kind]
    BY DEF MainFail
  <2> QED
    BY <2>1, <2>2, <2>3 DEF MainFail, FromTo
<1>5. Rescan => FromTo({"rescan"}, {"top", "thermo"})
  BY DEF Rescan, RoundOver, AtTop, FromTo
<1>6. Wild => FromTo({"connect", "discover"}, {"wild"})
  BY DEF Wild, AtTop, FromTo
<1>7. Reboot => loop'.pc = "top"
  BY DEF Reboot, AtTop
<1> QED
  BY <1>1, <1>2, <1>3, <1>4, <1>5, <1>6, <1>7

\* The host task does not move the loop task, unless it reads freed memory.
LEMMA HostKeepsLoop ==
    HostStep => UNCHANGED loop \/ (loop'.pc = "wild" /\ loop'.via = "new")
<1>1. [AtTop EXCEPT !.pc = "wild"].pc = "wild"
      /\ [AtTop EXCEPT !.pc = "wild"].via = "new"
  BY DEF AtTop
<1> QED
  BY <1>1 DEF HostStep, ScanResult, ScanEnd, LinkUp, AttemptFails, Disconnect,
         EstablishmentFails, CancelledAttemptEnds

-----------------------------------------------------------------------------
(* No session during a scan *)

NoLinkUp(pool) == \A s \in Clients : pool[s].state # "up"

(***************************************************************************)
(* The strengthening.  A connection attempt keeps the loop task waiting in *)
(* connect(), so it is over when loop() starts a scan; and from the moment *)
(* clearResources has requested the end of all links until the scan is     *)
(* over nothing can set a link up.  While an attempt that was given up has *)
(* not ended, connect() waits for none.                                    *)
(***************************************************************************)
Waiting == {"wait", "onConnect"}

ScanInv ==
    /\ gap = "conn" => loop.pc = "wait"
    /\ gap = "cancel" => loop.pc \notin Waiting
    /\ gap = "scan" \/ loop.pc = "rescan" => NoLinkUp(client)

\* what happens to the other clients when one is lost or deleted: nothing
LEMMA PoolLinks ==
    ASSUME NEW pool \in Pool, NEW s, NEW t \in Clients
    PROVE  /\ Terminated(pool)[t].state # "up"
           /\ Unlinked(pool, s)[t].state = "up" => pool[t].state = "up"
           /\ DeletedClient(pool, s)[t].state = "up" => pool[t].state = "up"
  BY DEF Pool, Client, Terminated, Unlinked, DeletedClient, FreeClient

\* ScanInv holds after setup().
LEMMA InitScanInv == Init => ScanInv
  BY DEF Init, ScanInv, Waiting, NoLinkUp, FreeClient, AtTop

\* ScanInv holds after a reboot.
LEMMA RebootScanInv == Reboot => ScanInv'
  BY DEF Reboot, ScanInv, Waiting, NoLinkUp, FreeClient, AtTop

\* The callbacks of the host task preserve ScanInv: LinkUp ends the attempt,
\* and the scan a disconnect starts comes after every link is terminated.
LEMMA HostScanInv == TypeOK /\ ScanInv /\ HostStep => ScanInv'
<1> SUFFICES ASSUME TypeOK, ScanInv, HostStep PROVE ScanInv'
  OBVIOUS
<1> USE DEF ScanInv, Waiting
<1>0. client \in Pool
  BY DEF TypeOK, Pool
<1>1. ASSUME NEW p \in Peers, ScanResult(p) PROVE ScanInv'
  BY <1>1 DEF ScanResult, NoLinkUp
<1>2. CASE ScanEnd
  BY <1>2 DEF ScanEnd, NoLinkUp
<1>3. CASE LinkUp
  BY <1>3 DEF LinkUp
<1>4. CASE AttemptFails
  BY <1>4 DEF AttemptFails, NoLinkUp
<1>5. ASSUME NEW s \in Clients, Disconnect(s) PROVE ScanInv'
  <2>1. CASE Known(client[s].peer)
    <3>1. NoLinkUp(Unlinked(Terminated(client), s))
      BY <1>0, PoolTypes, PoolLinks DEF NoLinkUp
    <3>2. /\ client' = Unlinked(Terminated(client), s)
          /\ gap' = AfterScanStart
          /\ UNCHANGED loop
      BY <1>5, <2>1 DEF Disconnect
    <3> QED
      BY <3>1, <3>2 DEF AfterScanStart, NoLinkUp
  <2>2. CASE ~Known(client[s].peer)
    <3>1. /\ client' = Unlinked(client, s)
          /\ UNCHANGED <<gap, loop>>
      BY <1>5, <2>2 DEF Disconnect
    <3> QED
      BY <1>0, <3>1, PoolLinks DEF NoLinkUp
  <2> QED
    BY <2>1, <2>2
<1>6. CASE EstablishmentFails
  BY <1>0, <1>6, PoolLinks DEF EstablishmentFails, NoLinkUp
<1>7. CASE CancelledAttemptEnds
  <2>1. loop' = loop \/ loop'.pc = "wild"
    BY <1>7 DEF CancelledAttemptEnds, AtTop
  <2> QED
    BY <1>7, <2>1 DEF CancelledAttemptEnds, NoLinkUp
<1> QED
  BY <1>1, <1>2, <1>3, <1>4, <1>5, <1>6, <1>7 DEF HostStep

\* The failure branch preserves ScanInv: it makes no link and starts no scan.
LEMMA FailScanInv ==
    ASSUME TypeOK, ScanInv, NEW devs, loop.pc # "wait", Fail(devs)
    PROVE  ScanInv'
<1>1. client \in Pool /\ loop \in Loop
  BY DEF TypeOK, Pool
<1>2. \A s \in Clients : client'[s].state = "up" => client[s].state = "up"
  BY <1>1, PoolLinks DEF Fail
<1>3. loop'.pc \in {"failed", "each"}
  BY <1>1 DEF Fail, AtTop, NextDevice, Loop
<1>4. UNCHANGED gap
  BY DEF Fail
<1> QED
  BY <1>2, <1>3, <1>4 DEF ScanInv, Waiting, NoLinkUp

\* The steps of the connect functions preserve ScanInv: an attempt takes the
\* GAP procedure from the scan, and no scan starts before it is over.
LEMMA ConnectScanInv == TypeOK /\ ScanInv /\ ConnectStep => ScanInv'
<1> SUFFICES ASSUME TypeOK, ScanInv, ConnectStep PROVE ScanInv'
  OBVIOUS
<1>0. client \in Pool /\ loop \in Loop
  BY DEF TypeOK, Pool
<1>1. CASE \/ ForEach \/ Pick \/ CheckPool \/ CheckConnected
           \/ ConnectRefused \/ ConnectReturns \/ Summary
  <2>1. UNCHANGED <<gap, client>> /\ loop.pc # "wait"
    BY <1>1 DEF ForEach, Pick, CheckPool, CheckConnected, ConnectRefused,
                ConnectReturns, Summary, UnchangedExceptLoop
  <2>2. loop'.pc # "rescan" /\ loop'.pc \notin Waiting
    BY <1>0, <1>1, ConnectLocations DEF FromTo, Waiting
  <2> QED
    BY <2>1, <2>2 DEF ScanInv, NoLinkUp
<1>2. CASE CreateClient
  <2>1. /\ UNCHANGED gap
        /\ loop.pc = "new"
        /\ loop'.pc = "connect"
    BY <1>0, <1>2 DEF CreateClient, Loop
  <2>2. \A s \in Clients : client'[s].state = "up" => client[s].state = "up"
    BY <1>0, <1>2 DEF CreateClient, Pool, Client
  <2> QED
    BY <2>1, <2>2 DEF ScanInv, Waiting, NoLinkUp
<1>3. CASE ConnectStarts
  <2>1. \A s \in Clients : client'[s].state = client[s].state
    BY <1>0, <1>3 DEF ConnectStarts, Pool, Client
  <2>2. \/ gap' = "conn" /\ loop'.pc = "wait"
        \/ /\ gap' \in {gap, "idle"}
           /\ loop'.pc = "connectFailed" /\ loop.pc = "connect"
    BY <1>0, <1>3 DEF ConnectStarts, Loop
  <2> QED
    BY <2>1, <2>2 DEF ScanInv, Waiting, NoLinkUp
<1>4. CASE ConnectResumes
  <2>1. UNCHANGED gap /\ gap # "conn" /\ loop'.pc # "rescan" /\ loop.pc = "wait"
    BY <1>0, <1>4 DEF ConnectResumes, Loop
  <2>2. \A s \in Clients : client'[s].state = "up" => client[s].state = "up"
    BY <1>0, <1>4 DEF ConnectResumes, Pool, Client, FreeClient
  <2> QED
    BY <2>1, <2>2 DEF ScanInv, Waiting, NoLinkUp
<1>5. CASE OnConnect \/ ReconnectFailed \/ Discovered
  <2>1. UNCHANGED <<gap, client>> /\ loop.pc # "wait"
    BY <1>5 DEF OnConnect, ReconnectFailed, Discovered
  <2>2. loop'.pc # "rescan" /\ loop'.pc \notin Waiting
    BY <1>0, <1>5, ConnectLocations DEF FromTo, Waiting
  <2> QED
    BY <2>1, <2>2 DEF ScanInv, NoLinkUp
<1>6. CASE ConnectFailed \/ DiscoveryFails
  BY <1>6, FailScanInv DEF ConnectFailed, DiscoveryFails
<1>7. CASE ConnectTimesOut
  <2>1. gap' = "cancel" /\ loop'.pc = "connectFailed"
    BY <1>0, <1>7 DEF ConnectTimesOut, Loop
  <2> QED
    BY <2>1 DEF ScanInv, Waiting
<1> QED
  BY <1>1, <1>2, <1>3, <1>4, <1>5, <1>6, <1>7 DEF ConnectStep

\* Every step preserves ScanInv.
LEMMA NextScanInv == TypeOK /\ ScanInv /\ [Next]_vars => ScanInv'
<1> SUFFICES ASSUME TypeOK, ScanInv, [Next]_vars PROVE ScanInv'
  OBVIOUS
<1>0. client \in Pool
  BY DEF TypeOK, Pool
<1>1. CASE HostStep
  BY <1>1, HostScanInv
<1>2. CASE ConnectStep
  BY <1>2, ConnectScanInv
<1>3. CASE \/ TakeConnect \/ NoBmsToConnect
           \/ TakeConnectThermo \/ NoThermoToConnect \/ Wild
  <2>1. UNCHANGED <<gap, client>> /\ loop.pc # "wait"
    BY <1>3 DEF TakeConnect, NoBmsToConnect, TakeConnectThermo, Enter,
                NoThermoToConnect, Wild, UnchangedExceptLoop
  <2>2. loop'.pc # "rescan" /\ loop'.pc \notin Waiting
    BY <1>3, LoopLocations DEF FromTo, Waiting
  <2> QED
    BY <2>1, <2>2 DEF ScanInv, NoLinkUp
<1>4. CASE MainFail
  <2>1. UNCHANGED gap /\ loop.pc = "failed" /\ loop'.pc \notin Waiting
    BY <1>4, LoopLocations DEF MainFail, FromTo, Waiting
  <2>2. \/ client' = Terminated(client)
        \/ UNCHANGED client /\ loop'.pc \in {"top", "thermo"}
    BY <1>4 DEF MainFail, RoundOver, AtTop
  <2> QED
    BY <1>0, <2>1, <2>2, PoolLinks DEF ScanInv, NoLinkUp
<1>5. CASE Rescan
  BY <1>5 DEF Rescan, RoundOver, AtTop, AfterScanStart, ScanInv, Waiting, NoLinkUp
<1>6. CASE Panic \/ DailyReset
  BY <1>6, RebootScanInv DEF Panic, DailyReset
<1>7. CASE UNCHANGED vars
  BY <1>7 DEF vars, ScanInv, NoLinkUp
<1> QED
  BY <1>1, <1>2, <1>3, <1>4, <1>5, <1>6, <1>7 DEF Next, LoopStep

\* While a scan runs no link is up whose end has not been requested, so the
\* rebuild of bleDevices at its end throws no session away: for any number
\* of devices, clients and failures.
THEOREM ScansAreSessionFree == Spec => []NoSessionDuringScan
<1>1. Spec => []ScanInv
  BY TypeCorrect, InitScanInv, NextScanInv, PTL DEF Spec
<1>2. ScanInv => NoSessionDuringScan
  BY DEF ScanInv, NoLinkUp, NoSessionDuringScan
<1> QED
  BY <1>1, <1>2, PTL

-----------------------------------------------------------------------------
(* The client pool *)

\* The pool has MAX_CONNECTIONS slots.
LEMMA FullPool ==
    /\ Cardinality(Clients) = MAX_CONNECTIONS
    /\ IsFiniteSet(Clients)
  BY SessionAssumption, FS_Interval DEF Clients

\* outside connect() the host task allocates no client
LEMMA HostKeepsFree ==
    ASSUME TypeOK, HostStep, loop.pc = "new",
           NEW s \in Clients, client[s].state = "free"
    PROVE  client'[s].state = "free"
<1>0. client \in Pool
  BY DEF TypeOK, Pool
<1>1. CASE \/ \E p \in Peers : ScanResult(p)
           \/ ScanEnd \/ AttemptFails \/ CancelledAttemptEnds
  BY <1>1 DEF ScanResult, ScanEnd, AttemptFails, CancelledAttemptEnds
<1>2. ~LinkUp /\ ~EstablishmentFails
  BY DEF LinkUp, EstablishmentFails
<1>3. ASSUME NEW t \in Clients, Disconnect(t) PROVE client'[s].state = "free"
  <2>1. \/ client' = Unlinked(client, t)
        \/ client' = Unlinked(Terminated(client), t)
    BY <1>3 DEF Disconnect
  <2>2. \A pool \in Pool : pool[s].state = "free" =>
            /\ Unlinked(pool, t)[s].state = "free"
            /\ Terminated(pool)[s].state = "free"
    BY DEF Unlinked, Awaited, Terminated, FreeClient, Pool, Client
  <2>3. Terminated(client) \in Pool
    BY <1>0, PoolTypes
  <2> QED
    BY <1>0, <2>1, <2>2, <2>3
<1> QED
  BY <1>1, <1>2, <1>3 DEF HostStep

\* createClient always finds a free slot: the pool check and the allocation
\* are two steps, but the host task in between only frees clients.
THEOREM ClientAlwaysAvailable == Spec => []ClientAvailable
<1>1. Init => ClientAvailable
  BY DEF Init, ClientAvailable, AtTop
<1>2. TypeOK /\ ClientAvailable /\ [Next]_vars => ClientAvailable'
  <2> SUFFICES ASSUME TypeOK, ClientAvailable, [Next]_vars, loop'.pc = "new"
               PROVE  Created' # Clients
    BY DEF ClientAvailable
  <2>0. client \in Pool /\ loop \in Loop
    BY DEF TypeOK, Pool
  <2>1. CASE CheckPool
    <3>1. ~PoolFull /\ UNCHANGED client
      BY <2>0, <2>1 DEF CheckPool, UnchangedExceptLoop, Loop
    <3> QED
      BY <3>1, FullPool, SessionAssumption DEF PoolFull, Created
  <2>2. CASE HostStep
    <3>1. UNCHANGED loop
      BY <2>0, <2>2, HostKeepsLoop
    <3>2. PICK s \in Clients : client[s].state = "free"
      BY <3>1 DEF ClientAvailable, Created
    <3>3. client'[s].state = "free"
      BY <2>0, <2>2, <3>1, <3>2, HostKeepsFree
    <3> QED
      BY <3>3 DEF Created
  <2>3. CASE ConnectStep /\ ~CheckPool
    <3>1. loop'.pc # "new"
      BY <2>0, <2>3, ConnectLocations DEF ConnectStep, FromTo
    <3> QED
      BY <3>1
  <2>4. CASE \/ TakeConnect \/ NoBmsToConnect
             \/ TakeConnectThermo \/ NoThermoToConnect
             \/ MainFail \/ Rescan \/ Wild \/ Panic \/ DailyReset
    <3>1. loop'.pc # "new"
      BY <2>4, LoopLocations DEF Panic, DailyReset, FromTo
    <3> QED
      BY <3>1
  <2>5. CASE UNCHANGED vars
    BY <2>5 DEF vars, ClientAvailable, Created
  <2> QED
    BY <2>1, <2>2, <2>3, <2>4, <2>5 DEF Next, LoopStep
<1> QED
  BY TypeCorrect, <1>1, <1>2, PTL DEF Spec

-----------------------------------------------------------------------------
(* The rounds of the connect functions end *)

\* The steps for one device.
Retried == {"connect", "wait", "onConnect", "connectReturns", "connectFailed"}
AtDevice == {"pick", "create", "new", "check", "discover"} \cup Retried
Connecting == {"each", "summary"} \cup AtDevice

\* A vector without a device twice.
Distinct(q, S) ==
    /\ \A n \in DOMAIN q : q[n].peer \in S
    /\ \A n, m \in DOMAIN q : q[n].peer = q[m].peer => n = m

(***************************************************************************)
(* The strengthening.  onResult looks a device up before it appends it, so *)
(* the vectors are no longer than there are devices, and so is the index   *)
(* that has been within one, though the vector may have been emptied since. *)
(***************************************************************************)
RoundInv ==
    /\ \A k \in Kinds : Distinct(advDevices[k], OfKind(k))
    /\ loop.pc \in AtDevice => loop.idx <= Cardinality(OfKind(loop.kind))
    /\ loop.via = "again" => loop.pc \in Retried

\* A vector without a device twice is no longer than there are devices.
LEMMA DistinctLength ==
    ASSUME NEW S, IsFiniteSet(S), NEW q \in Seq(Advert), Distinct(q, S)
    PROVE  Len(q) \in Nat /\ Cardinality(S) \in Nat /\ Len(q) <= Cardinality(S)
<1> DEFINE n == Len(q)
           f == [i \in 1 .. n |-> q[i].peer]
<1>1. n \in Nat /\ DOMAIN q = 1 .. n
  OBVIOUS
<1> HIDE DEF n
<1>2. f \in Injection(1 .. n, S)
  <2>1. f \in [1 .. n -> S]
    BY <1>1 DEF Distinct
  <2>2. \A i, j \in 1 .. n : f[i] = f[j] => i = j
    BY <1>1 DEF Distinct
  <2> HIDE DEF f
  <2> QED
    BY <2>1, <2>2, Zenon DEF Injection, IsInjective
<1>3. Cardinality(1 .. n) <= Cardinality(S)
  BY <1>2, FS_Injection
<1>4. Cardinality(1 .. n) = n
  BY <1>1, FS_Interval
<1>5. Cardinality(S) \in Nat
  BY FS_CardinalityType
<1> QED
  BY <1>1, <1>3, <1>4, <1>5 DEF n

\* The devices of a kind are finitely many.
LEMMA OfKindFinite ==
    \A k \in Kinds : IsFiniteSet(OfKind(k)) /\ Cardinality(OfKind(k)) \in Nat
  BY SessionAssumption, FS_CardinalityType DEF OfKind, Kinds

\* The vectors are emptied by clearResources and a reboot.
LEMMA NothingDistinct ==
    \A k \in Kinds : Distinct(Nothing[k], OfKind(k))
<1>1. \A k \in Kinds : Nothing[k] = <<>>
  BY DEF Nothing
<1> QED
  BY <1>1 DEF Distinct

\* Their results are cleared without a change of the addresses.
LEMMA ClearedDistinct ==
    ASSUME TypeOK, NEW k \in Kinds, Distinct(advDevices[k], OfKind(k))
    PROVE  Distinct(ResultsCleared(advDevices)[k], OfKind(k))
<1> DEFINE q == advDevices[k]
           r == [i \in DOMAIN q |-> [q[i] EXCEPT !.live = FALSE]]
<1>1. ResultsCleared(advDevices)[k] = r
  BY DEF ResultsCleared
<1>2. \A i \in DOMAIN q : q[i] \in Advert
  BY DEF TypeOK
<1>3. DOMAIN r = DOMAIN q /\ \A i \in DOMAIN q : r[i].peer = q[i].peer
  BY <1>2 DEF Advert
<1> HIDE DEF r
<1> QED
  BY <1>1, <1>3 DEF Distinct

\* onResult appends a device of its kind that is not there yet.
LEMMA ResultDistinct ==
    ASSUME TypeOK, NEW p \in Peers, ScanResult(p), NEW k \in Kinds,
           Distinct(advDevices[k], OfKind(k))
    PROVE  Distinct(advDevices'[k], OfKind(k))
<1> DEFINE q == advDevices[k]
           a == [peer |-> p, live |-> TRUE]
           r == Append(q, a)
<1>1. CASE k = KindOf(p)
  <2>1. advDevices'[k] = r
    BY <1>1 DEF ScanResult, TypeOK
  <2>2. p \in OfKind(k)
    BY <1>1, SessionAssumption DEF KindOf, OfKind, Peers
  <2>3. \A i \in DOMAIN q : q[i].peer # p
    BY <1>1 DEF ScanResult
  <2>4. q \in Seq(Advert) /\ a \in Advert
    BY DEF TypeOK, Advert
  <2>5. a.peer = p
    OBVIOUS
  <2> DEFINE n == Len(q)
  <2>6. n \in Nat /\ DOMAIN q = 1 .. n
    BY <2>4
  <2> HIDE DEF q, a
  <2>7. /\ DOMAIN r = 1 .. n + 1 /\ r[n + 1] = a
        /\ \A i \in 1 .. n : r[i] = q[i]
    BY <2>4
  <2> HIDE DEF n, r
  <2>8. \A i \in 1 .. n + 1 : i \in 1 .. n \/ i = n + 1
    BY <2>6
  <2>9. \A i \in 1 .. n + 1 : r[i].peer \in OfKind(k)
    BY <2>2, <2>5, <2>6, <2>7, <2>8 DEF Distinct, q
  <2>10. ASSUME NEW i \in 1 .. n + 1, NEW j \in 1 .. n + 1, r[i].peer = r[j].peer
         PROVE  i = j
    <3>1. \A m \in 1 .. n : r[m].peer = q[m].peer /\ q[m].peer # p
      BY <2>3, <2>6, <2>7
    <3>2. r[n + 1].peer = p
      BY <2>5, <2>7
    <3>3. \A l, m \in 1 .. n : q[l].peer = q[m].peer => l = m
      BY <2>6 DEF Distinct, q
    <3> QED
      BY <2>8, <2>10, <3>1, <3>2, <3>3
  <2> QED
    BY <2>1, <2>7, <2>9, <2>10 DEF Distinct
<1>2. CASE k # KindOf(p)
  <2>1. advDevices'[k] = advDevices[k]
    BY <1>2 DEF ScanResult, TypeOK
  <2> QED
    BY <2>1
<1> QED
  BY <1>1, <1>2

\* Every step keeps the vectors without a device twice.
LEMMA NextDistinct ==
    ASSUME TypeOK, NEW k \in Kinds, Distinct(advDevices[k], OfKind(k)), [Next]_vars
    PROVE  Distinct(advDevices'[k], OfKind(k))
<1>1. CASE UNCHANGED advDevices
  BY <1>1
<1>2. CASE advDevices' = Nothing
  BY <1>2, NothingDistinct
<1>3. CASE HostStep
  <2>1. ASSUME NEW p \in Peers, ScanResult(p)
        PROVE  Distinct(advDevices'[k], OfKind(k))
    BY <2>1, ResultDistinct
  <2>2. ASSUME NEW s \in Clients, Disconnect(s)
        PROVE  advDevices' = Nothing \/ UNCHANGED advDevices
    BY <2>2 DEF Disconnect, ClearResources
  <2>3. ScanEnd \/ LinkUp \/ AttemptFails \/ EstablishmentFails
        \/ CancelledAttemptEnds => UNCHANGED advDevices
    BY DEF ScanEnd, LinkUp, AttemptFails, EstablishmentFails, CancelledAttemptEnds
  <2> QED
    BY <1>1, <1>2, <1>3, <2>1, <2>2, <2>3 DEF HostStep
<1>4. CASE ConnectStep
  BY <1>1, <1>4 DEF ConnectStep, UnchangedExceptLoop, ForEach, Pick, CheckPool,
     CreateClient, CheckConnected, ConnectRefused, ConnectStarts, ConnectResumes,
     ConnectTimesOut,
     OnConnect, ConnectReturns, ReconnectFailed, ConnectFailed, Discovered,
     DiscoveryFails, Fail, Summary
<1>5. CASE TakeConnect \/ TakeConnectThermo \/ NoBmsToConnect \/ NoThermoToConnect
           \/ Wild
  BY <1>1, <1>5 DEF TakeConnect, TakeConnectThermo, NoBmsToConnect,
     NoThermoToConnect, Enter, Wild, UnchangedExceptLoop
<1>6. CASE MainFail
  BY <1>1, <1>2, <1>6 DEF MainFail, ClearResources
<1>7. CASE Rescan
  BY <1>7, ClearedDistinct DEF Rescan
<1>8. CASE Panic \/ DailyReset
  BY <1>2, <1>8 DEF Panic, DailyReset, Reboot
<1>9. CASE UNCHANGED vars
  BY <1>1, <1>9 DEF vars
<1> QED
  BY <1>3, <1>4, <1>5, <1>6, <1>7, <1>8, <1>9 DEF Next, LoopStep

\* The step of the connect function is Stage, the later the further.
LEMMA PlaceIs ==
    /\ Place["each"] = 0 /\ Place["pick"] = 1 /\ Place["create"] = 2
    /\ Place["new"] = 3 /\ Place["connect"] = 4 /\ Place["wait"] = 5
    /\ Place["onConnect"] = 6 /\ Place["connectReturns"] = 7
    /\ Place["connectFailed"] = 8 /\ Place["check"] = 9
    /\ Place["discover"] = 15 /\ Place["summary"] = 16
  BY DEF Place

\* The parts of loop() in their order.
LEMMA PartIs ==
    /\ Part \in 0 .. 8
    /\ loop.pc = "top" <=> Part = 8
    /\ loop.pc = "wild" => Part = 7
    /\ loop.pc = "thermo" => Part = 3
    /\ loop.pc \in Connecting => Part = IF loop.kind = "bms" THEN 0 ELSE 4
    /\ loop.pc = "failed" => Part = IF loop.kind = "bms" THEN 1 ELSE 5
    /\ loop.pc = "rescan" => Part = IF loop.kind = "bms" THEN 2 ELSE 6
  BY DEF Part, Connecting, AtDevice, Retried

\* What a step does to the loop task: a later step with the same device ...
Later ==
    /\ loop.pc \in Connecting /\ loop'.pc \in Connecting
    /\ loop'.kind = loop.kind /\ loop'.idx = loop.idx
    /\ Stage' > Stage

\* ... or the next device ...
Further == loop.pc \in AtDevice /\ loop' = NextDevice

\* ... or the end of the round.
Leaves ==
    /\ loop.pc \in Connecting
    /\ \/ loop' = RoundOver
       \/ loop' = [AtTop EXCEPT !.pc = "failed", !.kind = loop.kind]

\* What a failure does.
LEMMA FailMoves ==
    ASSUME loop.pc \in AtDevice, NEW devs, Fail(devs)
    PROVE  Further \/ Leaves
  BY DEF Fail, Further, Leaves, Connecting

\* Waiting and what comes after it leave the device and the way to it.
LEMMA Moved ==
    ASSUME loop \in Loop, NEW pc
    PROVE  LET r == [loop EXCEPT !.pc = pc]
           IN  /\ r.pc = pc /\ r.via = loop.via
               /\ r.kind = loop.kind /\ r.idx = loop.idx
  BY DEF Loop

\* Where a round begins and ends: out of it nothing is tried.
LEMMA OutOfRound ==
    ASSUME NEW pc
    PROVE  LET r == [AtTop EXCEPT !.pc = pc]
           IN  /\ AtTop.pc = "top" /\ AtTop.via = "new"
               /\ RoundOver.pc = IF loop.kind = "bms" THEN "thermo" ELSE "top"
               /\ RoundOver.via = "new"
               /\ r.pc = pc /\ r.via = "new"
  BY DEF AtTop, RoundOver

\* What each step of the connect functions does.
LEMMA ConnectMoves ==
    ASSUME loop \in Loop, RoundInv, ConnectStep
    PROVE  Later \/ Further \/ Leaves
<1> USE PlaceIs DEF Later, Connecting, AtDevice, Retried, Stage, RoundInv
<1>1. CASE ForEach
  BY <1>1 DEF ForEach, Loop
<1>2. CASE Pick
  BY <1>2 DEF Pick, Loop
<1>3. CASE CheckPool
  BY <1>3 DEF CheckPool, Loop
<1>4. CASE CreateClient
  BY <1>4 DEF CreateClient, Loop
<1>5. CASE CheckConnected
  BY <1>5 DEF CheckConnected, Loop
<1>6. CASE ConnectRefused
  BY <1>6 DEF ConnectRefused, Loop
<1>7. CASE ConnectStarts
  <2>1. /\ loop.pc = "connect"
        /\ \/ loop' = [loop EXCEPT !.pc = "wait", !.target = At]
           \/ loop' = [loop EXCEPT !.pc = "connectFailed"]
    BY <1>7 DEF ConnectStarts
  <2>2. loop'.pc \in {"wait", "connectFailed"} /\ loop'.via = loop.via
        /\ loop'.kind = loop.kind /\ loop'.idx = loop.idx
    <3>1. CASE loop' = [loop EXCEPT !.pc = "wait", !.target = At]
      BY <3>1 DEF Loop
    <3>2. CASE loop' = [loop EXCEPT !.pc = "connectFailed"]
      BY <3>2, Moved, Zenon
    <3> QED
      BY <2>1, <3>1, <3>2
  <2> QED
    BY <2>1, <2>2
<1>8. CASE ConnectResumes
  <2>1. /\ loop.pc = "wait"
        /\ \/ loop' = [loop EXCEPT !.pc = "onConnect"]
           \/ loop' = [loop EXCEPT !.pc = "connectFailed", !.target = NoPeer]
    BY <1>8 DEF ConnectResumes
  <2>2. loop'.pc \in {"onConnect", "connectFailed"} /\ loop'.via = loop.via
        /\ loop'.kind = loop.kind /\ loop'.idx = loop.idx
    <3>1. CASE loop' = [loop EXCEPT !.pc = "onConnect"]
      BY <3>1, Moved, Zenon
    <3>2. CASE loop' = [loop EXCEPT !.pc = "connectFailed", !.target = NoPeer]
      BY <3>2 DEF Loop
    <3> QED
      BY <2>1, <3>1, <3>2
  <2> QED
    BY <2>1, <2>2
<1>9. CASE OnConnect
  BY <1>9 DEF OnConnect, Loop
<1>10. CASE ConnectReturns
  BY <1>10 DEF ConnectReturns, Loop
<1>11. CASE ReconnectFailed
  BY <1>11 DEF ReconnectFailed, Loop
<1>12. CASE ConnectFailed
  BY <1>12, FailMoves DEF ConnectFailed
<1>13. CASE Discovered
  BY <1>13 DEF Discovered, Further
<1>14. CASE DiscoveryFails
  BY <1>14, FailMoves DEF DiscoveryFails
<1>15. CASE Summary
  BY <1>15 DEF Summary, Leaves
<1>16. CASE ConnectTimesOut
  <2>1. /\ loop.pc = "wait"
        /\ loop' = [loop EXCEPT !.pc = "connectFailed", !.target = NoPeer]
    BY <1>16 DEF ConnectTimesOut
  <2> QED
    BY <2>1 DEF Loop
<1> QED
  BY <1>1, <1>2, <1>3, <1>4, <1>5, <1>6, <1>7, <1>8, <1>9, <1>10, <1>11,
     <1>12, <1>13, <1>14, <1>15, <1>16 DEF ConnectStep

\* A device at the index of the loop task is one of those there are.
LEMMA InRangeBound ==
    ASSUME TypeOK, RoundInv, InRange
    PROVE  loop.idx <= Cardinality(OfKind(loop.kind))
<1>1. loop.kind \in Kinds /\ loop.idx \in Nat
  BY DEF TypeOK, Loop
<1>2. advDevices[loop.kind] \in Seq(Advert)
  BY <1>1 DEF TypeOK
<1>3. /\ Len(advDevices[loop.kind]) \in Nat
      /\ Cardinality(OfKind(loop.kind)) \in Nat
      /\ Len(advDevices[loop.kind]) <= Cardinality(OfKind(loop.kind))
  BY <1>1, <1>2, OfKindFinite, DistinctLength DEF RoundInv
<1> QED
  BY <1>1, <1>3 DEF InRange

\* The end of a round leaves no device behind.
LEMMA LeavesOutside ==
    ASSUME loop \in Loop, Leaves
    PROVE  /\ loop'.via = "new" /\ loop'.pc \notin AtDevice
           /\ \/ loop'.pc = IF loop.kind = "bms" THEN "thermo" ELSE "top"
              \/ loop'.pc = "failed" /\ loop'.kind = loop.kind
<1>1. CASE loop' = RoundOver
  BY <1>1, OutOfRound DEF AtDevice, Retried
<1>2. CASE loop' = [AtTop EXCEPT !.pc = "failed", !.kind = loop.kind]
  <2>1. loop'.pc = "failed" /\ loop'.via = "new" /\ loop'.kind = loop.kind
    BY <1>2 DEF AtTop
  <2> QED
    BY <2>1 DEF AtDevice, Retried
<1> QED
  BY <1>1, <1>2 DEF Leaves

\* RoundInv is kept by the steps of the connect functions.
LEMMA ConnectRound == TypeOK /\ RoundInv /\ ConnectStep =>
                          /\ loop'.pc \in AtDevice => loop'.idx <= Cardinality(OfKind(loop'.kind))
                          /\ loop'.via = "again" => loop'.pc \in Retried
<1> SUFFICES ASSUME TypeOK, RoundInv, ConnectStep
             PROVE  /\ loop'.pc \in AtDevice =>
                           loop'.idx <= Cardinality(OfKind(loop'.kind))
                    /\ loop'.via = "again" => loop'.pc \in Retried
  OBVIOUS
<1>0. loop \in Loop
  BY DEF TypeOK
<1>1. loop'.pc \in AtDevice => loop'.idx <= Cardinality(OfKind(loop'.kind))
  <2>1. CASE Later
    <3>1. CASE loop.pc \in AtDevice
      BY <2>1, <3>1 DEF Later, RoundInv
    <3>2. CASE loop.pc = "each"
      <4>1. ForEach
        BY <1>0, <3>2, ConnectLocations DEF ConnectStep, FromTo
      <4>2. CASE InRange
        BY <2>1, <4>2, InRangeBound DEF Later
      <4>3. CASE ~InRange
        <5>1. loop'.pc = "summary"
          BY <1>0, <4>1, <4>3 DEF ForEach, Loop
        <5> QED
          BY <5>1 DEF AtDevice, Retried
      <4> QED
        BY <4>2, <4>3
    <3>3. CASE loop.pc = "summary"
      <4>1. loop'.pc \in {"top", "thermo", "failed"}
        BY <1>0, <3>3, ConnectLocations DEF ConnectStep, FromTo
      <4> QED
        BY <4>1 DEF AtDevice, Retried
    <3> QED
      BY <2>1, <3>1, <3>2, <3>3 DEF Later, Connecting
  <2>2. CASE Further
    <3>1. loop'.pc = "each"
      BY <1>0, <2>2 DEF Further, NextDevice, Loop
    <3> QED
      BY <3>1 DEF AtDevice, Retried
  <2>3. CASE Leaves
    BY <1>0, <2>3, LeavesOutside
  <2> QED
    BY <1>0, <2>1, <2>2, <2>3, ConnectMoves
<1>2. loop'.via = "again" => loop'.pc \in Retried
  <2>1. CASE Further
    BY <1>0, <2>1 DEF Further, NextDevice, Loop
  <2>2. CASE Leaves
    BY <1>0, <2>2, LeavesOutside
  <2>3. CASE Later
    <3> USE DEF RoundInv, Retried
    <3>1. CASE ForEach \/ Pick \/ CheckPool \/ CreateClient \/ CheckConnected
               \/ ConnectRefused \/ OnConnect \/ ConnectReturns \/ ReconnectFailed
      BY <1>0, <3>1 DEF ForEach, Pick, CheckPool, CreateClient, CheckConnected,
         ConnectRefused, OnConnect, ConnectReturns, ReconnectFailed, Loop
    <3>2. CASE ConnectStarts
      BY <1>0, <3>2, ConnectLocations DEF FromTo
    <3>3. CASE ConnectResumes
      <4>1. /\ loop.pc = "wait"
            /\ \/ loop' = [loop EXCEPT !.pc = "onConnect"]
               \/ loop' = [loop EXCEPT !.pc = "connectFailed", !.target = NoPeer]
        BY <3>3 DEF ConnectResumes
      <4> QED
        BY <1>0, <4>1 DEF Loop
    <3>5. CASE ConnectTimesOut
      BY <1>0, <3>5 DEF ConnectTimesOut, Loop
    <3>4. CASE ConnectFailed \/ Discovered \/ DiscoveryFails \/ Summary
      <4>1. loop'.pc \in {"failed", "each"} \/ Summary
        BY <1>0, <3>4, ConnectLocations DEF FromTo
      <4>2. Further \/ Leaves
        <5>1. ConnectFailed \/ DiscoveryFails => Further \/ Leaves
          BY FailMoves DEF ConnectFailed, DiscoveryFails, AtDevice
        <5> QED
          BY <3>4, <5>1 DEF Discovered, Further, Summary, Leaves, AtDevice, Connecting
      <4> QED
        BY <2>1, <2>2, <4>2
    <3> QED
      BY <3>1, <3>2, <3>3, <3>4, <3>5 DEF ConnectStep
  <2> QED
    BY <1>0, <2>1, <2>2, <2>3, ConnectMoves
<1> QED
  BY <1>1, <1>2

\* Nothing is tried after setup().
LEMMA InitRoundInv == Init => RoundInv
<1> SUFFICES ASSUME Init PROVE RoundInv
  OBVIOUS
<1>1. advDevices = Nothing /\ loop = AtTop
  BY DEF Init, Nothing
<1> QED
  BY <1>1, NothingDistinct, OutOfRound DEF RoundInv, AtDevice, Retried

\* RoundInv is kept by every step.
LEMMA NextRoundInv == TypeOK /\ RoundInv /\ [Next]_vars => RoundInv'
<1> SUFFICES ASSUME TypeOK, RoundInv, [Next]_vars PROVE RoundInv'
  OBVIOUS
<1>1. \A k \in Kinds : Distinct(advDevices'[k], OfKind(k))
  BY NextDistinct DEF RoundInv
<1>2. CASE UNCHANGED loop
  BY <1>1, <1>2 DEF RoundInv
<1>3. CASE ConnectStep
  BY <1>1, <1>3, ConnectRound DEF RoundInv
<1>4. ASSUME loop'.via = "new", loop'.pc \notin AtDevice PROVE RoundInv'
  BY <1>1, <1>4 DEF RoundInv
<1>5. ASSUME NEW k, Enter(k) PROVE RoundInv'
  <2>1. loop'.via = "new" /\ loop'.pc = "each"
    BY <1>5 DEF Enter, AtTop
  <2> QED
    BY <1>4, <2>1 DEF AtDevice, Retried
<1>6. CASE NoBmsToConnect \/ NoThermoToConnect \/ MainFail \/ Rescan \/ Wild
           \/ Panic \/ DailyReset
  <2>1. \/ loop' = AtTop \/ loop' = RoundOver
        \/ loop' = [AtTop EXCEPT !.pc = "thermo"]
        \/ loop' = [AtTop EXCEPT !.pc = "rescan", !.kind = loop.kind]
        \/ loop' = [AtTop EXCEPT !.pc = "wild"]
    BY <1>6 DEF NoBmsToConnect, NoThermoToConnect, MainFail, Rescan, Wild,
                Panic, DailyReset, Reboot
  <2>2. loop'.via = "new" /\ loop'.pc \in {"top", "thermo", "rescan", "wild"}
    <3>1. CASE loop' = AtTop \/ loop' = RoundOver
      BY <3>1, OutOfRound
    <3>2. CASE loop' = [AtTop EXCEPT !.pc = "thermo"]
      BY <3>2, OutOfRound, Zenon
    <3>3. CASE loop' = [AtTop EXCEPT !.pc = "rescan", !.kind = loop.kind]
      BY <3>3 DEF AtTop
    <3>4. CASE loop' = [AtTop EXCEPT !.pc = "wild"]
      BY <3>4, OutOfRound, Zenon
    <3> QED
      BY <2>1, <3>1, <3>2, <3>3, <3>4
  <2>3. loop'.pc \notin AtDevice
    BY <2>2 DEF AtDevice, Retried
  <2> QED
    BY <1>4, <2>2, <2>3
<1>7. CASE loop'.pc = "wild" /\ loop'.via = "new"
  BY <1>4, <1>7 DEF AtDevice, Retried
<1> QED
  BY <1>2, <1>3, <1>5, <1>6, <1>7, HostKeepsLoop
  DEF Next, LoopStep, TakeConnect, TakeConnectThermo, vars

\* The parts after a step.
LEMMA PartNext ==
    /\ Part' \in 0 .. 8
    /\ loop'.pc = "top" => Part' = 8
    /\ loop'.pc = "wild" => Part' = 7
    /\ loop'.pc = "thermo" => Part' = 3
    /\ loop'.pc \in Connecting => Part' = IF loop'.kind = "bms" THEN 0 ELSE 4
    /\ loop'.pc = "failed" => Part' = IF loop'.kind = "bms" THEN 1 ELSE 5
    /\ loop'.pc = "rescan" => Part' = IF loop'.kind = "bms" THEN 2 ELSE 6
  BY DEF Part, Connecting, AtDevice, Retried

\* What a step of the loop task does, outside the top of loop().
LEMMA StepAdvances ==
    ASSUME TypeOK, RoundInv, LoopStep, loop.pc # "top"
    PROVE  \/ Part' > Part
           \/ /\ Part' = Part
              /\ loop'.idx > loop.idx
              /\ loop'.idx <= Cardinality(OfKind(loop.kind)) + 1
           \/ Part' = Part /\ loop'.idx = loop.idx /\ Stage' > Stage
<1>0. loop \in Loop
  BY DEF TypeOK
<1>1. loop.kind \in Kinds /\ loop.idx \in Nat
  BY <1>0 DEF Loop
<1>2. CASE ConnectStep
  <2>1. CASE Later
    <3>1. Part = IF loop.kind = "bms" THEN 0 ELSE 4
      BY <2>1, PartIs DEF Later
    <3>2. Part' = IF loop'.kind = "bms" THEN 0 ELSE 4
      BY <2>1, PartNext DEF Later
    <3> QED
      BY <2>1, <3>1, <3>2 DEF Later
  <2>2. CASE Further
    <3>1. /\ loop'.pc = "each" /\ loop'.kind = loop.kind
          /\ loop'.idx = loop.idx + 1
      BY <1>0, <2>2 DEF Further, NextDevice, Loop
    <3>2. loop.idx <= Cardinality(OfKind(loop.kind)) /\ loop.pc \in Connecting
      BY <2>2 DEF Further, RoundInv, Connecting
    <3>3. Cardinality(OfKind(loop.kind)) \in Nat
      BY <1>1, OfKindFinite
    <3>4. Part' = Part
      BY <3>1, <3>2, PartIs, PartNext DEF Connecting
    <3> QED
      BY <1>1, <3>1, <3>2, <3>3, <3>4
  <2>3. CASE Leaves
    <3>1. Part = IF loop.kind = "bms" THEN 0 ELSE 4
      BY <2>3, PartIs DEF Leaves
    <3>2. Part' > Part
      BY <1>0, <2>3, <3>1, PartNext, LeavesOutside
    <3> QED
      BY <3>2
  <2> QED
    BY <1>0, <1>2, <2>1, <2>2, <2>3, ConnectMoves
<1>3. CASE MainFail \/ Rescan
  <2>1. /\ loop.pc = "failed" => Part = IF loop.kind = "bms" THEN 1 ELSE 5
        /\ loop.pc = "rescan" => Part = IF loop.kind = "bms" THEN 2 ELSE 6
    BY PartIs
  <2>2. \/ loop' = RoundOver /\ loop.pc \in {"failed", "rescan"}
        \/ /\ loop' = [AtTop EXCEPT !.pc = "rescan", !.kind = loop.kind]
           /\ loop.pc = "failed"
    BY <1>3 DEF MainFail, Rescan
  <2>3. \/ loop'.pc = IF loop.kind = "bms" THEN "thermo" ELSE "top"
        \/ loop'.pc = "rescan" /\ loop'.kind = loop.kind /\ loop.pc = "failed"
    <3>1. CASE loop' = RoundOver
      BY <3>1, OutOfRound
    <3>2. CASE /\ loop' = [AtTop EXCEPT !.pc = "rescan", !.kind = loop.kind]
               /\ loop.pc = "failed"
      <4>1. loop'.pc = "rescan" /\ loop'.kind = loop.kind
        BY <3>2 DEF AtTop
      <4> QED
        BY <3>2, <4>1
    <3> QED
      BY <2>2, <3>1, <3>2
  <2> QED
    BY <2>1, <2>2, <2>3, PartNext
<1>4. CASE TakeConnectThermo
  <2>1. loop.pc = "thermo" /\ loop' = [AtTop EXCEPT !.pc = "each", !.kind = "thermo"]
    BY <1>4 DEF TakeConnectThermo, Enter
  <2>2. loop'.pc = "each" /\ loop'.kind = "thermo"
    BY <2>1 DEF AtTop
  <2> QED
    BY <2>1, <2>2, PartIs, PartNext DEF Connecting
<1>5. CASE NoThermoToConnect \/ Panic
  <2>1. loop' = AtTop
    BY <1>5 DEF NoThermoToConnect, Panic, Reboot
  <2> QED
    BY <2>1, PartIs, PartNext, OutOfRound
<1>6. CASE Wild
  <2>1. loop.pc \in {"connect", "discover"} /\ loop' = [AtTop EXCEPT !.pc = "wild"]
    BY <1>6 DEF Wild
  <2>2. Part \in {0, 4}
    BY <2>1, PartIs DEF Connecting, AtDevice, Retried
  <2> QED
    BY <2>1, <2>2, PartNext, OutOfRound
<1> QED
  BY <1>2, <1>3, <1>4, <1>5, <1>6 DEF LoopStep, TakeConnect, NoBmsToConnect

\* LoopReturns without the fairness: outside the top of loop() each step of the
\* loop task leads to a later part, to the next device, of no more than there
\* are, or to a later step with the same device, for all sets of devices.
THEOREM LoopAlwaysAdvances == Spec => LoopAdvances
<1>1. TypeOK /\ RoundInv /\ [Next]_vars =>
          [LoopStep /\ loop.pc # "top" =>
              \/ Part' > Part
              \/ /\ Part' = Part
                 /\ loop'.idx > loop.idx
                 /\ loop'.idx <= Cardinality(OfKind(loop.kind)) + 1
              \/ Part' = Part /\ loop'.idx = loop.idx /\ Stage' > Stage]_vars
  BY StepAdvances
<1> QED
  BY <1>1, TypeCorrect, InitRoundInv, NextRoundInv, PTL DEF Spec, LoopAdvances

=============================================================================
