# A verification project for BLE-Multi-Servers

BLE-Multi-Servers is firmware for an M5Core2 (ESP32).  It connects to several
battery boards (BMS) and thermometers over Bluetooth Low Energy, polls the
boards, and publishes what it learns over MQTT; MQTT commands switch the
charge and discharge MOSFETs of the boards.  This directory holds TLA+ modules
of the firmware, TLC configurations that check them on small instances, and
TLAPS proofs of the most important properties for all instances.

The application is about 3,800 lines of C++; `lib/NimBLE` is a vendored
Bluetooth host of 190,000 lines, of which the functions the application calls
are modelled.

    tlc -workers 2 -config session_safety.cfg MCBleSession
    tlc -workers 2 -config packet_polling.cfg BmsPolling
    tlc -workers 2 -config timers_boards.cfg MCLoopTimers
    tlapm BleSession_proofs.tla

## 1. Inventory

Two tasks share all state without a lock.  The *loop task* (Arduino, core 1)
runs `loop()`; it blocks for seconds in `NimBLEClient::connect()`, in service
discovery and in MQTT.  The *host task* (NimBLE, core 0) calls back
`MyScanCallbacks`, `MyClientCallbacks::onDisconnect` and
`MyNotification::notifyCB`.

| component | state | operations | correct when |
|---|---|---|---|
| `main.cpp` | `failCount`, timers in the devices | `setup`, `scanBle`, `loop` | it always comes back, rescans while its budget lasts, publishes each update once |
| `MyScanCallbacks` | `advDevices`, `advThermoDevices`, `bleDevices`, `thermoDevices`, `doConnect`, `doConnectThermo` | `onResult`, `onScanEnd` | each scan ends in a connect request or in another scan; it rebuilds the lists only when no session uses them |
| `MyClientCallbacks` | `numberOfConnectedBMS`, `numberOfConnectedThermo` | `onConnect`, `onDisconnect`, `clearResources` | flags and counters agree with the links; a lost link leads to a new scan |
| `MyNotification` | `failCount`, the index and `pClient` of the loop | `connectToServer`, `connectToThermo`, `notifyCB` | it ends; it uses only clients that exist; it connects every device or says so |
| `MyGetIndex` | none | look-up by address | finds the device of a client |
| `MyBLE2` | `toggle`, `newPacketReceived`, `packBasicInfo`, `packCellInfo`; statics of `bleCollectPacket` | `sendInfoCommand`, `mosfetCtrl`, `bleCollectPacket`, `bmsProcessPacket`, `timeout` | what it stores is one packet of its board; loop() hears of it |
| NimBLE | client pool, scan results, GAP state | `connect`, `deleteClient`, `start`, events | (taken as it is) |
| `MyMqtt` | server, `mqttDisabled`, device list | `reConnectMqttServer`, `publish`, `mqttCallback` | commands switch what they name and nothing else; reconnecting ends |
| `MyM5` | info vectors, `bmsIndexShown`, lcd and led states, timers | `detectButton`, `updateBmsInfo`, `timeout` | indices are within the vectors and name the same devices |
| `MySdCard` | files | `loadConfig`, `updatePOI` | the index names files that exist |
| `MyThermo`, `VoltMater`, `MyWiFi`, `MyLog` | a value each | read, print, connect | (simple) |

How they interact: `onResult` fills `advDevices`; `onScanEnd` builds
`bleDevices` from it and sets `doConnect`; `loop()` takes `doConnect` and calls
`connectToServer`, which blocks in NimBLE and indexes both lists by the same
index; `onDisconnect` on the host task ends every link, clears the lists and
scans again, whatever the loop task is doing; `notifyCB` stores packets into
`bleDevices` and sets `newPacketReceived`, which `loop()` resets when it
publishes and `sendInfoCommand` resets when it has sent.

What is hard here: callbacks between any two steps of the loop task; lists
indexed after a blocking call; pointers into lists and pools that the other
task frees; two budgets of failures whose exhaustion must not end recovery;
a packet collector whose state is shared by all boards and outlives sessions;
flags written by both tasks.  `PROJECT.json` lists these hazards one by one,
each at its line, with the properties that cover them.

## 2. Modules

### BleSession

Scanning, connecting, losing and recovering devices.

| model | code |
|---|---|
| `gap` | what the GAP master does: nothing, scan, connect, or end an attempt `connect()` has given up |
| `client` | `NimBLEDevice::m_pClients`, per slot: free, disconnected, connected, connected with termination requested, and the peer address |
| `advDevices[k]` | `advDevices`, `advThermoDevices`: addresses, and whether the result pointed to exists |
| `devices[k]` | `bleDevices`, `thermoDevices`: address, `connected`, the client whose characteristic `pChr_tx` is |
| `doConnect[k]`, `numberOfConnected[k]` | the variables of these names for both kinds |
| `failCount`, `mainFailCount` | the counters of `MyNotification` and of `main.cpp`, up to their limit plus one (only the comparison matters) |
| `loop` | where the loop task is, its kind of device, index, `pClient`, the call of `connect()` it is in |
| `lastScan` | history: what became of the last scan asked for: pending, found something, found no board, refused |

A callback of the host task is one action (`ScanResult`, `ScanEnd`, `LinkUp`,
`AttemptFails`, `CancelledAttemptEnds`, `Disconnect`, `EstablishmentFails`).
The loop task is cut wherever it blocks, calls into NimBLE or reads again what
the host task writes: `ForEach`, `Pick`, `CheckPool`, `CreateClient`,
`CheckConnected`, `ConnectRefused`, `ConnectStarts`, `ConnectResumes`,
`ConnectTimesOut`, `OnConnect`, `ConnectReturns`, `ReconnectFailed`,
`ConnectFailed`, `Discovered`, `DiscoveryFails`, `Summary` for the connect
functions, and `TakeConnect`, `NoBmsToConnect`, `TakeConnectThermo`,
`NoThermoToConnect`, `MainFail`, `Rescan`, `DailyReset` for `loop()`.
`connectToServer` and `connectToThermo` are one text but for the reconnect
branch, the warnings and the characteristics, so they are one set of actions
with `loop.kind` as the difference.

Undefined behaviour is modelled by what the build can do.  A read through a
dangling pointer, or the missing argument of a `%s` (main.cpp:229 and 278), gives
the old value or a panic (`BadRead`).  `at()` beyond a list throws an exception
nobody catches, and the chip restarts (`OutOfRange`, `Panic`).  After
`connect()` through a freed client, or a write of a characteristic beyond
`bleDevices`, the loop task is in `"wild"`, about which nothing is said but
that it may restart.

Abstractions.  A callback is atomic with respect to the loop task.  The stages
of service discovery, each with the same failure branch, are one action, with
the one difference they leave (`pChr_tx` overwritten with null).
`EstablishmentFails` happens only while a task waits, as the controller reports
it only then.  `Disconnect` leaves out the decrement of the counter, which
`clearResources` sets to 0 in the same callback.  A host reset, `numberOfScan`,
the copies of the counters in `MyM5` and `pChr_rx` are left out.

`ConnectTimesOut` is the workaround in `connect()`: its wait is over, it asks the
controller to cancel, deletes the client and returns, while the attempt goes on
until `CancelledAttemptEnds`.  In between a scan cannot be started and a
`connect()` is refused; the scan that is refused is not asked for again
(`lastScan = "refused"`).  The event that ends the attempt has the deleted client
as its argument.

What recovery means.  `WillRescan` is a link that is really there, to a device
the lists know: its end scans again.  `RecoveryArmed` says that at the top of
`loop()` there is such a link, or a scan, or a request to connect, or one of the
three ways of giving up (`GivenUp`).  One of them is a scan that ends without a
board: `onScanEnd` then returns at once, thermometers or not, and nothing scans
again before the daily reset, although its comment (MyScanCallbacks.cpp:83) says
"process the results of the completed scan or restart it".  `numberOfConnected`
is not taken for a link: a link that is lost between `connect()` and `onConnect`
leaves a *phantom*, a device that is counted and flagged without a link, whose
disconnection has been and gone.  As long as a failure ends the round
(`failCount <= FAIL_LIMIT`) the phantom does no harm, as `loop()` clears the
counters and rescans; after that the failed round goes on, ends with a count
above 0, and "succeeds".  `PhantomKept` is that case, the only exception of
`RecoveryArmed`, and `session_phantom` shows it.

### BmsPolling

Info commands, answers in one or two notifications, the collector, and the
publication of the data.  A fragment is a record: the frame it is part of,
which part, whether it begins with DD and ends with 77, all the code looks at.
`SendInfoCommand` is `sendInfoCommand` up to the write, `ResetFlag` its last
statement; `TakePacket` and `Publish` are the two halves of the publication in
`loop()`; `CollectPacket` is the whole notification handler (`notifyCB`,
`bleCollectPacket`, `bmsProcessPacket`).  `LinkLost` and `SessionRestart` stand
for what BleSession models in detail; that a session is set up again only while
`loop()` is at its top is an assumption of this module.

Nothing in the module keeps the answers of the boards apart: every board may be
polled whenever `loop()` is at its top, as it may be once a pass has been late
(LoopTimers), and every answer may have a 77 before its cut and a DD behind it.
The properties bound what follows.  The history `tally` counts the damage,
packets no board has sent (`bad`) and answers that made none (`swallowed`), and
its causes: `cuts`, answers a lost link ended in the middle, `overlaps`, answers
that began in the middle of another board's, and `marks`, accidental marks.
`disturbed` are the answers cut or overlapped, `missed` the boards whose last
answer leaves no flag set; `unpublished` are the boards with news.  The answers of
the boards to MOSFET commands are in MosfetControl.

### MosfetControl

The charge and discharge commands for one board, from the MQTT message to the
board and back to the retained STATE message.  `Command` is the part of
`mqttCallback` that finds the topic and reads `MosfetStatus`, `Answer` the rest
of it with `mosfetCtrl` and `bmsMosfetCtrl`; between them the host task may store
a new status or lose the link.  `SendInfoCommand`, `ResetFlag`, `TakePacket`,
`Publish` and `ProcessPacket` are the polling of BmsPolling with packets that
arrive whole, and with the status in them; `BoardActs` is the board.  `phase` is
what `mqttCallback` can find of the board while `bleDevices` and `advDevices` are
cleared, filled and rebuilt (BleSession has the detail); a command in the phases
where `pChr_tx` is null or stale is the `Panic`.  Controls are numbered, which
the code does not do, so that the properties can speak of "a poll after the last
command".

The history variable `hasty` records that, since the entry was last rebuilt, a
command came before the last one had shown in a poll (up to 20 s).  Two such
commands undo each other, because the second sets the other switch to what was
polled before the first; `SwitchesObeyed` is therefore about users who are not
hasty, `ShownIsTruth` and `ShownConverges` about all.  A STATE message may be lost
(`Publish` and `Answer` leave `shown` alone): `publishJson` connects again when it
finds the connection down, but looks at no result.  The history `stale` says
that news was lost, by such a message or by the reset of the flag in
`sendInfoCommand`; `ShownIsTruth` holds when it is not, `ShownConverges` in spite
of it.  `mqttDisabled`, with which nothing is published any more, is set only
before `M5.shutdown` and is in MqttReconnect.  The board is assumed to
switch its MOSFETs on command only.

### DeviceLinks and BleSessionLinks

`DeviceLinks` is what the session promises on the air, without lists, client
pool or tasks: the controller scans, tries one device or rests; a device has at
most one link; a scan starts only when every link has ended or its end has been
requested; losing one device ends all.  `BleSessionLinks` is the refinement
mapping: the link of a device is the state of the client that is connected to
it, the attempt is the one `connect()` waits for.  After `Abandon` the radio is
still busy with an attempt, but to no device: that is a time-out of `connect()`,
and no link can come of it.  `ImplementsDeviceLinks` is
the specification of `DeviceLinks` under that mapping, a property of
BleSession.

### LoopTimers

When `loop()` polls the boards, publishes the thermometers and the panel, and
restarts the chip.  A pass is the parts `bmsRound` and `thermoRound` (each with
a `...Connect` part, if `doConnect` is set), `bms` (the loop over the boards),
`panel`, `pause` (`powerSave`), `thermo` and `reset`; `Tick` lets time pass in a
part, up to `MaxPart`, or up to `MaxRound` where `connectToServer` or
`connectToThermo` blocks. `doConnect` is cleared before a round, so that a scan
that ends meanwhile asks for another; the offsets count from the end of the
round, and the round of the thermometers does not touch the timers of the boards
that have been set just before it: they are late by it.  `millis` is the true
time modulo `Wrap`, as the 32-bit counter is; `Timeout` compares sums of it as
the code does, and `due` is the history of the true time from which a device is
due.  `ClockSync` is SNTP setting the clock later than `setupDateTime()` has
waited; `getTime` is what `lastReset` is compared with.

Abstractions: a scan finds all devices (a device that is not found is not
polled, which `polling` has anyway); the voltmeter has the same
timeout but is not among the devices.

What the stagger is worth: the third board's offset of 9.6 s is only 400 ms
short of the interval, so it comes just before the first one's next poll, while
`powerSave` stops `loop()` for 3 s each minute.  `ApartUntilLate` says what is
left of the promise of main.cpp:223: two boards are polled in one pass only
after one of them has been polled late by as much as they are apart.  Nothing
moves them apart again.  BmsPolling therefore relies on no stagger at all:
`packet_overlap` shows what may come, and its other properties how far it goes.

### MqttReconnect

`publish` and `publishJson` find the connection lost and call
`reConnectMqttServer`, which tries the servers, announces itself with
`publish` (which may call it again) and subscribes.  All this is on one task;
the stack of activations is the number `depth`, as each of them has only its
subscriptions and its return left.  `ServerLost`, `WiFiLost` and `WiFiBack` are
the network.  `PowerOff` and `PowerStays` are the two outcomes of
`M5.shutdown(1)`; in the second, on external power, `mqttDisabled` stays set,
and nothing is published any more once the connection is back.  With a
configuration of one server the fourth try goes to the host `"null"`, therefore
`ServerConfigured` asks for two.

### PoiUpdate

`updatePOI`: the index, the removal of the old files, the new index, the files.
A download fails or not, each operation of the card fails without notice or
not, and `Reboot` may happen between any two operations.  The contents of a file
are where they came from: an earlier boot, one of the two URLs, or cut short.

### BmsValues

The numbers of `processBasicInfo` and `processCellInfo` in the widths of their
variables, one packet into a new object.  `Product32` is the product of
millivolts and milliamps in 32 bits; `Sorted` is the part of the array that the
median is taken from, without the first cell and with what the stack holds
behind the last one.  `behind` is that place of the stack: the sort leaves its
greatest number there, which may be another variable's memory or none's.
`numberOfTemperature` is 2 and never assigned.  Four limits of the code show in
these definitions and are bounded by the properties rather than denied: beyond
2147 W the power changes its sign, below 0 degrees the temperature wraps to more
than 6500 degrees, cells that add up to more than 65535 mV have an average below
all of them, and the median is the median of other cells, though off by one
place at most.

### Others

`MCBleSession` adds the symmetry of devices for TLC, `MCLoopTimers` gives the
offsets in units of 2 s.  The modules `..._proofs` hold the theorems.  Definitions
marked "mutant" are variants of the definition that follows them, with a
plausible bug; `PROJECT.json` names
the property that notices each.

## 3. Runs

| run | instance | states | shows |
|---|---|---|---|
| `session_safety` | 2 boards, 1 thermometer, 2 clients, limits 1 | 2.2 M | `TypeOK`, `ClientAvailable`, `NoSessionDuringScan`, `LiveLinkIsFlagged`, `RecoveryArmed`, `ImplementsDeviceLinks` |
| `session_returns` | 2 boards, 2 clients, limits 3 and 4 as in the code, fairness | 1.1 M | `RecoveryArmed`, `LoopReturns`, `LoopAdvances` |
| `packet_polling` | 2 boards, 3 commands, 1 restart, any overlap and mark | 9.1 M | `TypeOK`, `CorruptionBounded`, `AnswersAccounted`, `InfoIsOwn`, `UpdateAnnounced` |
| `mosfet_commands` | 2 commands at any moment, fairness | 0.30 M | `TypeOK`, `SwitchesObeyed`, `ShownIsTruth`, `ShownConverges` |
| `timers_boards` | 3 boards, 1 thermometer, 2 scans between boots | 4.9 M | `TypeOK`, `NeverLate`, `NeverEarly`, `ApartUntilLate`, `ResetOnceEveryday` |
| `mqtt_outages` | 3 topics, 2 servers, 3 losses, fairness | 7,800 | `TypeOK`, `CommandsHeard`, `ServerConfigured`, `NestedByLoss`, `OutageEnds`, `OutageCountsDown` |
| `poi_update` | indices of up to 3 files | 3.5 M | `TypeOK`, `CompleteOrLost`, `KeptWithoutIndex`, `NoMixture`, `CountOfIndex` |
| `values_limits` | packs of 1, 2, 3, 4, 15 cells, extreme numbers | 4,200 | `TypeOK`, `AverageWithin`, `MedianNearMiddle`, `WattsToTheLimit` |
| `session_phantom` | violated | | `connectToServer()` reports success for a board whose link is gone, and nothing scans again |
| `session_reuse` | violated | | a deleted client is "reused" |
| `packet_overlap` | violated | | overlapping answers mix in the shared buffer |
| `packet_marker` | violated | | a data byte 77 before the cut ends a packet |

Bounds.  Two boards are needed for a loss of one while the other is being
connected, and for a list that changes under the loop; the thermometer adds the
second kind, which shares counters, pool and budget.  Two clients for three
devices make the pool too small, so that `Max clients` is reached.  A limit of 1
lets both sides of each `failCount` test happen; the limits of the code are
checked without the thermometer, and `session_phantom` with one board.  Three
commands let two boards overlap in both orders with a third answer before,
between or after them, and a cut or swallowed answer be followed by whole ones;
a restart lets the collector's state outlive a session.

Two MOSFET commands are the least that can undo each other, in every order and
overlap, and leave a wrong STATE that has to be put right, with a message lost
at any time; the theorems are about any number of them.  In `timers_boards` a
unit is 2 s: interval 5, offsets 0, 2 and 4 (10 s and 4.8 s in the code), a
pause of 2; the first two boards are polled twice before the restart after 11,
with a part of up to one unit anywhere, rounds of up to two, a scan at any
moment, a second one that may end a staggered session, and the clock set at
boot, later, or never; `Wrap` is the smallest that `RestartAssumption` allows,
so that a restart a few units later would let the sums wrap.  Two servers and
three losses let an activation nest twice in another, with a server change in
each; three files let the first and the second succeed and the third fail, with
leftovers of an earlier, longer index.  15 cells of 4369 mV add up to the last
sum that fits in 16 bits, with 4370 mV to the first that does not.  The cells
of a pack have at most three levels, which is what sums, extremes and a median
by ranks can tell apart.

Deadlock is checked in the session, MOSFET, timer, MQTT and POI runs: some
action is always possible.  It is off in the polling runs, where the bound on
commands and restarts ends every behaviour, and in `values_limits`, where a
behaviour is one packet.

Fairness (`session_returns`).  The scheduler runs the loop task whenever it can
go on (weak fairness of `LoopStep`); in `connect()` it can, because the wait has a
time-out.  Nothing is assumed of the radio, of advertisements, scans or
disconnections.  `LoopReturns` is the claim that would fail if the connect
functions could be kept going by the host task's changes to their lists.
`LoopAdvances` says why they cannot, without fairness: every step of a round goes
on in the order of part, index and stage, and the index stays within one more
than the devices there are.

Fairness (`mosfet_commands`).  The steps of `loop()`, the board and the radio go on
(weak fairness).  Strong fairness rules out three kinds of endless bad luck.
The timing of seconds against microseconds excludes two: that every answer arrives
between the two statements of `sendInfoCommand`, and that every poll comes before
`loop()` has looked at `newPacketReceived`.  The third is that every STATE message is
lost: an outage that long ends in a shutdown (MqttReconnect).

Fairness (`mqtt_outages`).  The task goes on (weak fairness of `Task`): every
call to the network returns within its timeout.  Nothing is assumed of the
server or of the WiFi.  `OutageCountsDown` is the safety part of `OutageEnds`: the
steps the task has left in an outage are a natural number, which each of its steps
lowers and the network never raises.

## 4. What is proved

For all sets of devices, pool sizes and limits (`BleSession_proofs`):

* `TypeCorrect`: `Spec => []TypeOK`.
* `ScansAreSessionFree`: `NoSessionDuringScan`.  It is not inductive.  `ScanInv`
  adds that while an attempt is in progress the GAP procedure is `"conn"`, so a
  scan cannot be on when the link comes up, and that the loop task reaches the
  start of a scan (`"rescan"`) with every link terminated.  Each start of a scan
  then follows a termination of all links with no step between that makes one.
* `ClientAlwaysAvailable`: `ClientAvailable`.  Between the check and the
  allocation the host task only frees clients; the pool has `MAX_CONNECTIONS`
  slots, so the check leaves one.
* `LoopAlwaysAdvances`: `LoopAdvances`.  The bound on the index is what needs an
  invariant, as the list it runs over may be emptied and filled again under it.
  `RoundInv` says that no list has a device twice (`onResult` looks a device up
  before it appends it), so none is longer than there are devices
  (`DistinctLength`), and neither is an index that has once been within one; and
  that only the branch for a client found disconnected goes through the stages of
  a device a second time.  The theorem covers both kinds of device; the run has
  boards only.

For all sets of boards and any number of commands and restarts
(`BmsPolling_proofs`):

* `TypeCorrect`: `Spec => []TypeOK`, without further assumptions.
* `CorruptionAlwaysBounded` and `AnswersAlwaysAccounted`, for overlapping answers
  and any data.  The invariant `ContentInv` has four parts: each board's
  notifications on the way are the rest of one answer followed by whole ones
  (`AirInv`); what the buffer holds in `packetstate` 1 is the first half of an answer,
  which is disturbed unless it is the one in progress (`BuffInv`); and the damage
  done so far, plus what the buffer and the answers in progress can still do, is
  at most the causes counted (`BadInv`, `SwallowedInv`).
* `InfoAlwaysOwn`: what is stored is one whole answer of the board or begins with a
  disturbed one.  It is inductive next to `ContentInv`: a packet is put together
  from the buffer and what arrives, and `BuffInv` says what the buffer is.
* `UpdateAlwaysAnnounced`: `UpdateInv` adds that between the write and the reset of
  the flag the answer is still on its way, or the board is among the `missed`.

For any number of commands (`MosfetControl_proofs`):

* `TypeCorrect`: `Spec => []TypeOK`.
* `ShownAlwaysTruth`: `ShownIsTruth`, for commands at any moment.  The invariant
  `TruthInv` orders the controls by their numbers (`InOrder`), so that a basic
  info behind the last executed one is true, on its way and stored
  (`PollsTrue`), and a new control makes every earlier poll old; it adds that
  what a command has read is the last poll unless `newPacketReceived` announces a
  newer one, and so is what STATE shows unless a message was lost since.
* `SwitchesAlwaysObeyed`: `SwitchesObeyed`.  `ObeyInv` adds that, without a hasty
  command, the last control asks for what is wanted until it is executed, and that a
  command in progress has read a status that is as wanted.

For all sets of devices, pool sizes and limits (`BleSessionLinks_proofs`):

* `SessionImplementsLinks`: BleSession implements DeviceLinks.  On top of
  `ScanInv` it takes `LinkInv`: a client with a link has the address of a device
  and no other client has a link to that device (`OneLink`); during an attempt
  the awaited client is disconnected, has the address of the target, and no
  client has a link to the target (`AttemptIsAlone`).  Then each action is one
  step of DeviceLinks or leaves the mapped state alone.
* `SessionsFlagged`: `LiveLinkIsFlagged`.  `FlagInv` adds to `LinkInv` that the
  link `connect()` waits for, or has just seen come up, is one to the device
  whose address `onConnect` looks up (`AwaitedHasTarget`).  A step that lowers a
  flag is then either the loss of a known device, which ends every session, or
  the rebuild at the end of a scan, during which `ScanInv` says there is none.

* `RecoveryNeverLost`: `RecoveryArmed`.  Outside the connect functions no attempt is
  awaited, so a scan is refused only for a cancelled one, which `lastScan`
  records (`Armed`).  That a count above 0 is not a phantom is the hard part:
  `BackedOrRetried` says that while failures end the round and the firmware has
  not given up, a count is backed by a link, or the round is bound to fail
  (`Doomed`) and clears it, or the boards of the last scan are still to be
  connected, the first of them with a client at hand (`Retrying`); `CountInv` is
  what it needs of `connect()` and of a scan that starts meanwhile.

For any number of devices, all intervals, offsets and word sizes
(`LoopTimers_proofs`):

* `TimersTypeOK`: `Spec => []TypeOK`.
* `PollsNeverEarly`: `NeverEarly`.  `PassInv` bounds the time by the restart and
  the part of the pass, so no sum of `TimerInv` has wrapped, and `timeout()`
  compares true times.  This rests on `RestartAssumption`: the restart comes a
  pass and a first poll before `millis()` wraps, as one day does before 49.
* `BoardsApartUntilLate`: `ApartUntilLate`.  The time a board is due, less its
  offset and what it has been polled late by, is the same for all boards up to
  whole intervals (`SpacedInv`); the offsets are less than an interval, so two
  boards that become due together have lost the difference of their offsets.
* `PollsNeverLate`: `NeverLate`.  `LateInv` bounds, for each part, what has passed
  since the device was last looked at.
* `RestartsOnceADay`: `ResetOnceEveryday`.  `lastReset` is what the clock showed
  at boot, or the clock has been set since, which the next boot finds done.

For any number of topics, servers and losses (`MqttReconnect_proofs`):
`MqttTypeOK`, `EveryCommandHeard` (what an activation has been through is
subscribed as long as its connection stands), `ServersConfigured` (the index
moves once, after the third failure) and `NestingCostsLoss` (an activation that
announces itself over a lost connection has had its loss counted).
`OutageAlwaysCountsDown` is `OutageCountsDown`: with `TriesInv`, that before it
gives up `reConnectMqttServer` has not failed five times, `StepsLeft` is a
natural number, and each action of the task lowers it (`TaskCounts`) while none
of the network raises it (`NetworkCounts`).

For indices of any length (`PoiUpdate_proofs`): `PoiTypeOK`, `NoIndexNoLoss`
(nothing is removed before an index is there), `OneSource` (before the first
write nothing is left that could be removed, and all writes of a call are from
its URL), `SuccessIsComplete` (`CallInv` says for each part of a call what is
still to come, so that `true` is returned with nothing to come and only what the
card has lost missing) and `CountIsOfIndex` (`numberOfPoi` and the size of the
index differ between its download and its writing only).

For every packet a board can send (`BmsValues_proofs`):

* `PowerToTheLimit`: `WattsToTheLimit`.  Up to 2147 W the product does not wrap
  (`ProductFits`), and a quotient toward zero is off by less than one watt and has
  the sign of what is divided (`TowardZero`).
* `AverageInside`: `AverageWithin`.  The sum of n cells between a least and a
  greatest voltage is between n times each (`SumBounds`), so as long as it fits in
  16 bits its n-th part lies between the two (`AverageBetween`).
* `MedianOnePlaceOff`: `MedianNearMiddle`.  Leaving one cell out and taking another
  value in changes by at most one how many are below, or at most, a given
  voltage (`SortedCounts`); what stands at a place of the one order therefore
  stands within one place of it in the other (`RanksNear`).
* `ValuesTypeOK`: `Spec => []TypeOK`.  The least and greatest are of a finite set,
  the power is a number of 32 bits divided by a million, the average is the n-th
  part of a number of 16 bits, whether it has wrapped or not, and the median, of cells
  and leftover, is one of them or between two.

The sum is a fold over the cells and the ranks are counts, for packs of any
number of cells: both go by induction over that number.  An induction theorem
that takes a predicate cannot be cited, so `LeastNatural` derives from `WFMin` and
`NatLessThanWellFounded` that a set of naturals that is not empty has a least
element, and `Induction` states induction for sets.

Assumptions on constants: `SessionAssumption`, `PollingAssumption`,
`MosfetAssumption`, `TimersAssumption`, `RestartAssumption`, `MqttAssumption`,
`PoiAssumption` and `ValuesAssumption`; TLC evaluates all of them.

`SessionAssumption` includes that there are finitely many boards and thermometers.

Only model-checked: `LoopReturns`, `ShownConverges` and `OutageEnds`, because
liveness under fairness and ENABLED are out of the prover's reach.  Of `LoopReturns`
and `OutageEnds` the theorems above leave that a step of the task is always
possible and is taken; `ShownConverges` rests on the strong fairness
described in section 3.  Every other property of a passing run is a theorem.

## 5. Plan and how it was carried out

1. BleSession with its runs, then its proofs: the core.
2. BmsPolling and MosfetControl, the data and the commands of a session.
3. DeviceLinks, the abstract specification of the session, and its refinement.
4. LoopTimers, which says how long the offsets keep the boards apart, and so why
   BmsPolling does without them.
5. MqttReconnect and PoiUpdate, the parts with a network that fails and a card
   that outlives a restart.
6. BmsValues, the arithmetic.

What would come next: the panel (`MyM5`).

## 6. Not modelled

* The panel (`MyM5` but for its timers): `bmsInfoVec`, `thermoInfoVec` and the
  index shown.  Button B and the MQTT display topics may index the vectors before
  they are filled, or after a scan that found fewer boards; the code does not
  avoid it and no document says otherwise, so there is nothing to check it
  against.
* Reading the configuration from the card, the voltmeter, the values of the
  thermometers, the topics of `mqttCallback` that only answer, `processDeviceInfo`
  and `calcChecksum`: one value is read and stored or printed, with no other task
  involved.
* Steps of another task inside one iteration of the loop over the boards
  (`bleDevices` rebuilt, a client deleted between the test and the use of
  `pChr_tx`): what follows is a use of freed memory, of which no model says
  anything.
* The display's layout, logging, JSON text, Home Assistant discovery payloads.
* The security callbacks: the security mode `scanBle()` sets asks for no
  pairing.  A host reset of the Bluetooth controller.
* NimBLE beyond the functions named in section 2, which is nearly all of the
  lines of this repository: the Bluetooth host, controller and mesh stack,
  vendored, and most of it not compiled for this chip.
