------------------------------ MODULE LoopTimers ------------------------------
(***************************************************************************)
(* The timers of loop(): when the boards are polled, the thermometers and  *)
(* the panel published, and the chip restarted.                            *)
(*                                                                         *)
(* now is the time since the boot; millis() shows it modulo Wrap.  A step  *)
(* of the loop task takes no time, Tick lets it pass between the steps.    *)
(* Polling a device means that its timeout() fired: a command is sent or,  *)
(* for a device that is not connected, {"connected": 0} published.         *)
(***************************************************************************)
EXTENDS Integers, FiniteSets, FiniteSetsExt

CONSTANTS
    Boards,         \* number of boards: their indices are 0 .. Boards - 1
    Thermos,        \* number of thermometers
    Interval,       \* measurmentIntervalMs of a device
    Lead,           \* PUBLISH_LEAD_TIME_BMS and _THERMO, per kind
    Offset,         \* 4800 and 6500 in the code, per kind
    PanelInterval,  \* MyM5::measurmentIntervalMs
    Pause,          \* the delay in powerSave(1)
    ResetInterval,  \* resetIntervalSec, in the unit of the other times
    Wrap,           \* 2^32 in the code: millis() starts again at 0
    Epoch,          \* how far the clock jumps when it is set
    SyncedAtBoot,   \* setupDateTime() gets the time from the server
    MaxPart,        \* longest time between two steps of the loop task, but for
    MaxRound,       \* the time connectToServer() or connectToThermo() blocks it
    MaxScans,       \* bound on the scans in one run of the firmware
    MaxTime         \* bound on now; not reached, as the restart comes first

Kinds == {"bms", "thermo"}
DevicesOf == [k \in Kinds |->
                 {<<k, i>> : i \in 0 .. (IF k = "bms" THEN Boards ELSE Thermos) - 1}]
Devices == DevicesOf["bms"] \cup DevicesOf["thermo"]

ASSUME TimersAssumption ==
    /\ {Boards, Thermos, Pause, MaxPart, MaxRound, MaxScans, Epoch, MaxTime}
           \subseteq Nat
    /\ {Interval, PanelInterval, ResetInterval, Wrap} \subseteq Nat \ {0}
    /\ Lead \in [Kinds -> Nat] /\ Offset \in [Kinds -> Nat]
    /\ SyncedAtBoot \in BOOLEAN

\* when the first poll of a device is to come, from the end of the round
FirstPoll(d) == Lead[d[1]] + Offset[d[1]] * d[2] + Interval

\* the longest pass of loop(): six parts, the rounds of both kinds and a pause
PassTime == 6 * MaxPart + 2 * MaxRound + Pause

\* The restart comes well before millis() wraps: after 86,400 s of the
\* 4,294,967 s, in the code.
ASSUME RestartAssumption ==
    \A d \in Devices : ResetInterval + PassTime + FirstPoll(d) < Wrap

VARIABLES
    now,        \* true time since the boot
    epoch,      \* what DateTime adds to it: 0 until the clock is set
    pc,         \* where the loop task is in loop()
    spent,      \* time since its last step
    doConnect,  \* doConnect and doConnectThermo
    last,       \* lastMeasurment of the devices
    polling,    \* devices loop() polls: boards with pChr_tx, all thermometers
    panelLast,  \* MyM5::lastMeasurment
    lastReset,  \* MyM5::lastReset
    scans,      \* scans that ended since the boot
    due,        \* history: the true time from which a device is due
    slack,      \* history: by how much its polls were late in this session
    staggered   \* history: the last round of the session has set the offsets

vars == <<now, epoch, pc, spent, doConnect, last, polling, panelLast,
          lastReset, scans, due, slack, staggered>>

Parts == {"bmsRound", "bmsConnect", "thermoRound", "thermoConnect", "bms",
          "panel", "pause", "thermo", "reset"}
Millis == 0 .. Wrap - 1

\* The types; now within its bound means that the daily restart comes in time,
\* after whatever rounds, pauses and rescans.
TypeOK ==
    /\ now \in 0 .. MaxTime
    /\ epoch \in {0, Epoch}
    /\ pc \in Parts
    /\ spent \in Nat
    /\ doConnect \in [Kinds -> BOOLEAN]
    /\ last \in [Devices -> Millis]
    /\ polling \in SUBSET Devices
    /\ panelLast \in Millis
    /\ lastReset \in Nat
    /\ scans \in 0 .. MaxScans
    /\ due \in [Devices -> Nat]
    /\ slack \in [Devices -> Nat]
    /\ staggered \in [Kinds -> BOOLEAN]

Init ==
    /\ now = 0
    /\ epoch \in IF SyncedAtBoot THEN {Epoch} ELSE {0, Epoch}
    /\ pc = "bmsRound"
    /\ spent = 0
    /\ doConnect = [k \in Kinds |-> FALSE]
    /\ last = [d \in Devices |-> 0]
    /\ polling = {}
    /\ panelLast = 0
    /\ lastReset = epoch
    /\ scans = 0
    /\ due = [d \in Devices |-> Interval]
    /\ slack = [d \in Devices |-> 0]
    /\ staggered = [k \in Kinds |-> FALSE]

millis == now % Wrap
getTime == epoch + now

-----------------------------------------------------------------------------
(* Time and the other task *)

\* how long the loop task may stay in the part it is in
Limit == CASE pc = "pause" -> Pause
           [] pc \in {"bmsConnect", "thermoConnect"} -> MaxRound
           [] OTHER -> MaxPart

Tick ==
    /\ spent < Limit
    /\ now < MaxTime
    /\ now' = now + 1
    /\ spent' = spent + 1
    /\ UNCHANGED <<epoch, pc, doConnect, last, polling, panelLast, lastReset,
                   scans, due, slack, staggered>>

\* the clock is set later than setupDateTime() waited for
ClockSync ==
    /\ epoch = 0
    /\ epoch' = Epoch
    /\ UNCHANGED <<now, pc, spent, doConnect, last, polling, panelLast,
                   lastReset, scans, due, slack, staggered>>

\* onScanEnd: new objects, whose lastMeasurment is 0 and pChr_tx null
ScanEnd ==
    /\ scans < MaxScans
    /\ scans' = scans + 1
    /\ doConnect' = [k \in Kinds |-> TRUE]
    /\ last' = [d \in Devices |-> 0]
    /\ due' = [d \in Devices |-> Interval]
    /\ slack' = [d \in Devices |-> 0]
    /\ polling' = DevicesOf["thermo"]
    /\ staggered' = [k \in Kinds |-> FALSE]
    /\ UNCHANGED <<now, epoch, pc, spent, panelLast, lastReset>>

-----------------------------------------------------------------------------
(* loop() *)

GoTo(part) == pc' = part /\ spent' = 0

\* mutant: the interval is not added before the comparison
TimeoutAtOnce(t, currentTime) == currentTime >= t

\* mutant: a device that is late has missed its turn
TimeoutOnTime(t, currentTime) == currentTime = (t + Interval) % Wrap

\* timeout() of MyBLE2, MyThermo and VoltMater: the sum is of unsigned longs
Timeout(t, currentTime) == currentTime >= (t + Interval) % Wrap

\* mutant: every device starts at the same time
NoOffsets(k) ==
    [d \in Devices |-> IF d[1] = k THEN (millis + Lead[k]) % Wrap ELSE last[d]]

Staggered(k) ==
    [d \in Devices |-> IF d[1] = k THEN (millis + Lead[k] + Offset[k] * d[2]) % Wrap
                                   ELSE last[d]]

\* doConnect is cleared before the round: a scan that ends while it connects
\* asks for another one, in the next pass.
RoundStarts(k, part) ==
    /\ doConnect[k]
    /\ doConnect' = [doConnect EXCEPT ![k] = FALSE]
    /\ GoTo(part)
    /\ UNCHANGED <<now, epoch, last, polling, panelLast, lastReset, scans, due,
                   slack, staggered>>

NoRound(k, part) ==
    /\ ~doConnect[k]
    /\ GoTo(part)
    /\ UNCHANGED <<now, epoch, doConnect, last, polling, panelLast, lastReset,
                   scans, due, slack, staggered>>

\* After connectToServer (connectToThermo): it succeeded, or the budget of
\* rescans is exhausted, and the timers are set from the time it ended; or it
\* failed, and they are left as they are.  Any of the boards may have been set
\* up.  The round of the thermometers does not touch the timers of the boards,
\* which the round before it may just have set.
RoundEnds(k, part) ==
    /\ \E open \in SUBSET DevicesOf["bms"] :
           polling' = IF k = "bms" THEN (polling \ DevicesOf["bms"]) \cup open
                                   ELSE polling
    /\ \/ /\ last' = Staggered(k)
          /\ staggered' = [staggered EXCEPT ![k] = TRUE]
          /\ due' = [d \in Devices |-> IF d[1] = k THEN now + FirstPoll(d)
                                                   ELSE due[d]]
          /\ slack' = [d \in Devices |-> IF d[1] = k THEN 0 ELSE slack[d]]
       \/ /\ staggered' = [staggered EXCEPT ![k] = FALSE]
          /\ UNCHANGED <<last, due, slack>>
    /\ GoTo(part)
    /\ UNCHANGED <<now, epoch, doConnect, panelLast, lastReset, scans>>

BmsRound ==
    pc = "bmsRound" /\ (RoundStarts("bms", "bmsConnect") \/ NoRound("bms", "thermoRound"))
BmsConnected == pc = "bmsConnect" /\ RoundEnds("bms", "thermoRound")

ThermoRound ==
    pc = "thermoRound" /\ (RoundStarts("thermo", "thermoConnect") \/ NoRound("thermo", "bms"))
ThermoConnected == pc = "thermoConnect" /\ RoundEnds("thermo", "bms")

\* The devices of the pass whose timer has run out.
Due(k) == {d \in polling \cap DevicesOf[k] : Timeout(last[d], millis)}

Restarted(k) == [d \in Devices |-> IF d \in Due(k) THEN millis ELSE last[d]]

\* The loop over the boards (thermometers): currentTime is read once, and
\* becomes the lastMeasurment of every device that is due.
Poll(k, part) ==
    /\ last' = Restarted(k)
    /\ due' = [d \in Devices |-> IF d \in Due(k) THEN now + Interval ELSE due[d]]
    /\ slack' = [d \in Devices |->
                    IF d \in Due(k) THEN slack[d] + (now - due[d]) ELSE slack[d]]
    /\ GoTo(part)
    /\ UNCHANGED <<now, epoch, doConnect, polling, panelLast, lastReset, scans,
                   staggered>>

PollBoards == pc = "bms" /\ Poll("bms", "panel")
PollThermos == pc = "thermo" /\ Poll("thermo", "reset")

\* MyM5::timeout: a difference of unsigned longs, which wrapping leaves right
PanelTimeout == (millis - panelLast) % Wrap >= PanelInterval

\* the panel is published, and powerSave(1) waits
PublishPanel ==
    /\ pc = "panel"
    /\ PanelTimeout
    /\ panelLast' = millis
    /\ GoTo("pause")
    /\ UNCHANGED <<now, epoch, doConnect, last, polling, lastReset, scans, due,
                   slack, staggered>>

PanelNotDue ==
    /\ pc = "panel"
    /\ ~PanelTimeout
    /\ GoTo("thermo")
    /\ UNCHANGED <<now, epoch, doConnect, last, polling, panelLast, lastReset,
                   scans, due, slack, staggered>>

PauseOver ==
    /\ pc = "pause"
    /\ spent = Pause
    /\ GoTo("thermo")
    /\ UNCHANGED <<now, epoch, doConnect, last, polling, panelLast, lastReset,
                   scans, due, slack, staggered>>

\* mutant: lastReset is left out
SinceTheEpoch == getTime >= ResetInterval

ResetTimeout == getTime - lastReset >= ResetInterval

NoReset ==
    /\ pc = "reset"
    /\ ~ResetTimeout
    /\ GoTo("bmsRound")
    /\ UNCHANGED <<now, epoch, doConnect, last, polling, panelLast, lastReset,
                   scans, due, slack, staggered>>

\* "reset once everyday": ESP.restart(), which the clock survives
DailyReset ==
    /\ pc = "reset"
    /\ ResetTimeout
    /\ GoTo("bmsRound")
    /\ now' = 0
    /\ epoch' \in {epoch, Epoch}
    /\ lastReset' = epoch'
    /\ doConnect' = [k \in Kinds |-> FALSE]
    /\ last' = [d \in Devices |-> 0]
    /\ polling' = {}
    /\ panelLast' = 0
    /\ scans' = 0
    /\ due' = [d \in Devices |-> Interval]
    /\ slack' = [d \in Devices |-> 0]
    /\ staggered' = [k \in Kinds |-> FALSE]

LoopStep == \/ BmsRound \/ BmsConnected \/ ThermoRound \/ ThermoConnected
            \/ PollBoards \/ PublishPanel \/ PanelNotDue \/ PauseOver
            \/ PollThermos \/ NoReset \/ DailyReset

Next == Tick \/ ClockSync \/ ScanEnd \/ LoopStep

Spec == Init /\ [][Next]_vars

-----------------------------------------------------------------------------
(* Properties *)

Polled(d) == pc = d[1] /\ d \in Due(d[1])

\* timeout() adds in 32 bits and compares without regard to the wrap, so a
\* device would be polled in every pass of the last interval before it.  The
\* daily restart keeps millis() away from there: no device is ever polled
\* earlier than an interval after its last poll, or than its lead time.
NeverEarly ==
    [][\A d \in Devices : Polled(d) /\ due'[d] # due[d] => now >= due[d]]_vars

\* Nothing starves a device: whatever the order of rounds, pauses and
\* restarts, a device that loop() polls waits for one pass at most, even when
\* both kinds are connected anew in it.
NeverLate == \A d \in polling : staggered[d[1]] => now < due[d] + PassTime

\* the distance of two boards on the circle of the interval
Apart(c, d) == LET x == (Offset["bms"] * (c[2] - d[2])) % Interval
               IN  Min({x, Interval - x})

\* The offsets of 4800 ms keep the boards out of each other's passes for as
\* long as no board has been polled late by as much as two of them are apart.
\* (With three boards that is 400 ms; and boards that have met stay together.)
ApartUntilLate ==
    [][\A c, d \in DevicesOf["bms"] :
           /\ c # d /\ Polled(c) /\ Polled(d)
           /\ due'[c] # due[c] /\ due'[d] # due[d] /\ staggered'["bms"]
           => \/ slack'[c] >= Apart(c, d)
              \/ slack'[d] >= Apart(c, d)]_vars

\* "reset once everyday": the firmware restarts a day after its boot, within
\* one pass of loop().  Only if SNTP sets the clock after setup() has read it
\* does the restart come before, and then once: the next boot finds the clock
\* set, so the chip never restarts over and over.
ResetOnceEveryday ==
    [][now' < now => \/ now \in ResetInterval .. ResetInterval + PassTime
                     \/ lastReset = 0 /\ epoch = Epoch /\ lastReset' = Epoch]_vars
=============================================================================
