--------------------------- MODULE LoopTimers_proofs ---------------------------
(***************************************************************************)
(* The timers of loop() keep their intervals, for any number of devices,   *)
(* any intervals and any word size, provided that the restart comes before *)
(* the clock wraps (RestartAssumption).                                    *)
(***************************************************************************)
EXTENDS LoopTimers, TLAPS

\* Below the wrap, the remainder changes nothing.
LEMMA NoWrap == ASSUME NEW x \in Nat, x < Wrap PROVE x % Wrap = x
  BY TimersAssumption

\* A remainder is a value of millis().
LEMMA Wrapped == ASSUME NEW x \in Nat PROVE x % Wrap \in Millis
  BY TimersAssumption DEF Millis

\* The devices are pairs of a kind and an index, with a time of first poll.
LEMMA DeviceTypes ==
    ASSUME NEW d \in Devices
    PROVE  /\ d[1] \in Kinds /\ d[2] \in Nat
           /\ Lead[d[1]] + Offset[d[1]] * d[2] \in Nat
<1>1. d[1] \in Kinds /\ d[2] \in Nat
  BY TimersAssumption DEF Devices, DevicesOf, Kinds
<1>2. Lead[d[1]] \in Nat /\ Offset[d[1]] \in Nat
  BY <1>1, TimersAssumption
<1>3. \A a, b \in Nat : a * b \in Nat
  OBVIOUS
<1> QED
  BY <1>1, <1>2, <1>3

-----------------------------------------------------------------------------
(***************************************************************************)
(* The invariant.  The time of the pass is bounded where loop() has got to,*)
(* so no sum of a timer has wrapped, and the sum is the true time at which *)
(* the device is due.                                                      *)
(***************************************************************************)

\* the longest time from the start of the pass to the beginning of a part
Elapsed == CASE pc = "bmsRound"      -> 0
             [] pc = "bmsConnect"    -> MaxPart
             [] pc = "thermoRound"   -> MaxPart + MaxRound
             [] pc = "thermoConnect" -> 2 * MaxPart + MaxRound
             [] pc = "bms"           -> 2 * MaxPart + 2 * MaxRound
             [] pc = "panel"         -> 3 * MaxPart + 2 * MaxRound
             [] pc = "pause"         -> 4 * MaxPart + 2 * MaxRound
             [] pc = "thermo"        -> 4 * MaxPart + 2 * MaxRound + Pause
             [] pc = "reset"         -> 5 * MaxPart + 2 * MaxRound + Pause

PassInv == spent <= Limit /\ now < ResetInterval + Elapsed + spent

TimerInv == \A d \in Devices : due[d] = last[d] + Interval /\ due[d] < Wrap

IInv == TypeOK /\ PassInv /\ lastReset <= epoch /\ TimerInv

\* Wherever loop() is, the clock is far from the wrap.
LEMMA FarFromWrap ==
    ASSUME TypeOK, PassInv
    PROVE  now < ResetInterval + PassTime
  BY TimersAssumption DEF TypeOK, PassInv, Elapsed, Limit, PassTime, Parts

\* A device times out when it is due, and not before.
LEMMA TimeoutIsDue ==
    ASSUME IInv, NEW d \in Devices
    PROVE  /\ millis = now
           /\ Timeout(last[d], millis) <=> now >= due[d]
<1>1. now \in Nat /\ due[d] \in Nat /\ due[d] = last[d] + Interval /\ due[d] < Wrap
  BY DEF IInv, TypeOK, TimerInv
<1>2. FirstPoll(d) \in Nat
  BY DeviceTypes, TimersAssumption DEF FirstPoll
<1>3. now < Wrap
  <2>1. PassTime \in Nat
    BY TimersAssumption DEF PassTime
  <2> QED
    BY <1>1, <1>2, <2>1, FarFromWrap, RestartAssumption, TimersAssumption DEF IInv
<1>4. millis = now /\ (last[d] + Interval) % Wrap = due[d]
  BY <1>1, <1>3, NoWrap DEF millis
<1> QED
  BY <1>4 DEF Timeout

\* The interval fits below the wrap, if there is a device at all.
LEMMA IntervalFits == ASSUME NEW d \in Devices PROVE Interval < Wrap
<1> DEFINE lead == Lead[d[1]] + Offset[d[1]] * d[2]
<1>1. ResetInterval + PassTime + FirstPoll(d) < Wrap
  BY RestartAssumption
<1>2. lead \in Nat /\ PassTime \in Nat /\ FirstPoll(d) = lead + Interval
  BY DeviceTypes, TimersAssumption DEF PassTime, FirstPoll
<1> HIDE DEF lead
<1> QED
  BY <1>1, <1>2, TimersAssumption

\* A timer set now runs out before the wrap.
LEMMA SetTimerFits ==
    ASSUME IInv, NEW d \in Devices
    PROVE  LET lead == Lead[d[1]] + Offset[d[1]] * d[2]
           IN  /\ now + Interval < Wrap
               /\ now + FirstPoll(d) < Wrap
               /\ (millis + Lead[d[1]] + Offset[d[1]] * d[2]) % Wrap = now + lead
               /\ FirstPoll(d) = lead + Interval
               /\ lead \in Nat
               /\ millis = now /\ now \in Nat
<1> DEFINE lead == Lead[d[1]] + Offset[d[1]] * d[2]
           offset == Offset[d[1]] * d[2]
<1>1. ResetInterval + PassTime + FirstPoll(d) < Wrap
  BY RestartAssumption
<1>2. lead \in Nat /\ offset \in Nat /\ Lead[d[1]] \in Nat /\ PassTime \in Nat
  <2>1. \A a, b \in Nat : a * b \in Nat
    OBVIOUS
  <2> QED
    BY <2>1, DeviceTypes, TimersAssumption DEF PassTime
<1>3. FirstPoll(d) = lead + Interval
  BY <1>2, TimersAssumption DEF FirstPoll
<1>4. now \in Nat /\ now < ResetInterval + PassTime
  BY FarFromWrap, TimersAssumption DEF IInv, TypeOK
<1>5. millis = now
  BY TimeoutIsDue
<1>6. lead = Lead[d[1]] + offset
  OBVIOUS
<1> HIDE DEF lead, offset
<1>7. now + lead < Wrap /\ now + lead + Interval < Wrap /\ now + lead \in Nat
  BY <1>1, <1>2, <1>3, <1>4, TimersAssumption
<1>8. (now + lead) % Wrap = now + lead
  BY <1>7, NoWrap
<1>9. now + Lead[d[1]] + offset = now + lead
  BY <1>2, <1>4, <1>6
<1>10. (millis + Lead[d[1]] + offset) % Wrap = now + lead
  BY <1>5, <1>8, <1>9
<1>11. now + Interval < Wrap /\ now + FirstPoll(d) < Wrap
  BY <1>2, <1>3, <1>4, <1>7, TimersAssumption
<1> QED
  BY <1>2, <1>3, <1>4, <1>5, <1>10, <1>11 DEF lead, offset

\* The invariant holds after the boot.
LEMMA InitInv == Init => IInv
<1> SUFFICES ASSUME Init PROVE IInv
  OBVIOUS
<1>1. TypeOK
  BY TimersAssumption DEF Init, TypeOK, Parts, Millis
<1>2. PassInv /\ lastReset <= epoch
  BY TimersAssumption DEF Init, PassInv, Elapsed, Limit
<1>3. TimerInv
  BY IntervalFits, TimersAssumption DEF Init, TimerInv
<1> QED
  BY <1>1, <1>2, <1>3 DEF IInv

-----------------------------------------------------------------------------
(* One lemma per action. *)

\* Time passes within the part.
LEMMA TickInv == IInv /\ Tick => IInv'
<1> SUFFICES ASSUME IInv, Tick PROVE IInv'
  OBVIOUS
<1>1. TypeOK'
  BY TimersAssumption DEF IInv, TypeOK, Tick
<1>2. PassInv'
  <2>1. spent < Limit /\ Limit' = Limit /\ Elapsed' = Elapsed
    BY DEF Tick, Limit, Elapsed
  <2>2. now \in Nat /\ spent \in Nat /\ now' = now + 1 /\ spent' = spent + 1
    BY DEF Tick, IInv, TypeOK
  <2>3. Limit \in Nat /\ Elapsed \in Nat
    BY TimersAssumption DEF IInv, TypeOK, Parts, Limit, Elapsed
  <2> QED
    BY <2>1, <2>2, <2>3, TimersAssumption DEF IInv, PassInv
<1> QED
  BY <1>1, <1>2 DEF IInv, Tick, TimerInv

\* The clock only jumps forwards.
LEMMA ClockSyncInv == IInv /\ ClockSync => IInv'
<1> SUFFICES ASSUME IInv, ClockSync PROVE IInv'
  OBVIOUS
<1>1. TypeOK'
  BY DEF IInv, TypeOK, ClockSync
<1>2. PassInv'
  BY DEF IInv, PassInv, ClockSync, Elapsed, Limit
<1>3. (lastReset <= epoch)'
  BY TimersAssumption DEF IInv, TypeOK, ClockSync
<1>4. TimerInv'
  BY DEF IInv, TimerInv, ClockSync
<1> QED
  BY <1>1, <1>2, <1>3, <1>4 DEF IInv

\* New objects start at 0.
LEMMA ScanEndInv == IInv /\ ScanEnd => IInv'
<1> SUFFICES ASSUME IInv, ScanEnd PROVE IInv'
  OBVIOUS
<1>1. TypeOK'
  BY TimersAssumption DEF IInv, TypeOK, ScanEnd, Devices, Millis
<1>2. PassInv'
  BY DEF IInv, PassInv, ScanEnd, Elapsed, Limit
<1>3. TimerInv'
  BY IntervalFits, TimersAssumption DEF ScanEnd, TimerInv
<1> QED
  BY <1>1, <1>2, <1>3 DEF IInv, ScanEnd

\* The part a step of loop() leads to from the one it is in.
Follows(part) == \/ pc = "bmsRound" /\ part \in {"bmsConnect", "thermoRound"}
                 \/ pc = "bmsConnect" /\ part = "thermoRound"
                 \/ pc = "thermoRound" /\ part \in {"thermoConnect", "bms"}
                 \/ pc = "thermoConnect" /\ part = "bms"
                 \/ pc = "bms" /\ part = "panel"
                 \/ pc = "panel" /\ part \in {"pause", "thermo"}
                 \/ pc = "pause" /\ part = "thermo"
                 \/ pc = "thermo" /\ part = "reset"

\* Going to the next part takes no time, and the bound of that part is larger.
LEMMA GoToInv ==
    ASSUME TypeOK, PassInv, NEW part, Follows(part), GoTo(part), now' = now
    PROVE  PassInv' /\ pc' \in Parts /\ spent' \in Nat
<1>1. pc' = part /\ spent' = 0 /\ part \in Parts
  BY DEF GoTo, Follows, Parts
<1>2. Elapsed' >= Elapsed + spent
  BY <1>1, TimersAssumption DEF Follows, Elapsed, TypeOK, PassInv, Limit
<1>3. Limit' \in Nat /\ Elapsed' \in Nat /\ Elapsed \in Nat
  BY <1>1, TimersAssumption DEF TypeOK, Parts, Limit, Elapsed
<1> QED
  BY <1>1, <1>2, <1>3, TimersAssumption DEF TypeOK, PassInv

\* A round may set the timers of a kind: they run out before the wrap.
LEMMA RoundInv ==
    ASSUME IInv, NEW k \in Kinds, NEW part, Follows(part), RoundEnds(k, part)
    PROVE  IInv'
<1>1. PassInv' /\ pc' \in Parts /\ spent' \in Nat
  BY GoToInv DEF RoundEnds, IInv
<1>2. last' \in [Devices -> Millis] /\ due' \in [Devices -> Nat]
      /\ slack' \in [Devices -> Nat] /\ TimerInv'
  <2>1. CASE UNCHANGED <<last, due, slack>>
    BY <2>1 DEF IInv, TypeOK, TimerInv
  <2>2. ASSUME last' = Staggered(k),
               due' = [d \in Devices |-> IF d[1] = k THEN now + FirstPoll(d) ELSE due[d]],
               slack' = [d \in Devices |-> IF d[1] = k THEN 0 ELSE slack[d]]
        PROVE  last' \in [Devices -> Millis] /\ due' \in [Devices -> Nat]
               /\ slack' \in [Devices -> Nat] /\ TimerInv'
    <3>1. ASSUME NEW d \in Devices
          PROVE  /\ last'[d] \in Millis /\ due'[d] \in Nat
                 /\ due'[d] = last'[d] + Interval /\ due'[d] < Wrap
      <4>1. CASE d[1] # k
        BY <2>2, <4>1 DEF IInv, TypeOK, TimerInv, Staggered
      <4>2. CASE d[1] = k
        <5> DEFINE lead == Lead[d[1]] + Offset[d[1]] * d[2]
        <5>1. last'[d] = (millis + Lead[d[1]] + Offset[d[1]] * d[2]) % Wrap
          BY <2>2, <4>2 DEF Staggered
        <5>2. due'[d] = now + FirstPoll(d)
          BY <2>2, <4>2
        <5>3. /\ last'[d] = now + lead /\ FirstPoll(d) = lead + Interval
              /\ lead \in Nat /\ now \in Nat /\ now + FirstPoll(d) < Wrap
          BY <5>1, SetTimerFits
        <5> HIDE DEF lead
        <5> QED
          BY <5>2, <5>3, TimersAssumption DEF Millis
      <4> QED
        BY <4>1, <4>2
    <3>2. slack' \in [Devices -> Nat]
      BY <2>2 DEF IInv, TypeOK
    <3>3. last' = [d \in Devices |-> last'[d]] /\ due' = [d \in Devices |-> due'[d]]
      BY <2>2 DEF Staggered
    <3>4. last' \in [Devices -> Millis]
      BY <3>1, <3>3
    <3>5. due' \in [Devices -> Nat]
      BY <3>1, <3>3
    <3> QED
      BY <3>1, <3>2, <3>4, <3>5 DEF TimerInv
  <2> QED
    BY <2>1, <2>2 DEF RoundEnds
<1>3. staggered' \in [Kinds -> BOOLEAN] /\ doConnect' \in [Kinds -> BOOLEAN]
  BY DEF RoundEnds, IInv, TypeOK
<1>4. polling' \in SUBSET Devices
  BY DEF RoundEnds, IInv, TypeOK, Devices
<1> QED
  BY <1>1, <1>2, <1>3, <1>4 DEF RoundEnds, IInv, TypeOK

\* A device is polled when it is due, so its lateness is no negative number.
LEMMA PollInv ==
    ASSUME IInv, NEW k \in Kinds, NEW part, Follows(part), Poll(k, part)
    PROVE  IInv'
<1>1. PassInv' /\ pc' \in Parts /\ spent' \in Nat
  BY GoToInv DEF Poll, IInv
<1>2. ASSUME NEW d \in Devices
      PROVE  /\ last'[d] \in Millis /\ due'[d] \in Nat /\ slack'[d] \in Nat
             /\ due'[d] = last'[d] + Interval /\ due'[d] < Wrap
  <2>1. CASE d \notin Due(k)
    BY <2>1 DEF Poll, Restarted, IInv, TypeOK, TimerInv
  <2>2. CASE d \in Due(k)
    <3>1. last'[d] = millis /\ due'[d] = now + Interval
          /\ slack'[d] = slack[d] + (now - due[d])
      BY <2>2 DEF Poll, Restarted
    <3>2. now >= due[d]
      BY <2>2, TimeoutIsDue DEF Due
    <3>3. millis = now /\ now \in Nat /\ now + Interval < Wrap
      BY SetTimerFits
    <3>4. due[d] \in Nat /\ slack[d] \in Nat
      BY DEF IInv, TypeOK
    <3> QED
      BY <3>1, <3>2, <3>3, <3>4, TimersAssumption DEF Millis
  <2> QED
    BY <2>1, <2>2
<1>3. /\ last' = [d \in Devices |-> last'[d]]
      /\ due' = [d \in Devices |-> due'[d]]
      /\ slack' = [d \in Devices |-> slack'[d]]
  BY DEF Poll, Restarted
<1>4. last' \in [Devices -> Millis]
  BY <1>2, <1>3
<1>5. due' \in [Devices -> Nat]
  BY <1>2, <1>3
<1>6. slack' \in [Devices -> Nat]
  BY <1>2, <1>3
<1>7. TimerInv'
  BY <1>2 DEF TimerInv
<1> QED
  BY <1>1, <1>4, <1>5, <1>6, <1>7 DEF Poll, IInv, TypeOK

\* The panel's timer is its own.
LEMMA PanelInv == IInv /\ (PublishPanel \/ PanelNotDue \/ PauseOver) => IInv'
<1> SUFFICES ASSUME IInv, PublishPanel \/ PanelNotDue \/ PauseOver PROVE IInv'
  OBVIOUS
<1>1. PassInv' /\ pc' \in Parts /\ spent' \in Nat
  BY GoToInv DEF PublishPanel, PanelNotDue, PauseOver, Follows, IInv
<1>2. panelLast' \in Millis
  BY Wrapped DEF PublishPanel, PanelNotDue, PauseOver, IInv, TypeOK, millis
<1>3. TypeOK'
  BY <1>1, <1>2 DEF PublishPanel, PanelNotDue, PauseOver, IInv, TypeOK
<1>4. TimerInv' /\ (lastReset <= epoch)'
  BY DEF PublishPanel, PanelNotDue, PauseOver, IInv, TimerInv
<1> QED
  BY <1>1, <1>3, <1>4 DEF IInv

\* A round only starts, or there is none.
LEMMA NoRoundInv ==
    ASSUME IInv, NEW k \in Kinds, NEW part, Follows(part),
           RoundStarts(k, part) \/ NoRound(k, part)
    PROVE  IInv'
<1>1. PassInv' /\ pc' \in Parts /\ spent' \in Nat
  BY GoToInv DEF RoundStarts, NoRound, IInv
<1> QED
  BY <1>1 DEF RoundStarts, NoRound, IInv, TypeOK, TimerInv

\* A pass that ends without a restart ends before ResetInterval.
LEMMA NoResetInv == IInv /\ NoReset => IInv'
<1> SUFFICES ASSUME IInv, NoReset PROVE IInv'
  OBVIOUS
<1>1. now < ResetInterval
  BY TimersAssumption DEF NoReset, ResetTimeout, getTime, IInv, TypeOK
<1>2. PassInv'
  BY <1>1, TimersAssumption DEF NoReset, GoTo, PassInv, Elapsed, Limit, IInv, TypeOK
<1>3. TypeOK'
  BY DEF NoReset, GoTo, IInv, TypeOK, Parts
<1> QED
  BY <1>2, <1>3 DEF NoReset, IInv, TimerInv

\* A restart begins as a boot does.
LEMMA DailyResetInv == IInv /\ DailyReset => IInv'
<1> SUFFICES ASSUME IInv, DailyReset PROVE IInv'
  OBVIOUS
<1>1. epoch' \in {0, Epoch} /\ lastReset' = epoch' /\ epoch' \in Nat
  BY TimersAssumption DEF DailyReset, IInv, TypeOK
<1>2. TypeOK'
  BY <1>1, TimersAssumption DEF DailyReset, GoTo, TypeOK, Parts, Millis
<1>3. PassInv'
  BY TimersAssumption DEF DailyReset, GoTo, PassInv, Elapsed, Limit
<1>4. TimerInv'
  BY IntervalFits, TimersAssumption DEF DailyReset, TimerInv
<1> QED
  BY <1>1, <1>2, <1>3, <1>4 DEF IInv

-----------------------------------------------------------------------------
(* The theorems *)

\* Every step keeps the invariant.
LEMMA NextInv == IInv /\ [Next]_vars => IInv'
<1> SUFFICES ASSUME IInv, [Next]_vars PROVE IInv'
  OBVIOUS
<1>1. CASE Tick
  BY <1>1, TickInv
<1>2. CASE ClockSync
  BY <1>2, ClockSyncInv
<1>3. CASE ScanEnd
  BY <1>3, ScanEndInv
<1>4. CASE BmsRound \/ ThermoRound
  BY <1>4, NoRoundInv DEF BmsRound, ThermoRound, Follows, Kinds
<1>5. CASE BmsConnected \/ ThermoConnected
  BY <1>5, RoundInv DEF BmsConnected, ThermoConnected, Follows, Kinds
<1>6. CASE PollBoards
  BY <1>6, PollInv DEF PollBoards, Follows, Kinds
<1>7. CASE PollThermos
  BY <1>7, PollInv DEF PollThermos, Follows, Kinds
<1>8. CASE PublishPanel \/ PanelNotDue \/ PauseOver
  BY <1>8, PanelInv
<1>9. CASE NoReset
  BY <1>9, NoResetInv
<1>10. CASE DailyReset
  BY <1>10, DailyResetInv
<1>11. CASE UNCHANGED vars
  BY <1>11 DEF vars, IInv, TypeOK, PassInv, Elapsed, Limit, TimerInv
<1> QED
  BY <1>1, <1>2, <1>3, <1>4, <1>5, <1>6, <1>7, <1>8, <1>9, <1>10, <1>11
     DEF Next, LoopStep

\* The invariant holds in every state.
LEMMA AlwaysIInv == Spec => []IInv
<1>1. Init => IInv
  BY InitInv
<1>2. IInv /\ [Next]_vars => IInv'
  BY NextInv
<1> QED
  BY <1>1, <1>2, PTL DEF Spec

\* The variables keep their types: in particular no timer runs past the wrap,
\* and no device is counted late by a negative time.
THEOREM TimersTypeOK == Spec => []TypeOK
<1>1. IInv => TypeOK
  BY DEF IInv
<1> QED
  BY <1>1, AlwaysIInv, PTL

\* timeout() (MyBLE2.cpp:419-430, MyThermo.cpp:19-30) compares sums that could
\* wrap: as the restart of main.cpp:389-396 comes first, no device is polled
\* before its interval has passed.
THEOREM PollsNeverEarly == Spec => NeverEarly
<1>1. IInv => [\A d \in Devices : Polled(d) /\ due'[d] # due[d] => now >= due[d]]_vars
  BY TimeoutIsDue DEF Polled, Due
<1> QED
  BY <1>1, AlwaysIInv, PTL DEF NeverEarly

-----------------------------------------------------------------------------
(* The restart.  lastReset is what the clock has shown at boot, unless the *)
(* clock has been set since.                                               *)

ResetInv == lastReset = epoch \/ (lastReset = 0 /\ epoch = Epoch)

\* Only the clock and a restart touch the two.
LEMMA NextReset == TypeOK /\ ResetInv /\ [Next]_vars => ResetInv'
<1> SUFFICES ASSUME TypeOK, ResetInv, [Next]_vars PROVE ResetInv'
  OBVIOUS
<1>1. CASE ClockSync
  BY <1>1 DEF ClockSync, ResetInv, TypeOK
<1>2. CASE DailyReset
  BY <1>2 DEF DailyReset, ResetInv
<1>3. CASE \/ Tick \/ ScanEnd \/ UNCHANGED vars
           \/ BmsRound \/ BmsConnected \/ ThermoRound \/ ThermoConnected
           \/ PollBoards \/ PollThermos \/ PublishPanel \/ PanelNotDue \/ PauseOver \/ NoReset
  <2>1. UNCHANGED <<epoch, lastReset>>
    BY <1>3
    DEF Tick, ScanEnd, vars, BmsRound, BmsConnected, ThermoRound, ThermoConnected,
        RoundStarts, RoundEnds, NoRound, PollBoards, PollThermos, Poll, PublishPanel, PanelNotDue, PauseOver, NoReset
  <2> QED
    BY <2>1 DEF ResetInv
<1> QED
  BY <1>1, <1>2, <1>3 DEF Next, LoopStep

\* resetTimeout() (MyM5.cpp:35-45) measures with a clock that may be set in
\* between: the firmware restarts a day after its boot, or early once, and
\* never over and over.
THEOREM RestartsOnceADay == Spec => ResetOnceEveryday
<1>1. Init => ResetInv
  BY DEF Init, ResetInv
<1>2. IInv /\ ResetInv /\ [Next]_vars =>
          [now' < now =>
               \/ now \in ResetInterval .. ResetInterval + PassTime
               \/ lastReset = 0 /\ epoch = Epoch /\ lastReset' = Epoch]_vars
  <2> SUFFICES ASSUME IInv, ResetInv, Next, now' < now
               PROVE  \/ now \in ResetInterval .. ResetInterval + PassTime
                      \/ lastReset = 0 /\ epoch = Epoch /\ lastReset' = Epoch
    OBVIOUS
  <2>1. now \in Nat /\ epoch \in Nat
    BY TimersAssumption DEF IInv, TypeOK
  <2>2. DailyReset
    BY <2>1
    DEF Next, LoopStep, Tick, ClockSync, ScanEnd, BmsRound, BmsConnected,
        ThermoRound, ThermoConnected, RoundStarts, RoundEnds, NoRound, PollBoards, PollThermos, Poll, PublishPanel, PanelNotDue,
        PauseOver, NoReset
  <2>3. CASE lastReset = epoch
    <3>1. now >= ResetInterval
      BY <2>1, <2>2, <2>3, TimersAssumption DEF DailyReset, ResetTimeout, getTime
    <3>2. now < ResetInterval + PassTime
      BY FarFromWrap DEF IInv
    <3>3. ResetInterval + PassTime \in Nat
      BY TimersAssumption DEF PassTime
    <3> QED
      BY <2>1, <3>1, <3>2, <3>3, TimersAssumption
  <2>4. CASE lastReset = 0 /\ epoch = Epoch
    BY <2>2, <2>4 DEF DailyReset
  <2> QED
    BY <2>3, <2>4 DEF ResetInv
<1>3. IInv /\ ResetInv /\ [Next]_vars => ResetInv'
  BY NextReset DEF IInv
<1> QED
  BY <1>1, <1>2, <1>3, AlwaysIInv, PTL DEF Spec, ResetOnceEveryday

-----------------------------------------------------------------------------
(***************************************************************************)
(* NeverLate.  A device that is not due when its part of the pass is over  *)
(* is late by no more than what has passed since, and less than a pass     *)
(* passes before loop() is there again.                                    *)
(***************************************************************************)

\* the longest time from the end of the polls of a kind to the beginning of
\* the part that loop() is in
Since(k) ==
    IF k = "bms"
    THEN CASE pc = "panel"         -> 0
           [] pc = "pause"         -> MaxPart
           [] pc = "thermo"        -> MaxPart + Pause
           [] pc = "reset"         -> 2 * MaxPart + Pause
           [] pc = "bmsRound"      -> 3 * MaxPart + Pause
           [] pc = "bmsConnect"    -> 4 * MaxPart + Pause
           [] pc = "thermoRound"   -> 4 * MaxPart + MaxRound + Pause
           [] pc = "thermoConnect" -> 5 * MaxPart + MaxRound + Pause
           [] pc = "bms"           -> 5 * MaxPart + 2 * MaxRound + Pause
    ELSE CASE pc = "reset"         -> 0
           [] pc = "bmsRound"      -> MaxPart
           [] pc = "bmsConnect"    -> 2 * MaxPart
           [] pc = "thermoRound"   -> 2 * MaxPart + MaxRound
           [] pc = "thermoConnect" -> 3 * MaxPart + MaxRound
           [] pc = "bms"           -> 3 * MaxPart + 2 * MaxRound
           [] pc = "panel"         -> 4 * MaxPart + 2 * MaxRound
           [] pc = "pause"         -> 5 * MaxPart + 2 * MaxRound
           [] pc = "thermo"        -> 5 * MaxPart + 2 * MaxRound + Pause

LateInv == \A d \in polling : staggered[d[1]] => now < due[d] + Since(d[1]) + spent

\* The times are naturals.
LEMMA SinceTypes ==
    ASSUME TypeOK, NEW k \in Kinds
    PROVE  Since(k) \in Nat /\ Limit \in Nat /\ Since(k) + Limit <= PassTime
  BY TimersAssumption DEF TypeOK, Parts, Kinds, Since, Limit, PassTime

\* What LateInv comes to.
LEMMA LateEnough == IInv /\ LateInv => NeverLate
<1> SUFFICES ASSUME IInv, LateInv, NEW d \in polling, staggered[d[1]]
             PROVE  now < due[d] + PassTime
  BY DEF NeverLate
<1>1. d \in Devices /\ now \in Nat /\ due[d] \in Nat /\ spent \in Nat /\ spent <= Limit
  BY DEF IInv, TypeOK, PassInv
<1>2. Since(d[1]) \in Nat /\ Limit \in Nat /\ Since(d[1]) + Limit <= PassTime
  BY <1>1, SinceTypes, DeviceTypes DEF IInv
<1>3. now < due[d] + Since(d[1]) + spent
  BY DEF LateInv
<1>4. PassTime \in Nat
  BY TimersAssumption DEF PassTime
<1> QED
  BY <1>1, <1>2, <1>3, <1>4

\* A step to the next part that leaves the timer of a device alone, and is not
\* the end of its polls, leaves it as late as it was.
LEMMA NotLater ==
    ASSUME IInv, NEW d \in Devices, NEW part,
           Follows(part) \/ (pc = "reset" /\ part = "bmsRound"),
           GoTo(part), now' = now, due'[d] = due[d], pc # d[1],
           now < due[d] + Since(d[1]) + spent
    PROVE  now' < due'[d] + Since(d[1])' + spent'
<1>1. d[1] \in Kinds /\ now \in Nat /\ due[d] \in Nat
      /\ spent \in Nat /\ spent <= Limit
  BY DeviceTypes DEF IInv, TypeOK, PassInv
<1>2. pc' = part /\ spent' = 0
  BY DEF GoTo
<1>3. Since(d[1])' \in Nat /\ Since(d[1])' >= Since(d[1]) + spent /\ Since(d[1]) \in Nat
  <2>1. CASE d[1] = "bms"
    BY <1>1, <1>2, <2>1, TimersAssumption DEF Since, Follows, Limit, IInv, TypeOK
  <2>2. CASE d[1] = "thermo"
    BY <1>1, <1>2, <2>2, TimersAssumption DEF Since, Follows, Limit, IInv, TypeOK
  <2> QED
    BY <1>1, <2>1, <2>2 DEF Kinds
<1> QED
  BY <1>1, <1>2, <1>3

\* A timer that runs out in the future is not late.
LEMMA InTime ==
    ASSUME IInv', NEW d \in Devices, now' < due'[d]
    PROVE  now' < due'[d] + Since(d[1])' + spent'
<1>1. Since(d[1])' \in Nat /\ spent' \in Nat /\ now' \in Nat /\ due'[d] \in Nat
  <2>1. TypeOK'
    BY DEF IInv
  <2>2. d[1] \in Kinds
    BY DeviceTypes
  <2>3. Since(d[1])' \in Nat
    BY <2>1, <2>2, TimersAssumption DEF TypeOK, Parts, Kinds, Since
  <2> QED
    BY <2>1, <2>3 DEF TypeOK
<1> QED
  BY <1>1

\* A round sets the timers ahead, or has set no offsets.
LEMMA RoundLate ==
    ASSUME IInv, IInv', LateInv, NEW k \in Kinds, NEW part,
           Follows(part), RoundEnds(k, part), pc \notin Kinds
    PROVE  LateInv'
<1>2. ASSUME NEW d \in polling', staggered'[d[1]]
      PROVE  now' < due'[d] + Since(d[1])' + spent'
  <2>1. d \in Devices /\ d[1] \in Kinds
    BY DeviceTypes DEF IInv, TypeOK
  <2>2. CASE d[1] = k
    <3>1. due'[d] = now + FirstPoll(d)
      BY <1>2, <2>1, <2>2 DEF RoundEnds, IInv, TypeOK
    <3>2. now' = now /\ now \in Nat /\ FirstPoll(d) \in Nat /\ FirstPoll(d) > 0
      BY <2>1, SetTimerFits, TimersAssumption DEF RoundEnds
    <3> QED
      BY <2>1, <3>1, <3>2, InTime
  <2>3. CASE d[1] # k
    <3>1. staggered[d[1]] /\ due'[d] = due[d] /\ now' = now /\ GoTo(part)
      BY <1>2, <2>1, <2>3 DEF RoundEnds, IInv, TypeOK
    <3>2. d \in polling
      BY <1>2, <2>1, <2>3 DEF RoundEnds, DevicesOf, Kinds
    <3>3. now < due[d] + Since(d[1]) + spent
      BY <3>1, <3>2 DEF LateInv
    <3> QED
      BY <2>1, <3>1, <3>3, NotLater
  <2> QED
    BY <2>2, <2>3
<1>3. LateInv'
  BY <1>2 DEF LateInv
<1> QED
  BY <1>3

\* A device is polled when it is due; one that is not polled is not due.
LEMMA PollLate ==
    ASSUME IInv, IInv', LateInv, NEW k \in Kinds, NEW part,
           Follows(part), Poll(k, part), pc = k
    PROVE  LateInv'
<1>2. ASSUME NEW d \in polling', staggered'[d[1]]
      PROVE  now' < due'[d] + Since(d[1])' + spent'
  <2>1. d \in Devices /\ d[1] \in Kinds /\ d \in polling
        /\ staggered[d[1]] /\ now' = now /\ now \in Nat
    BY <1>2, DeviceTypes DEF Poll, IInv, TypeOK
  <2>2. CASE d[1] = k
    <3>1. CASE d \in Due(k)
      <4>1. due'[d] = now + Interval
        BY <2>1, <3>1 DEF Poll
      <4> QED
        BY <2>1, <4>1, InTime, TimersAssumption
    <3>2. CASE d \notin Due(k)
      <4>1. due'[d] = due[d] /\ due[d] \in Nat
        BY <2>1, <3>2 DEF Poll, IInv, TypeOK
      <4>2. d \in DevicesOf[k]
        BY <2>1, <2>2 DEF Devices, DevicesOf, Kinds
      <4>3. ~(now >= due[d])
        BY <2>1, <3>2, <4>2, TimeoutIsDue DEF Due
      <4> QED
        BY <2>1, <4>1, <4>3, InTime
    <3> QED
      BY <3>1, <3>2
  <2>3. CASE d[1] # k
    <3>1. due'[d] = due[d] /\ GoTo(part)
      BY <2>1, <2>3 DEF Poll, Due, DevicesOf, Kinds
    <3>2. now < due[d] + Since(d[1]) + spent
      BY <2>1 DEF LateInv
    <3> QED
      BY <2>1, <2>3, <3>1, <3>2, NotLater
  <2> QED
    BY <2>2, <2>3
<1>3. LateInv'
  BY <1>2 DEF LateInv
<1> QED
  BY <1>3

\* The other parts of the pass touch no timer of a device.
LEMMA OtherLate ==
    ASSUME IInv, LateInv, NEW part,
           Follows(part) \/ (pc = "reset" /\ part = "bmsRound"),
           GoTo(part), pc \notin Kinds,
           UNCHANGED <<now, polling, due, staggered>>
    PROVE  LateInv'
<1>2. ASSUME NEW d \in polling', staggered'[d[1]]
      PROVE  now' < due'[d] + Since(d[1])' + spent'
  <2>1. d \in Devices /\ d[1] \in Kinds
    BY DeviceTypes DEF IInv, TypeOK
  <2>2. now < due[d] + Since(d[1]) + spent
    BY <1>2 DEF LateInv
  <2> QED
    BY <2>1, <2>2, NotLater
<1>3. LateInv'
  BY <1>2 DEF LateInv
<1> QED
  BY <1>3

\* Every step keeps the bound.
LEMMA NextLate == IInv /\ IInv' /\ LateInv /\ [Next]_vars => LateInv'
<1> SUFFICES ASSUME IInv, IInv', LateInv, [Next]_vars
             PROVE  LateInv'
  OBVIOUS
<1>1. CASE Tick
  <2>2. ASSUME NEW d \in polling', staggered'[d[1]]
        PROVE  now' < due'[d] + Since(d[1])' + spent'
    <3>1. d \in Devices /\ d[1] \in Kinds /\ now < due[d] + Since(d[1]) + spent
      BY <1>1, <2>2, DeviceTypes DEF Tick, LateInv, IInv, TypeOK
    <3>2. Since(d[1])' = Since(d[1]) /\ now' = now + 1 /\ spent' = spent + 1 /\ due' = due
      BY <1>1 DEF Tick, Since
    <3>3. now \in Nat /\ spent \in Nat /\ due[d] \in Nat /\ Since(d[1]) \in Nat
      BY <3>1, SinceTypes DEF IInv, TypeOK
    <3> QED
      BY <3>1, <3>2, <3>3
  <2>3. LateInv'
    BY <2>2 DEF LateInv
  <2> QED
    BY <2>3
<1>2. CASE ClockSync
  BY <1>2 DEF ClockSync, LateInv, Since
<1>3. CASE ScanEnd
  BY <1>3, DeviceTypes DEF ScanEnd, LateInv, IInv, TypeOK
<1>4. CASE BmsRound \/ ThermoRound
  BY <1>4, OtherLate
  DEF BmsRound, ThermoRound, RoundStarts, NoRound, Follows, Kinds
<1>5. CASE BmsConnected \/ ThermoConnected
  BY <1>5, RoundLate DEF BmsConnected, ThermoConnected, Follows, Kinds
<1>6. CASE PollBoards
  BY <1>6, PollLate DEF PollBoards, Follows, Kinds
<1>7. CASE PollThermos
  BY <1>7, PollLate DEF PollThermos, Follows, Kinds
<1>8. CASE PublishPanel
  BY <1>8, OtherLate DEF PublishPanel, Follows, Kinds
<1>9. CASE PanelNotDue
  BY <1>9, OtherLate DEF PanelNotDue, Follows, Kinds
<1>10. CASE PauseOver
  BY <1>10, OtherLate DEF PauseOver, Follows, Kinds
<1>11. CASE NoReset
  BY <1>11, OtherLate DEF NoReset, Kinds
<1>12. CASE DailyReset
  BY <1>12 DEF DailyReset, LateInv
<1>13. CASE UNCHANGED vars
  BY <1>13 DEF vars, LateInv, Since
<1> QED
  BY <1>1, <1>2, <1>3, <1>4, <1>5, <1>6, <1>7, <1>8, <1>9, <1>10, <1>11, <1>12,
     <1>13 DEF Next, LoopStep

\* Nothing starves a device that loop() polls: it is never later than a pass,
\* whatever rounds, pauses and other devices come in between.
THEOREM PollsNeverLate == Spec => []NeverLate
<1>1. Init => LateInv
  BY DEF Init, LateInv
<1>2. IInv /\ IInv' /\ LateInv /\ [Next]_vars => LateInv'
  BY NextLate
<1>3. IInv /\ LateInv => NeverLate
  BY LateEnough
<1> QED
  BY <1>1, <1>2, <1>3, AlwaysIInv, PTL DEF Spec

-----------------------------------------------------------------------------
(***************************************************************************)
(* ApartUntilLate.  A poll moves the time at which a board is due by the   *)
(* interval and by its lateness, and slack adds up the latenesses.  What   *)
(* is left without them and the offset, the phase, stays the same for all  *)
(* boards of a session, up to whole intervals.                             *)
(***************************************************************************)

\* Remainders are unique.
LEMMA Remainder ==
    ASSUME NEW m \in Nat \ {0}, NEW q \in Int, NEW r \in 0 .. m - 1
    PROVE  (q * m + r) % m = r
<1> DEFINE n == q * m + r
           p == n \div m
<1>1. n \in Int /\ p \in Int /\ n % m \in 0 .. m - 1
  <2>1. q * m \in Int
    OBVIOUS
  <2> QED
    BY <2>1
<1>2. n = m * p + (n % m)
  BY <1>1
<1>3. ASSUME p > q PROVE FALSE
  <2>1. m * p >= m * (q + 1)
    BY <1>1, <1>3
  <2> QED
    BY <1>1, <1>2, <2>1
<1>4. ASSUME p < q PROVE FALSE
  <2>1. m * (p + 1) <= m * q
    BY <1>1, <1>4
  <2> QED
    BY <1>1, <1>2, <2>1
<1>5. p = q
  BY <1>1, <1>3, <1>4
<1> QED
  BY <1>1, <1>2, <1>5

\* The minimum of two integers is no larger than either.
LEMMA MinOfTwo ==
    ASSUME NEW a \in Int, NEW b \in Int
    PROVE  Min({a, b}) \in Int /\ Min({a, b}) <= a /\ Min({a, b}) <= b
<1>1. \E x \in {a, b} : \A y \in {a, b} : x <= y
  <2>1. CASE a <= b
    BY <2>1
  <2>2. CASE b <= a
    BY <2>2
  <2> QED
    BY <2>1, <2>2
<1>2. /\ Min({a, b}) \in {a, b}
      /\ \A y \in {a, b} : Min({a, b}) <= y
  BY <1>1 DEF Min
<1> QED
  BY <1>2

Phase(d) == due[d] - slack[d] - Offset["bms"] * d[2]

\* a and b differ by a number of intervals
InPhase(a, b) == \E j \in Int : a - b = j * Interval

SpacedInv == staggered["bms"] =>
    \A c, d \in DevicesOf["bms"] : InPhase(Phase(c), Phase(d))

\* One interval more on either side changes nothing.
LEMMA PhaseMoves ==
    ASSUME NEW a \in Int, NEW b \in Int, InPhase(a, b),
           NEW a2 \in {a, a + Interval}, NEW b2 \in {b, b + Interval}
    PROVE  InPhase(a2, b2)
<1> PICK j \in Int : a - b = j * Interval
  BY DEF InPhase
<1> DEFINE p == j * Interval
<1>1. /\ (j + 1) * Interval = p + Interval
      /\ (j - 1) * Interval = p - Interval
      /\ p \in Int /\ a - b = p
      /\ Interval \in Int
  BY TimersAssumption
<1>2. a2 - b2 \in {p, p + Interval, p - Interval}
  <2> HIDE DEF p
  <2> QED
    BY <1>1
<1>3. CASE a2 - b2 = p
  BY <1>3 DEF InPhase
<1>4. CASE a2 - b2 = p + Interval
  <2>1. a2 - b2 = (j + 1) * Interval /\ j + 1 \in Int
    BY <1>1, <1>4
  <2> QED
    BY <2>1 DEF InPhase
<1>5. CASE a2 - b2 = p - Interval
  <2>1. a2 - b2 = (j - 1) * Interval /\ j - 1 \in Int
    BY <1>1, <1>5
  <2> QED
    BY <2>1 DEF InPhase
<1> QED
  BY <1>2, <1>3, <1>4, <1>5

\* Phases are integers.
LEMMA PhaseTypes ==
    ASSUME TypeOK, NEW d \in DevicesOf["bms"]
    PROVE  /\ d \in Devices /\ d[1] = "bms" /\ d[2] \in Nat
           /\ Offset["bms"] * d[2] \in Nat
           /\ due[d] \in Nat /\ slack[d] \in Nat /\ Phase(d) \in Int
<1>1. d \in Devices /\ d[1] = "bms"
  BY DEF Devices, DevicesOf, Kinds
<1>2. d[2] \in Nat
  BY <1>1, DeviceTypes
<1>3. Offset["bms"] * d[2] \in Nat
  <2>1. Offset["bms"] \in Nat
    BY TimersAssumption DEF Kinds
  <2>2. \A a, b \in Nat : a * b \in Nat
    OBVIOUS
  <2> QED
    BY <1>2, <2>1, <2>2
<1>4. due[d] \in Nat /\ slack[d] \in Nat
  BY <1>1 DEF TypeOK
<1> QED
  BY <1>1, <1>2, <1>3, <1>4 DEF Phase

\* A poll is one interval and one lateness later than the one before.
LEMMA PollSpaced ==
    ASSUME IInv, SpacedInv, NEW k \in Kinds, NEW part, Poll(k, part)
    PROVE  SpacedInv'
<1> SUFFICES ASSUME staggered["bms"],
                    NEW c \in DevicesOf["bms"], NEW d \in DevicesOf["bms"]
             PROVE  InPhase(Phase(c)', Phase(d)')
  BY DEF SpacedInv, Poll, InPhase
<1>1. ASSUME NEW e \in DevicesOf["bms"]
      PROVE  Phase(e) \in Int /\ Phase(e)' \in {Phase(e), Phase(e) + Interval}
  <2>1. /\ e \in Devices /\ Offset["bms"] * e[2] \in Nat
        /\ due[e] \in Nat /\ slack[e] \in Nat /\ now \in Nat /\ Phase(e) \in Int
    BY PhaseTypes DEF IInv, TypeOK
  <2>2. CASE e \in Due(k)
    <3>1. due'[e] = now + Interval /\ slack'[e] = slack[e] + (now - due[e])
      BY <2>1, <2>2 DEF Poll
    <3> QED
      BY <2>1, <3>1, TimersAssumption DEF Phase
  <2>3. CASE e \notin Due(k)
    BY <2>1, <2>3 DEF Poll, Phase
  <2> QED
    BY <2>1, <2>2, <2>3
<1>2. InPhase(Phase(c), Phase(d))
  BY DEF SpacedInv
<1> QED
  BY <1>1, <1>2, PhaseMoves

\* The round sets all boards to one phase.
LEMMA RoundSpaced ==
    ASSUME IInv, IInv', SpacedInv, NEW k \in Kinds, NEW part, RoundEnds(k, part)
    PROVE  SpacedInv'
<1>1. CASE staggered' = [staggered EXCEPT ![k] = FALSE] /\ UNCHANGED <<due, slack>>
  <2>1. staggered'["bms"] => staggered["bms"]
    BY <1>1 DEF IInv, TypeOK, Kinds
  <2> QED
    BY <1>1, <2>1 DEF SpacedInv, Phase, InPhase
<1>2. ASSUME staggered' = [staggered EXCEPT ![k] = TRUE],
             due' = [d \in Devices |-> IF d[1] = k THEN now + FirstPoll(d) ELSE due[d]],
             slack' = [d \in Devices |-> IF d[1] = k THEN 0 ELSE slack[d]]
      PROVE  SpacedInv'
  <2>1. CASE k = "bms"
    <3>1. ASSUME NEW d \in DevicesOf["bms"]
          PROVE  Phase(d)' = now + Lead["bms"] + Interval
      <4>1. d \in Devices /\ d[1] = "bms" /\ Offset["bms"] * d[2] \in Nat
        BY PhaseTypes DEF IInv
      <4>2. due'[d] = now + FirstPoll(d) /\ slack'[d] = 0
        BY <1>2, <2>1, <4>1
      <4>3. FirstPoll(d) = Lead["bms"] + Offset["bms"] * d[2] + Interval
        BY <4>1 DEF FirstPoll
      <4>4. now \in Nat /\ Lead["bms"] \in Nat
        BY TimersAssumption DEF IInv, TypeOK, Kinds
      <4> QED
        BY <4>1, <4>2, <4>3, <4>4, TimersAssumption DEF Phase
    <3>2. now + Lead["bms"] + Interval \in Int
      BY TimersAssumption DEF IInv, TypeOK, Kinds
    <3>3. \A a \in Int : InPhase(a, a)
      <4>1. \A a \in Int : a - a = 0 * Interval
        BY TimersAssumption
      <4> QED
        BY <4>1 DEF InPhase
    <3>4. \A c, d \in DevicesOf["bms"] : InPhase(Phase(c)', Phase(d)')
      BY <3>1, <3>2, <3>3
    <3> QED
      BY <3>4 DEF SpacedInv, InPhase
  <2>2. CASE k # "bms"
    <3>1. staggered'["bms"] = staggered["bms"]
      BY <1>2, <2>2 DEF IInv, TypeOK, Kinds
    <3>2. \A d \in DevicesOf["bms"] : Phase(d)' = Phase(d)
      BY <1>2, <2>2, PhaseTypes DEF IInv, Phase
    <3> QED
      BY <3>1, <3>2 DEF SpacedInv, InPhase
  <2> QED
    BY <2>1, <2>2
<1> QED
  BY <1>1, <1>2 DEF RoundEnds

\* Nothing else moves a timer of a session.
LEMMA NextSpaced == IInv /\ IInv' /\ SpacedInv /\ [Next]_vars => SpacedInv'
<1> SUFFICES ASSUME IInv, IInv', SpacedInv, [Next]_vars PROVE SpacedInv'
  OBVIOUS
<1>1. CASE BmsRound \/ ThermoRound
  <2>1. UNCHANGED <<due, slack, staggered>>
    BY <1>1 DEF BmsRound, ThermoRound, RoundStarts, NoRound
  <2> QED
    BY <2>1 DEF SpacedInv, Phase, InPhase
<1>2. CASE BmsConnected \/ ThermoConnected
  BY <1>2, RoundSpaced DEF BmsConnected, ThermoConnected, Kinds
<1>3. CASE PollBoards \/ PollThermos
  BY <1>3, PollSpaced DEF PollBoards, PollThermos, Kinds
<1>4. CASE ScanEnd \/ DailyReset
  <2>1. staggered'["bms"] = FALSE
    BY <1>4 DEF ScanEnd, DailyReset, Kinds
  <2> QED
    BY <2>1 DEF SpacedInv
<1>5. CASE \/ Tick \/ ClockSync \/ PublishPanel \/ PanelNotDue \/ PauseOver
           \/ NoReset \/ UNCHANGED vars
  <2>1. UNCHANGED <<due, slack, staggered>>
    BY <1>5 DEF Tick, ClockSync, PublishPanel, PanelNotDue, PauseOver, NoReset, vars
  <2> QED
    BY <2>1 DEF SpacedInv, Phase, InPhase
<1> QED
  BY <1>1, <1>2, <1>3, <1>4, <1>5 DEF Next, LoopStep

\* Two boards that are due at the same time and in phase are apart by the
\* difference of their latenesses, around the circle.
LEMMA MeetingCosts ==
    ASSUME NEW x \in Int, NEW a \in Nat, NEW b \in Nat, InPhase(b - a, x)
    PROVE  LET r == x % Interval
           IN  a >= Min({r, Interval - r}) \/ b >= Min({r, Interval - r})
<1> DEFINE r == x % Interval
           m == Min({r, Interval - r})
<1>1. Interval \in Nat \ {0} /\ r \in 0 .. Interval - 1
  BY TimersAssumption
<1> HIDE DEF r
<1>2. m \in Int /\ m <= r /\ m <= Interval - r
  <2>1. r \in Int /\ Interval - r \in Int
    BY <1>1
  <2> QED
    BY <2>1, MinOfTwo
<1> HIDE DEF m
<1>3. PICK j \in Int : (b - a) - x = j * Interval
  BY DEF InPhase
<1>4. ASSUME NEW q \in Int, NEW e \in 0 .. Interval - 1, x = q * Interval + e
      PROVE  r = e
  BY <1>1, <1>4, Remainder DEF r
<1>5. SUFFICES ASSUME a < m, b < m PROVE FALSE
  <2>1. a >= m \/ b >= m
    BY <1>2, <1>5
  <2> QED
    BY <2>1 DEF m, r
<1>6. CASE b >= a
  <2>1. x = (0 - j) * Interval + (b - a)
    BY <1>1, <1>3
  <2>2. b - a \in 0 .. Interval - 1
    BY <1>1, <1>2, <1>5, <1>6
  <2>3. r = b - a
    BY <1>4, <2>1, <2>2
  <2> QED
    BY <1>1, <1>2, <1>5, <2>3
<1>7. CASE b < a
  <2>1. x = (0 - j - 1) * Interval + (Interval - (a - b))
    BY <1>1, <1>3
  <2>2. Interval - (a - b) \in 0 .. Interval - 1
    BY <1>1, <1>2, <1>5, <1>7
  <2>3. r = Interval - (a - b)
    BY <1>4, <2>1, <2>2
  <2> QED
    BY <1>1, <1>2, <1>5, <2>3
<1> QED
  BY <1>6, <1>7

\* The offsets of connectToServer's caller (main.cpp:216-224) keep the boards
\* apart until one has been polled late by their distance, for any number of
\* boards and any offset.
THEOREM BoardsApartUntilLate == Spec => ApartUntilLate
<1>1. Init => SpacedInv
  BY DEF Init, SpacedInv, Kinds
<1>2. IInv /\ IInv' /\ SpacedInv /\ [Next]_vars =>
          [\A c, d \in DevicesOf["bms"] :
               /\ c # d /\ Polled(c) /\ Polled(d)
               /\ due'[c] # due[c] /\ due'[d] # due[d] /\ staggered'["bms"]
               => \/ slack'[c] >= Apart(c, d)
                  \/ slack'[d] >= Apart(c, d)]_vars
  <2> SUFFICES ASSUME IInv, IInv', SpacedInv', Next,
                      NEW c \in DevicesOf["bms"], NEW d \in DevicesOf["bms"],
                      Polled(c), Polled(d), staggered'["bms"],
                      due'[c] # due[c], due'[d] # due[d]
               PROVE  \/ slack'[c] >= Apart(c, d)
                      \/ slack'[d] >= Apart(c, d)
    BY NextSpaced
  <2> DEFINE x == Offset["bms"] * (c[2] - d[2])
  <2>1. /\ c \in Devices /\ c[1] = "bms" /\ c[2] \in Nat
        /\ d \in Devices /\ d[1] = "bms" /\ d[2] \in Nat
        /\ Offset["bms"] * c[2] \in Nat /\ Offset["bms"] * d[2] \in Nat
    BY PhaseTypes DEF IInv
  <2>2. PollBoards
    <3>1. pc = "bms"
      BY <2>1 DEF Polled
    <3> QED
      BY <3>1
      DEF Next, LoopStep, Tick, ClockSync, ScanEnd, BmsRound, BmsConnected,
          ThermoRound, ThermoConnected, PollThermos, PublishPanel, PanelNotDue, PauseOver, NoReset, DailyReset, Kinds
  <2>3. due'[c] = now + Interval /\ due'[d] = now + Interval
    BY <2>1, <2>2 DEF PollBoards, Poll, Polled
  <2>4. InPhase(Phase(c)', Phase(d)')
    BY DEF SpacedInv, InPhase
  <2>5. slack'[c] \in Nat /\ slack'[d] \in Nat /\ now \in Nat
    BY <2>1 DEF IInv, TypeOK
  <2>6. x \in Int /\ x = Offset["bms"] * c[2] - Offset["bms"] * d[2]
    BY <2>1, TimersAssumption DEF Kinds
  <2>7. Phase(c)' - Phase(d)' = (slack'[d] - slack'[c]) - x
    <3> HIDE DEF x
    <3> QED
      BY <2>1, <2>3, <2>5, <2>6, TimersAssumption DEF Phase
  <2>8. InPhase(slack'[d] - slack'[c], x)
    BY <2>4, <2>7 DEF InPhase
  <2>9. LET r == x % Interval
        IN  slack'[c] >= Min({r, Interval - r}) \/ slack'[d] >= Min({r, Interval - r})
    BY <2>5, <2>6, <2>8, MeetingCosts
  <2> QED
    BY <2>9 DEF Apart
<1>3. IInv /\ IInv' /\ SpacedInv /\ [Next]_vars => SpacedInv'
  BY NextSpaced
<1> QED
  BY <1>1, <1>2, <1>3, AlwaysIInv, PTL DEF Spec, ApartUntilLate
=============================================================================
