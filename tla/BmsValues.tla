------------------------------ MODULE BmsValues ------------------------------
(***************************************************************************)
(* What a board's object makes of the numbers in the packets it has put    *)
(* together: MyBLE2::processBasicInfo and processCellInfo, with the widths *)
(* of their variables.  How the packets are put together is BmsPolling's   *)
(* subject; here every packet is whole.                                    *)
(*                                                                         *)
(* processCellInfo copies the n cells to x[0 .. n-1] and sorts x[1 .. n]:  *)
(* the first cell stays outside, and x[n], which lies behind the array, is *)
(* read and written like a cell.  behind is that place of the stack.       *)
(*                                                                         *)
(* Each function writes all the fields of its kind of packet and reads     *)
(* none, so a behaviour is one packet that reaches a new object.           *)
(***************************************************************************)
EXTENDS Integers, Sequences, FiniteSets, FiniteSetsExt, Functions

CONSTANTS
    CellCounts,  \* numbers of cells of the boards
    CellLevels,  \* voltages of a cell, 1 mV
    Leftovers,   \* what the stack may hold behind the array before the sort
    VoltLevels,  \* voltages of a pack, as sent: 10 mV
    AmpLevels,   \* currents, as sent: 10 mA, two's complement
    TempLevels   \* temperatures, as sent: 0.1 K

Max16 == 65535
UInt16 == 0 .. Max16
MaxAmps == 327680  \* of a signed 16-bit number of 10 mA
MaxWatts == 2147   \* of an int, divided by a million
Freezing == 2731   \* 0 degrees in 0.1 K
NoCell == 5000     \* _cellMin before the first cell

numberOfTemperature == 2

ASSUME ValuesAssumption ==
    /\ CellCounts \subseteq 1 .. 15      \* CellVolt[15]; 0 would divide by zero
    /\ VoltLevels \subseteq 0 .. 6553    \* 15 cells have no more
    /\ CellLevels \cup Leftovers \cup AmpLevels \cup TempLevels \subseteq UInt16

VARIABLES
    received,      \* a basic packet, as sent
    packBasicInfo,
    packCellInfo,
    behind         \* what lies behind the array of processCellInfo

vars == <<received, packBasicInfo, packCellInfo, behind>>

\* packs whose cells have one level up to some cell and another behind it
PacksOf(n) ==
    {[i \in 1 .. n |-> IF i < k THEN a ELSE IF i = k THEN b ELSE c] :
        a \in CellLevels, b \in CellLevels, c \in CellLevels, k \in 1 .. n}

Packs == UNION {PacksOf(n) : n \in CellCounts}

ReceivedType ==
    [volts : {0} \cup VoltLevels, amps : {0} \cup AmpLevels,
     temp1 : {Freezing} \cup TempLevels, temp2 : {Freezing} \cup TempLevels]

BasicInfoType ==
    [Volts : UInt16, Amps : -MaxAmps .. MaxAmps, Watts : -MaxWatts .. MaxWatts,
     Temp1 : UInt16, Temp2 : UInt16]

CellInfoType ==
    [CellVolt : {<<>>} \cup Packs, CellMin : UInt16, CellMax : UInt16,
     CellDiff : UInt16, CellAvg : UInt16, CellMedian : UInt16]

\* What processBasicInfo and processCellInfo store is in the range of its
\* field, and the power in that of an int divided by a million, whatever wraps;
\* what the sort writes behind the array is a word.
TypeOK ==
    /\ received \in ReceivedType
    /\ packBasicInfo \in BasicInfoType
    /\ packCellInfo \in CellInfoType
    /\ behind \in UInt16

\* a new MyBLE2 object
Fresh ==
    /\ received = [volts |-> 0, amps |-> 0, temp1 |-> Freezing, temp2 |-> Freezing]
    /\ packBasicInfo =
           [Volts |-> 0, Amps |-> 0, Watts |-> 0, Temp1 |-> 0, Temp2 |-> 0]
    /\ packCellInfo = [CellVolt |-> <<>>, CellMin |-> 0, CellMax |-> 0,
                       CellDiff |-> 0, CellAvg |-> 0, CellMedian |-> 0]

Init == Fresh /\ behind \in Leftovers

-----------------------------------------------------------------------------
(* The basic packet.                                                       *)

\* mutant: the current is taken as unsigned
Unsigned(n) == n

\* two_ints_into16
Signed16(n) == IF n < 32768 THEN n ELSE n - 65536

\* toward zero, as C divides
Quotient(a, b) == IF a < 0 THEN -((-a) \div b) ELSE a \div b

\* how often 100 * p wraps around 32 bits: (100 * p + 2^31) \div 2^32, with
\* numbers that fit in 32 bits themselves
Wraps(p) == (25 * (p \div 1048576) + ((25 * (p % 1048576)) \div 1048576) + 512)
                \div 1024

\* 100 * p in 32 bits, p in 0.1 mW: 2^32 = 100 * 42949673 - 4
Product32(p) == 100 * (p - Wraps(p) * 42949673) + 4 * Wraps(p)

\* Volts * Amps / 1000000, where the product is computed as an int
WattsOf(volts, amps) ==
    Quotient(Product32((volts \div 10) * (amps \div 10)), 1000000)

\* mutant: the result is kept as the int it is computed as
SignedTemp(raw) == raw - Freezing

\* the temperature in 0.1 degree, stored in a uint16_t
TempOf(raw) == (raw - Freezing) % 65536

ProcessBasicInfo(volts, amps, temp1, temp2) ==
    LET mV == (volts * 10) % 65536
        mA == Signed16(amps) * 10
    IN  /\ Fresh
        /\ received' = [volts |-> volts, amps |-> amps,
                        temp1 |-> temp1, temp2 |-> temp2]
        /\ packBasicInfo' = [Volts |-> mV, Amps |-> mA, Watts |-> WattsOf(mV, mA),
                             Temp1 |-> TempOf(temp1),
                             Temp2 |-> TempOf(IF numberOfTemperature = 1
                                              THEN temp1 ELSE temp2)]
        /\ UNCHANGED <<packCellInfo, behind>>

-----------------------------------------------------------------------------
(* The packet of the cells.                                                *)

\* s[1 .. Len(s)] in increasing order: what stands at place r
Ranked(s, r) ==
    CHOOSE v \in Range(s) :
        /\ Cardinality({i \in DOMAIN s : s[i] < v}) < r
        /\ Cardinality({i \in DOMAIN s : s[i] <= v}) >= r

\* the mean or the one in the middle of s
Middle(s) ==
    LET n == Len(s)
    IN  IF n % 2 = 0
        THEN (Ranked(s, n \div 2) + Ranked(s, n \div 2 + 1)) \div 2
        ELSE Ranked(s, n \div 2 + 1)

\* mutant: the last cell stays outside as well
TwoOutside(cells, leftover) ==
    IF Len(cells) < 2 THEN <<leftover>>
    ELSE Append(Append(Tail(SubSeq(cells, 1, Len(cells) - 1)), leftover), leftover)

\* what is sorted, x[1 .. n]: without the first cell, with what lies behind
\* the array
Sorted(cells, leftover) == Append(Tail(cells), leftover)

CellSum(cells) == FoldFunction(+, 0, cells)

\* mutant: NumOfCells is one less when the sum is divided
OneCellLess(cells) == (CellSum(cells) % 65536) \div Max({1, Len(cells) - 1})

\* _cellSum, a uint16_t, divided by NumOfCells
AverageOf(cells) == (CellSum(cells) % 65536) \div Len(cells)

\* The sort leaves its greatest number in x[n].
ProcessCellInfo(cells) ==
    LET least    == Min(Range(cells) \cup {NoCell})
        greatest == Max(Range(cells) \cup {0})
        x        == Sorted(cells, behind)
    IN  /\ Fresh
        /\ packCellInfo' =
               [CellVolt |-> cells, CellMin |-> least, CellMax |-> greatest,
                CellDiff |-> greatest - least, CellAvg |-> AverageOf(cells),
                CellMedian |-> Middle(x)]
        /\ behind' = Ranked(x, Len(x))
        /\ UNCHANGED <<received, packBasicInfo>>

Next ==
    \/ \E volts \in VoltLevels, amps \in AmpLevels,
          temp1 \in TempLevels, temp2 \in TempLevels :
           ProcessBasicInfo(volts, amps, temp1, temp2)
    \/ \E cells \in Packs : ProcessCellInfo(cells)

Spec == Init /\ [][Next]_vars

-----------------------------------------------------------------------------
(* Properties.                                                             *)

Cells == packCellInfo.CellVolt

\* The average lies between the least and the greatest voltage, as long as the
\* sum of the voltages does not leave its 16 bits: every cell is in it once.
\* (Up to 4369 mV a cell, 15 cells do not; MyBLE2::processCellInfo.)
AverageWithin ==
    CellSum(Cells) <= Max16 =>
        /\ packCellInfo.CellMin <= packCellInfo.CellAvg
        /\ packCellInfo.CellAvg <= packCellInfo.CellMax

\* Of three cells or more, what the sort takes in from behind the array and
\* what it leaves outside move the median by one place of the sorted cells at
\* most, whatever the stack holds (MyBLE2::processCellInfo, the sort).
MedianNearMiddle ==
    LET n == Len(Cells)
        h == n \div 2
    IN  n > 2 =>
            IF n % 2 = 0
            THEN /\ packCellInfo.CellMedian
                        >= (Ranked(Cells, h - 1) + Ranked(Cells, h)) \div 2
                 /\ packCellInfo.CellMedian
                        <= (Ranked(Cells, h + 1) + Ranked(Cells, h + 2)) \div 2
            ELSE /\ packCellInfo.CellMedian >= Ranked(Cells, h)
                 /\ packCellInfo.CellMedian <= Ranked(Cells, h + 2)

\* The power that was sent, in 0.1 mW, with the sign of the current.
PowerSent ==
    received.volts *
        (IF received.amps > 32767 THEN received.amps - 65536 ELSE received.amps)

Watt == 10000
Limit == 21474836  \* 2^31 = 100 * Limit + 48

\* As long as the pack gives or takes less than 2147 W, the power is the one
\* that was sent, in whole watts toward zero: charging and discharging are
\* told apart and neither the product nor the fields wrap
\* (MyBLE2::processBasicInfo).
WattsToTheLimit ==
    PowerSent \in -Limit .. Limit =>
        LET rest == PowerSent - Watt * packBasicInfo.Watts
        IN  /\ rest \in 1 - Watt .. Watt - 1
            /\ rest > 0 => PowerSent > 0
            /\ rest < 0 => PowerSent < 0
=============================================================================
