------------------------------ MODULE BmsPolling ------------------------------
(***************************************************************************)
(* Polling the battery boards and putting their answers together.          *)
(*                                                                         *)
(* The loop task sends an info command to a board; the board answers with  *)
(* a frame DD type status len data ... checksum 77, in one notification or *)
(* in two when it is longer than 20 bytes.  On the host task               *)
(* MyNotification::notifyCB finds the MyBLE2 object of the sender and      *)
(* calls its bleCollectPacket, whose buffer and state are function         *)
(* statics: one buffer for all boards and all sessions.  Neither task      *)
(* takes a lock.                                                           *)
(*                                                                         *)
(* Bytes are abstracted to what the code looks at: whether a fragment      *)
(* begins with DD, whether it ends with 77, and which frame it is part of. *)
(* Nothing keeps the answers of two boards apart but the 4.8 s between     *)
(* their commands, which a late loop() shortens (LoopTimers), and nothing  *)
(* keeps DD and 77 out of the data: both may happen here.  What they and   *)
(* lost links can do is counted.                                           *)
(*                                                                         *)
(* How links are lost and set up is the subject of BleSession; here a      *)
(* board is linked or not, and all are linked again after a restart.       *)
(***************************************************************************)
EXTENDS Integers, Sequences, FiniteSets

CONSTANTS
    Boards,       \* the BMS boards of the session
    MaxFrames,    \* bound on the commands sent
    MaxRestarts   \* bound on the sessions set up again

ASSUME PollingAssumption ==
    /\ IsFiniteSet(Boards)
    /\ MaxFrames \in Nat
    /\ MaxRestarts \in Nat

Types == {"basicInfo3", "cellInfo4"}
Frames == [board : Boards, no : 1 .. MaxFrames, type : Types]
Fragments == [frame : Frames, part : {"first", "second", "whole"},
              startsDD : BOOLEAN, ends77 : BOOLEAN]

VARIABLES
    toggle,            \* MyBLE2::toggle of every board
    newPacketReceived, \* MyBLE2::newPacketReceived
    info,              \* packBasicInfo and packCellInfo: the packet behind them
    linked,            \* boards with a link (connected is TRUE)
    air,               \* notifications on their way, in order, per board
    packetstate,       \* static of bleCollectPacket: 0 or 1 between calls
    packetbuff,        \* static: the fragment in the buffer
    loop,              \* the loop task: where it is, and for which board
    sent,              \* commands sent
    restarts,          \* sessions set up again
    tally,             \* history: what went wrong with packets, and causes
    disturbed,         \* history: frames cut, or overlapped by another's
    unpublished,       \* history: boards with data no one has published
    missed             \* history: boards whose last answer leaves no flag set

vars == <<toggle, newPacketReceived, info, linked, air, packetstate, packetbuff,
          loop, sent, restarts, tally, disturbed, unpublished, missed>>

Locations == {"top", "sent", "publish"}

\* Two kinds of damage: packets no board has sent, and answers received to the
\* end that made no packet.  Three causes: answers cut in the middle by a lost
\* link, answers begun in the middle of another board's, and bytes at a cut
\* that are DD or 77 by accident.
Tallies == [bad : Nat, swallowed : Nat, cuts : Nat, overlaps : Nat, marks : Nat]

\* Types; packetstate comes back to 0 or 1 whatever half packets
\* bleCollectPacket is given.
TypeOK ==
    /\ toggle \in [Boards -> BOOLEAN]
    /\ newPacketReceived \in [Boards -> BOOLEAN]
    /\ info \in [Boards -> [Types -> Seq(Fragments)]]
    /\ linked \in SUBSET Boards
    /\ air \in [Boards -> Seq(Fragments)]
    /\ packetstate \in {0, 1}
    /\ packetbuff \in Seq(Fragments)
    /\ loop \in [pc : Locations, board : Boards]
    /\ sent \in 0 .. MaxFrames
    /\ restarts \in 0 .. MaxRestarts
    /\ tally \in Tallies
    /\ disturbed \in SUBSET Frames
    /\ unpublished \in SUBSET Boards
    /\ missed \in SUBSET Boards

NoInfo == [t \in Types |-> <<>>]

Init ==
    /\ toggle = [b \in Boards |-> FALSE]
    /\ newPacketReceived = [b \in Boards |-> FALSE]
    /\ info = [b \in Boards |-> NoInfo]
    /\ linked = Boards
    /\ air = [b \in Boards |-> <<>>]
    /\ packetstate = 0
    /\ packetbuff = <<>>
    /\ loop \in [pc : {"top"}, board : Boards]
    /\ sent = 0
    /\ restarts = 0
    /\ tally = [bad |-> 0, swallowed |-> 0, cuts |-> 0, overlaps |-> 0, marks |-> 0]
    /\ disturbed = {}
    /\ unpublished = {}
    /\ missed = {}

-----------------------------------------------------------------------------
(* The boards and their links *)

\* The notifications of a frame: one for a short frame, two otherwise.  The
\* byte before the cut may happen to be 77, the one after it DD.
Notifications(f) ==
    {<<[frame |-> f, part |-> "whole", startsDD |-> TRUE, ends77 |-> TRUE]>>}
    \cup {<<[frame |-> f, part |-> "first", startsDD |-> TRUE, ends77 |-> x],
            [frame |-> f, part |-> "second", startsDD |-> y, ends77 |-> TRUE]>> :
          x, y \in BOOLEAN}

\* a byte at the cut looks like the end of a frame, or like its beginning
Accidental(frag) == \/ frag.part = "first" /\ frag.ends77
                    \/ frag.part = "second" /\ frag.startsDD

HalfDelivered(b) == air[b] # <<>> /\ Head(air[b]).part = "second"

\* the boards whose answer has begun and is not over
Halves == {b \in Boards : HalfDelivered(b)}

\* the answers in progress
FramesInProgress(boards) == {Head(air[b]).frame : b \in boards}

\* The link of a board ends: what was on its way is gone.
LinkLost(b) ==
    /\ b \in linked
    /\ linked' = linked \ {b}
    /\ air' = [air EXCEPT ![b] = <<>>]
    /\ IF HalfDelivered(b)
       THEN /\ tally' = [tally EXCEPT !.cuts = @ + 1]
            /\ disturbed' = disturbed \cup FramesInProgress({b})
       ELSE UNCHANGED <<tally, disturbed>>
    /\ UNCHANGED <<toggle, newPacketReceived, info, packetstate, packetbuff,
                   loop, sent, restarts, unpublished, missed>>

\* The lost link has ended the session: every link is down, a scan has built
\* bleDevices anew and the boards are connected again.  The statics of
\* bleCollectPacket stay.  (That loop() is not in the middle of a pass is an
\* assumption: otherwise it works on a vector that is being replaced.)
SessionRestart ==
    /\ linked = {}
    /\ loop.pc = "top"
    /\ restarts < MaxRestarts
    /\ restarts' = restarts + 1
    /\ linked' = Boards
    /\ toggle' = [b \in Boards |-> FALSE]
    /\ newPacketReceived' = [b \in Boards |-> FALSE]
    /\ info' = [b \in Boards |-> NoInfo]
    /\ unpublished' = {}
    /\ missed' = {}
    /\ UNCHANGED <<air, packetstate, packetbuff, loop, sent, tally, disturbed>>

-----------------------------------------------------------------------------
(* The loop task: the BMS part of loop() *)

\* sendInfoCommand to a connected board whose interval is over: the command
\* alternates between the two kinds of info, the first being cell info; the
\* board answers.
SendInfoCommand(b) ==
    /\ loop.pc = "top"
    /\ b \in linked
    /\ sent < MaxFrames
    /\ sent' = sent + 1
    /\ toggle' = [toggle EXCEPT ![b] = ~@]
    /\ LET f == [board |-> b, no |-> sent + 1,
                 type |-> IF toggle[b] THEN "basicInfo3" ELSE "cellInfo4"]
       IN  \E frags \in Notifications(f) :
               air' = [air EXCEPT ![b] = @ \o frags]
    /\ loop' = [pc |-> "sent", board |-> b]
    /\ missed' = missed \ {b}
    /\ UNCHANGED <<newPacketReceived, info, linked, packetstate, packetbuff,
                   restarts, tally, disturbed, unpublished>>

\* the last statement of sendInfoCommand, after the command is on its way
ResetFlag ==
    /\ loop.pc = "sent"
    /\ newPacketReceived' = [newPacketReceived EXCEPT ![loop.board] = FALSE]
    /\ loop' = [loop EXCEPT !.pc = "top"]
    /\ UNCHANGED <<toggle, info, linked, air, packetstate, packetbuff, sent,
                   restarts, tally, disturbed, unpublished, missed>>

\* loop() sees newPacketReceived and resets it before it reads the data
TakePacket(b) ==
    /\ loop.pc = "top"
    /\ newPacketReceived[b]
    /\ newPacketReceived' = [newPacketReceived EXCEPT ![b] = FALSE]
    /\ loop' = [pc |-> "publish", board |-> b]
    /\ UNCHANGED <<toggle, info, linked, air, packetstate, packetbuff, sent,
                   restarts, tally, disturbed, unpublished, missed>>

\* updateBmsInfo and publishJson with the data of that moment
Publish ==
    /\ loop.pc = "publish"
    /\ loop' = [loop EXCEPT !.pc = "top"]
    /\ unpublished' = unpublished \ {loop.board}
    /\ UNCHANGED <<toggle, newPacketReceived, info, linked, air, packetstate,
                   packetbuff, sent, restarts, tally, disturbed, missed>>

-----------------------------------------------------------------------------
(* The host task: notifyCB, bleCollectPacket, bmsProcessPacket *)

\* Whether a packet is one answer as it was sent: its two halves, or a short
\* answer (which the buffer holds twice, as both tests of bleCollectPacket
\* hold for it; the second copy is never looked at).
WellFormed(packet) ==
    /\ Len(packet) = 2
    /\ packet[1].frame = packet[2].frame
    /\ <<packet[1].part, packet[2].part>> \in
           {<<"first", "second">>, <<"whole", "whole">>}

\* The type the header of a packet shows.  A second half taken for a packet
\* shows anything: an info type, one of the two others that are accepted
\* (device name, MOSFET control), or none.
HeaderTypes(packet) ==
    IF packet[1].part = "second" THEN Types \cup {"other", "unsupported"}
                                 ELSE {packet[1].frame.type}

\* mutant: only the first case of the switch reports the packet
ReportedOnce(type) == type = "basicInfo3"

Reported(type) == type # "unsupported"

\* bmsProcessPacket, without a look at the checksum
Process(b, packet) ==
    \E type \in HeaderTypes(packet) :
        /\ info' = IF type \in Types THEN [info EXCEPT ![b][type] = packet]
                                     ELSE info
        /\ newPacketReceived' = [newPacketReceived EXCEPT ![b] = @ \/ Reported(type)]
        /\ unpublished' = IF type \in Types THEN unpublished \cup {b} ELSE unpublished
        /\ missed' = IF packet[2].part = "first" THEN missed
                     ELSE IF type = "unsupported" \/ loop = [pc |-> "sent", board |-> b]
                     THEN missed \cup {b}
                     ELSE missed \ {b}

\* "probably got 1st half of packet"
StartsPacket(frag) == frag.startsDD /\ packetstate = 0

\* mutant: the second test is the else branch of the first
CompletesElseIf(frag) == frag.ends77 /\ ~StartsPacket(frag) /\ packetstate = 1

\* "probably got 2nd half of the packet": the first test may have succeeded
\* for the same fragment, which is then stored twice.
CompletesPacket(frag) == frag.ends77 /\ (StartsPacket(frag) \/ packetstate = 1)

\* mutant: the state is not reset after a packet
StateKept == 2

StateAfterPacket == 0

\* bleCollectPacket, called by notifyCB on the object of the sender
CollectPacket(b) ==
    LET frag == Head(air[b])
        buff == IF StartsPacket(frag) THEN <<frag>> ELSE packetbuff
        packet == Append(buff, frag)
        complete == CompletesPacket(frag)
        overlaps == frag.part # "second" /\ Halves # {}
        Plus(n, cond) == IF cond THEN n + 1 ELSE n
    IN  /\ air[b] # <<>>
        /\ air' = [air EXCEPT ![b] = Tail(@)]
        /\ tally' = [tally EXCEPT
                        !.bad = Plus(@, complete /\ ~WellFormed(packet)),
                        !.swallowed = Plus(@, ~complete /\ frag.part # "first"),
                        !.overlaps = Plus(@, overlaps),
                        !.marks = Plus(@, Accidental(frag))]
        /\ disturbed' = IF overlaps
                        THEN disturbed \cup {frag.frame} \cup FramesInProgress(Halves)
                        ELSE disturbed
        /\ IF complete
           THEN /\ Process(b, packet)
                /\ packetstate' = StateAfterPacket
                /\ packetbuff' = <<>>
           ELSE /\ packetstate' = IF StartsPacket(frag) THEN 1 ELSE packetstate
                /\ packetbuff' = buff
                /\ missed' = IF frag.part = "first" THEN missed ELSE missed \cup {b}
                /\ UNCHANGED <<info, newPacketReceived, unpublished>>
        /\ UNCHANGED <<toggle, linked, loop, sent, restarts>>

-----------------------------------------------------------------------------
Next ==
    \/ \E b \in Boards : \/ SendInfoCommand(b)
                         \/ TakePacket(b)
                         \/ CollectPacket(b)
                         \/ LinkLost(b)
    \/ ResetFlag
    \/ Publish
    \/ SessionRestart

Spec == Init /\ [][Next]_vars

-----------------------------------------------------------------------------
(* Properties *)

\* bleCollectPacket recovers: although its statics survive lost links and are
\* shared by all boards, every cut answer, every overlap of two answers and
\* every accidental mark spoils at most one packet, then or later.
CorruptionBounded == tally.bad <= tally.cuts + tally.overlaps + tally.marks

\* Every answer that arrives to its end makes a packet, good or bad, except
\* one for each overlap and each accidental mark.  The state a lost link
\* leaves behind swallows none.
AnswersAccounted == tally.swallowed <= tally.overlaps + tally.marks

\* The data of a board are a packet of that board, as it was sent and of the
\* kind it is stored as, unless they begin with an answer that was cut or
\* overlapped, or hold an accidental mark: what happened to other answers
\* before, in this session or an earlier one, makes no difference.
InfoIsOwn ==
    \A b \in Boards, t \in Types :
        LET packet == info[b][t]
        IN  \/ packet = <<>>
            \/ packet[1].frame \in disturbed
            \/ \E i \in DOMAIN packet : Accidental(packet[i])
            \/ /\ WellFormed(packet)
               /\ packet[1].frame.board = b
               /\ packet[1].frame.type = t

\* Data nobody has published are announced by newPacketReceived, or about to
\* be published, or another answer is on its way.  The exceptions are a board
\* whose last answer made no packet or overtook the end of sendInfoCommand
\* (its data wait for the next answer), and a lost link, which ends the
\* session anyway.
UpdateAnnounced ==
    \A b \in unpublished :
        \/ newPacketReceived[b]
        \/ loop = [pc |-> "publish", board |-> b]
        \/ air[b] # <<>>
        \/ b \in missed
        \/ b \notin linked

(* What comments in the code say, and the code does not do *)

\* MyBLE2.hpp:61: packBasicInfo and packCellInfo shall be "the latest data
\* got from BMS": they hold data of the board they belong to.
DataOfThisBoard ==
    \A b \in Boards, t \in Types : \A i \in DOMAIN info[b][t] :
        info[b][t][i].frame.board = b

\* MyBLE2.hpp:86: bleCollectPacket is to "reconstruct packet from BLE
\* incomming data": every packet it hands on is one that a board sent.
PacketsReconstructed == tally.bad = 0
=============================================================================
