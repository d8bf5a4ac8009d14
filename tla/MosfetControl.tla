---------------------------- MODULE MosfetControl ----------------------------
(***************************************************************************)
(* Switching the charge and discharge MOSFETs of one battery board.        *)
(*                                                                         *)
(* The topics cmnd/<board>/charge and .../discharge reach mqttCallback,    *)
(* which runs on the loop task inside mqttClient.loop().  The command sent *)
(* to the board always sets both switches: the one that was not asked for  *)
(* is set to what the last basic info said of it, and the retained STATE   *)
(* message is published before the board has answered.  Meanwhile loop()   *)
(* polls the board, in turn for cell info and basic info, and publishes    *)
(* STATE whenever any answer, the answer to a command included, has set    *)
(* newPacketReceived.  A STATE message may be lost: publish and publishJson  *)
(* connect again if the connection is known to be down (MqttReconnect),    *)
(* and nobody looks at whether the message got through.                    *)
(*                                                                         *)
(* A state of the two switches is the set of those that are on.  Packets   *)
(* arrive whole (BmsPolling is about their halves); the boards do not      *)
(* interact here, so one of them is enough.                                *)
(***************************************************************************)
EXTENDS Integers, Sequences

CONSTANT MaxCommands  \* bound on the commands of the users

ASSUME MosfetAssumption == MaxCommands \in Nat

Switches == {"charge", "discharge"}
Status == SUBSET Switches

\* The board's entry of bleDevices: just rebuilt, its topic matching nothing;
\* with its topic but never connected (pChr_tx is null); connected; after its
\* link was lost, first with advDevices cleared, then with the board seen again.
Phases == {"rebuilt", "setUp", "linked", "cleared", "seenAgain"}

VARIABLES
    phase,             \* what the callbacks find of the board
    fets,              \* the switches of the board that are on
    toBoard,           \* commands on their way to the board
    fromBoard,         \* answers on their way from the board
    MosfetStatus,      \* packBasicInfo.MosfetStatus
    newPacketReceived, \* MyBLE2::newPacketReceived
    toggle,            \* MyBLE2::toggle
    shown,             \* the switches in the retained STATE message
    loop,              \* the loop task: location and command in progress
    commands,          \* commands received
    given,             \* history: controls sent since the last rebuild
    done,              \* history: the last control the board has executed
    heard,             \* history: the last one before the latest basic info; or -1
    wanted,            \* history: the switches as the users want them
    stale,             \* history: news was lost: newPacketReceived reset unseen,
                       \* or a STATE message that did not reach the broker
    hasty              \* history: a command came before the last one had shown

vars == <<phase, fets, toBoard, fromBoard, MosfetStatus, newPacketReceived,
          toggle, shown, loop, commands, given, done, heard, wanted,
          stale, hasty>>

\* An unknown message, answered with INVALID, has the effect of the empty one.
Messages == {"", "0", "1", "toggle"}
Infos == {"basicInfo3", "cellInfo4"}
\* what is on its way; no numbers the controls
ToBoard == [kind : Infos \cup {"control"}, off : Status, no : Nat]
FromBoard == [kind : Infos \cup {"control"}, status : Status, done : Nat]
Loop == [pc : {"top", "command", "sent", "publish"}, switch : Switches,
         msg : Messages, status : Status]

\* No step of the callbacks, the loop task or the board gives a variable
\* another type: the switches stay charge and discharge, the numbers of
\* controls natural.
TypeOK ==
    /\ phase \in Phases
    /\ fets \in Status
    /\ toBoard \in Seq(ToBoard)
    /\ fromBoard \in Seq(FromBoard)
    /\ MosfetStatus \in Status
    /\ newPacketReceived \in BOOLEAN
    /\ toggle \in BOOLEAN
    /\ shown \in Status
    /\ loop \in Loop
    /\ commands \in 0 .. MaxCommands
    /\ given \in Nat
    /\ done \in Nat
    /\ heard \in Nat \cup {-1}
    /\ wanted \in Status
    /\ stale \in BOOLEAN
    /\ hasty \in BOOLEAN

AtTop == [pc |-> "top", switch |-> "charge", msg |-> "", status |-> {}]

Init ==
    /\ phase = "rebuilt"
    /\ fets \in Status
    /\ toBoard = <<>>
    /\ fromBoard = <<>>
    /\ MosfetStatus = {}
    /\ newPacketReceived = FALSE
    /\ toggle = FALSE
    /\ shown \in Status
    /\ loop = AtTop
    /\ commands = 0
    /\ given = 0
    /\ done = 0
    /\ heard = -1
    /\ wanted = fets
    /\ stale = FALSE
    /\ hasty = FALSE

-----------------------------------------------------------------------------
(* The life of the board's entry in bleDevices *)

\* a new MyBLE2 object: nothing polled, nothing sent
FreshEntry ==
    /\ phase' = "rebuilt"
    /\ MosfetStatus' = {}
    /\ newPacketReceived' = FALSE
    /\ toggle' = FALSE
    /\ given' = 0
    /\ done' = 0
    /\ heard' = -1
    /\ wanted' = fets
    /\ stale' = FALSE
    /\ hasty' = FALSE
    /\ UNCHANGED <<fets, toBoard, fromBoard, shown, commands>>

\* onScanEnd rebuilds bleDevices, with or without the board.
ScanEnd ==
    /\ phase # "linked"
    /\ FreshEntry
    /\ UNCHANGED loop

Becomes(before, after) ==
    /\ phase \in before
    /\ phase' = after
    /\ UNCHANGED <<fets, MosfetStatus, newPacketReceived, toggle, shown, loop,
                   commands, given, done, heard, wanted, stale, hasty>>

\* bmsSetup gives the board its topic (or a new scan has seen the board, and
\* the entry has its topic from before)
BmsSetup == Becomes({"rebuilt"}, "setUp") /\ UNCHANGED <<toBoard, fromBoard>>

\* connectToServer stores the characteristics
Connected ==
    loop.pc = "top" /\ Becomes({"setUp"}, "linked") /\ UNCHANGED <<toBoard, fromBoard>>

\* The link ends, and with it all that is on its way; clearResources empties
\* advDevices.
LinkLost == Becomes({"linked"}, "cleared") /\ toBoard' = <<>> /\ fromBoard' = <<>>

\* the link of another board ends the session of all
SessionCleared == Becomes({"setUp"}, "rebuilt") /\ UNCHANGED <<toBoard, fromBoard>>

\* onResult of the new scan, with bleDevices still the old one
SeenAgain == Becomes({"cleared"}, "seenAgain") /\ UNCHANGED <<toBoard, fromBoard>>

-----------------------------------------------------------------------------
(* Commands: mqttCallback, mosfetCtrl, bmsMosfetCtrl *)

\* The loop over advDevices finds the topic, and the callback reads the status.
Command(x, m) ==
    /\ loop.pc = "top"
    /\ phase \in {"setUp", "linked", "seenAgain"}
    /\ commands < MaxCommands
    /\ commands' = commands + 1
    /\ loop' = [pc |-> "command", switch |-> x, msg |-> m, status |-> MosfetStatus]
    /\ hasty' = (hasty \/ (phase = "linked" /\ heard # given))
    /\ UNCHANGED <<phase, fets, toBoard, fromBoard, MosfetStatus, newPacketReceived,
                   toggle, shown, given, done, heard, wanted, stale>>

Flip(on, x) == IF x \in on THEN on \ {x} ELSE on \cup {x}

\* what message m for switch x makes of the status it starts from
Asked(on, x, m) == CASE m = "0" -> on \ {x}
                     [] m = "1" -> on \cup {x}
                     [] m = "toggle" -> Flip(on, x)
                     [] OTHER -> on

\* mutant: the parameter is sent as it is
ParamAsIs(on) == on

\* mutant: commandParam ^ 7, a mask with a bit too many
ParamWide(on) == (Switches \ on) \cup {"balance"}

\* commandParam ^ 3: the board is told what to switch off
Param(on) == Switches \ on

Controls == loop.msg \in {"0", "1", "toggle"}

\* The command goes out, unless the link is gone and the write fails, and the
\* new status is published as if it were that of the board, or lost.
Answer ==
    /\ loop.pc = "command"
    /\ Controls => phase \in {"linked", "cleared", "seenAgain"}
    /\ IF Controls /\ phase = "linked"
       THEN /\ toBoard' = Append(toBoard, [kind |-> "control",
                    off |-> Param(Asked(loop.status, loop.switch, loop.msg)),
                    no |-> given + 1])
            /\ given' = given + 1
            /\ wanted' = Asked(wanted, loop.switch, loop.msg)
       ELSE UNCHANGED <<toBoard, given, wanted>>
    /\ \/ shown' = Asked(loop.status, loop.switch, loop.msg) /\ UNCHANGED stale
       \/ UNCHANGED shown /\ stale' = TRUE
    /\ loop' = AtTop
    /\ UNCHANGED <<phase, fets, fromBoard, MosfetStatus, newPacketReceived, toggle,
                   commands, done, heard, hasty>>

\* bmsMosfetCtrl does not look whether pChr_tx is null, nor whether its client
\* still exists: the chip panics and restarts.
Panic ==
    /\ loop.pc = "command"
    /\ Controls
    /\ phase # "linked"
    /\ loop' = AtTop
    /\ FreshEntry

-----------------------------------------------------------------------------
(* Polling, as in BmsPolling *)

\* The interval between two info commands is longer than an answer takes.
SendInfoCommand ==
    /\ loop.pc = "top"
    /\ phase = "linked"
    /\ \A i \in DOMAIN toBoard : toBoard[i].kind \notin Infos
    /\ \A i \in DOMAIN fromBoard : fromBoard[i].kind \notin Infos
    /\ toBoard' = Append(toBoard, [kind |-> IF toggle THEN "basicInfo3" ELSE "cellInfo4",
                                   off |-> {}, no |-> 0])
    /\ toggle' = ~toggle
    /\ loop' = [AtTop EXCEPT !.pc = "sent"]
    /\ UNCHANGED <<phase, fets, fromBoard, MosfetStatus, newPacketReceived, shown,
                   commands, given, done, heard, wanted, stale, hasty>>

\* the last statement of sendInfoCommand
ResetFlag ==
    /\ loop.pc = "sent"
    /\ newPacketReceived' = FALSE
    /\ stale' = (stale \/ newPacketReceived)
    /\ loop' = AtTop
    /\ UNCHANGED <<phase, fets, toBoard, fromBoard, MosfetStatus, toggle, shown,
                   commands, given, done, heard, wanted, hasty>>

\* loop() polls entries with a characteristic only
TakePacket ==
    /\ loop.pc = "top"
    /\ newPacketReceived
    /\ phase \in {"linked", "cleared", "seenAgain"}
    /\ newPacketReceived' = FALSE
    /\ loop' = [AtTop EXCEPT !.pc = "publish"]
    /\ UNCHANGED <<phase, fets, toBoard, fromBoard, MosfetStatus, toggle, shown,
                   commands, given, done, heard, wanted, stale, hasty>>

\* publishJson of getState(): the message becomes what the broker retains, or
\* is lost with the connection; the flag is gone either way.
Publish ==
    /\ loop.pc = "publish"
    /\ \/ shown' = MosfetStatus /\ stale' = FALSE
       \/ UNCHANGED shown /\ stale' = TRUE
    /\ loop' = AtTop
    /\ UNCHANGED <<phase, fets, toBoard, fromBoard, MosfetStatus, newPacketReceived,
                   toggle, commands, given, done, heard, wanted, hasty>>

\* The board executes one command and answers it.
BoardActs ==
    /\ toBoard # <<>>
    /\ LET c == Head(toBoard)
       IN  /\ fets' = IF c.kind = "control" THEN Switches \ c.off ELSE fets
           /\ done' = IF c.kind = "control" THEN c.no ELSE done
           /\ fromBoard' = Append(fromBoard, [kind |-> c.kind, status |-> fets',
                                              done |-> done'])
    /\ toBoard' = Tail(toBoard)
    /\ UNCHANGED <<phase, MosfetStatus, newPacketReceived, toggle, shown, loop,
                   commands, given, heard, wanted, stale, hasty>>

\* mutant: a basic info is announced only when the switches have changed
AnnouncedIfChanged(answer) ==
    answer.kind = "basicInfo3" => answer.status # MosfetStatus

\* mutant: the answer to a command is not announced, nor is basic info
AnnouncedCellInfo(answer) == answer.kind = "cellInfo4"

\* every type of packet that is known
Announced(answer) == TRUE

\* bmsProcessPacket: every known type of packet is announced
ProcessPacket ==
    /\ fromBoard # <<>>
    /\ LET answer == Head(fromBoard)
       IN  /\ newPacketReceived' = (newPacketReceived \/ Announced(answer))
           /\ IF answer.kind = "basicInfo3"
              THEN MosfetStatus' = answer.status /\ heard' = answer.done
              ELSE UNCHANGED <<MosfetStatus, heard>>
    /\ fromBoard' = Tail(fromBoard)
    /\ UNCHANGED <<phase, fets, toBoard, toggle, shown, loop, commands,
                   given, done, wanted, stale, hasty>>

-----------------------------------------------------------------------------
EntryStep == ScanEnd \/ BmsSetup \/ Connected \/ LinkLost \/ SessionCleared \/ SeenAgain

Next ==
    \/ EntryStep
    \/ \E x \in Switches, m \in Messages : Command(x, m)
    \/ Answer \/ Panic
    \/ SendInfoCommand \/ ResetFlag \/ TakePacket \/ Publish
    \/ BoardActs \/ ProcessPacket

Spec == Init /\ [][Next]_vars

(***************************************************************************)
(* The loop task goes on, the board answers, and answers arrive.  Three    *)
(* things are only bad luck and do not happen for ever: that every answer  *)
(* arrives in the microseconds between the two statements of               *)
(* sendInfoCommand, that the next poll, seconds later, comes before loop() *)
(* looks at the flag, and that every STATE message is lost.  (publishJson  *)
(* connects again first; an outage it does not survive ends in a shutdown, *)
(* which is the subject of MqttReconnect.)                                 *)
(***************************************************************************)
FairSpec ==
    /\ Spec
    /\ WF_vars(Answer) /\ WF_vars(SendInfoCommand)
    /\ WF_vars(ResetFlag) /\ SF_vars(ResetFlag /\ toBoard # <<>>)
    /\ SF_vars(TakePacket) /\ WF_vars(Publish) /\ SF_vars(Publish /\ ~stale')
    /\ WF_vars(BoardActs) /\ WF_vars(ProcessPacket)

-----------------------------------------------------------------------------
\* Users who since the last rebuild have waited for the next poll before each
\* command get what they asked for: one switch never changes because of a
\* command for the other, although every command sets both, and whatever links
\* were lost before.
SwitchesObeyed == ~hasty /\ phase = "linked" /\ given = done => fets = wanted

\* Once the last command has shown in a poll, loop() is not about to publish
\* and no news was lost since its last publication, the retained STATE
\* message is the truth about the board, although
\* mqttCallback publishes what it has asked for, and the answer to its command
\* makes loop() publish the status from before the command.
ShownIsTruth ==
    /\ phase = "linked"
    /\ heard = given
    /\ loop.pc \in {"top", "sent"}
    /\ ~newPacketReceived
    /\ ~stale
    => shown = fets

\* When the users leave the switches alone and the link holds, the STATE
\* message comes to tell the truth, and stays true, whatever STATE messages
\* are lost in between: polling goes on, and every poll is published anew.
ShownConverges == <>[](phase = "linked") => <>[](shown = fets)
=============================================================================
