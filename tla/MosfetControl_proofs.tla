------------------------- MODULE MosfetControl_proofs -------------------------
(***************************************************************************)
(* Theorems about MosfetControl, for any number of commands.  The control  *)
(* commands are numbered, and the argument is one about numbers: a poll    *)
(* whose answer was made after the last control tells the truth, and stays *)
(* true until the next control.                                            *)
(***************************************************************************)
EXTENDS MosfetControl, TLAPS

-----------------------------------------------------------------------------
(* Sequences *)

\* What Append returns.
LEMMA Appended ==
    ASSUME NEW S, NEW q \in Seq(S), NEW e \in S
    PROVE  /\ Append(q, e) \in Seq(S)
           /\ DOMAIN Append(q, e) = 1 .. Len(q) + 1
           /\ \A i \in 1 .. Len(q) : Append(q, e)[i] = q[i] /\ q[i] \in S
           /\ Append(q, e)[Len(q) + 1] = e
           /\ DOMAIN q = 1 .. Len(q)
           /\ Len(q) \in Nat
OBVIOUS

\* What Head and Tail return.
LEMMA HeadTail ==
    ASSUME NEW S, NEW q \in Seq(S), q # <<>>
    PROVE  /\ Head(q) \in S
           /\ Tail(q) \in Seq(S)
           /\ Head(q) = q[1]
           /\ 1 \in DOMAIN q
           /\ \A i \in DOMAIN Tail(q) : i + 1 \in DOMAIN q /\ Tail(q)[i] = q[i + 1]
           /\ DOMAIN Tail(q) \subseteq Nat \ {0}
OBVIOUS

-----------------------------------------------------------------------------
(* Type correctness *)

\* AtTop and its variants are locations of the loop task.
LEMMA AtTopType ==
    /\ AtTop \in Loop
    /\ [AtTop EXCEPT !.pc = "sent"] \in Loop
    /\ [AtTop EXCEPT !.pc = "publish"] \in Loop
BY DEF AtTop, Loop, Switches, Messages, Status

\* A message turns a status into a status.
LEMMA AskedType ==
    ASSUME NEW on \in Status, NEW x \in Switches, NEW m
    PROVE  Asked(on, x, m) \in Status
BY DEF Asked, Flip, Status

\* The board is told to switch off what shall not be on.
LEMMA ParamTwice ==
    ASSUME NEW on \in Status
    PROVE  Param(on) \in Status /\ Switches \ Param(on) = on
BY DEF Param, Status

\* The steps of the entry in bleDevices preserve the types.
LEMMA EntryTypeOK == TypeOK /\ (EntryStep \/ Panic) => TypeOK'
<1> SUFFICES ASSUME TypeOK, EntryStep \/ Panic PROVE TypeOK'
  OBVIOUS
<1>1. ASSUME FreshEntry, loop' \in Loop PROVE TypeOK'
  BY <1>1 DEF FreshEntry, TypeOK, Phases, Status
<1>2. ASSUME NEW before, NEW after \in Phases, Becomes(before, after),
             toBoard' \in Seq(ToBoard), fromBoard' \in Seq(FromBoard)
      PROVE  TypeOK'
  BY <1>2 DEF Becomes, TypeOK
<1>3. CASE ScanEnd
  BY <1>1, <1>3 DEF ScanEnd, TypeOK
<1>4. CASE Panic
  BY <1>1, <1>4, AtTopType DEF Panic
<1>5. CASE BmsSetup \/ Connected \/ SessionCleared \/ SeenAgain
  BY <1>2, <1>5
  DEF BmsSetup, Connected, SessionCleared, SeenAgain, Phases, TypeOK
<1>6. CASE LinkLost
  <2>1. toBoard' \in Seq(ToBoard) /\ fromBoard' \in Seq(FromBoard)
    BY <1>6 DEF LinkLost
  <2> QED
    BY <1>2, <1>6, <2>1 DEF LinkLost, Phases
<1> QED
  BY <1>3, <1>4, <1>5, <1>6 DEF EntryStep

\* Answer preserves the types.
LEMMA AnswerTypeOK == TypeOK /\ Answer => TypeOK'
<1> SUFFICES ASSUME TypeOK, Answer PROVE TypeOK'
  OBVIOUS
<1> DEFINE asked == Asked(loop.status, loop.switch, loop.msg)
           c == [kind |-> "control", off |-> Param(asked), no |-> given + 1]
<1>1. loop.status \in Status /\ loop.switch \in Switches
  BY DEF TypeOK, Loop
<1>2. asked \in Status /\ Asked(wanted, loop.switch, loop.msg) \in Status
  BY <1>1, AskedType DEF TypeOK
<1>3. c \in ToBoard
  BY <1>2, ParamTwice DEF ToBoard, TypeOK
<1>4. Append(toBoard, c) \in Seq(ToBoard)
  BY <1>3, Appended DEF TypeOK
<1>5. toBoard' = Append(toBoard, c) \/ toBoard' = toBoard
  BY DEF Answer
<1>6. toBoard' \in Seq(ToBoard)
  BY <1>4, <1>5 DEF TypeOK
<1>7. given' = given + 1 \/ given' = given
  BY DEF Answer
<1>8. wanted' = Asked(wanted, loop.switch, loop.msg) \/ wanted' = wanted
  BY DEF Answer
<1>9. given' \in Nat /\ wanted' \in Status
  BY <1>2, <1>7, <1>8 DEF TypeOK
<1> QED
  BY <1>2, <1>6, <1>9, AtTopType DEF Answer, TypeOK

\* Every step preserves the types.
LEMMA NextTypeOK == TypeOK /\ [Next]_vars => TypeOK'
<1> SUFFICES ASSUME TypeOK, [Next]_vars PROVE TypeOK'
  OBVIOUS
<1>1. CASE EntryStep \/ Panic
  BY <1>1, EntryTypeOK
<1>2. ASSUME NEW x \in Switches, NEW m \in Messages, Command(x, m)
      PROVE  TypeOK'
  <2>1. loop' \in Loop
    BY <1>2 DEF Command, Loop, TypeOK
  <2>2. commands' \in 0 .. MaxCommands
    BY <1>2, MosfetAssumption DEF Command, TypeOK
  <2> QED
    BY <1>2, <2>1, <2>2 DEF Command, TypeOK
<1>3. CASE Answer
  BY <1>3, AnswerTypeOK
<1>4. CASE SendInfoCommand
  <2> DEFINE c == [kind |-> IF toggle THEN "basicInfo3" ELSE "cellInfo4",
                   off |-> {}, no |-> 0]
  <2>1. c \in ToBoard
    BY DEF ToBoard, Infos, Status
  <2>2. Append(toBoard, c) \in Seq(ToBoard)
    BY <2>1, Appended DEF TypeOK
  <2>3. toBoard' \in Seq(ToBoard)
    BY <1>4, <2>2 DEF SendInfoCommand
  <2> QED
    BY <1>4, <2>3, AtTopType DEF SendInfoCommand, TypeOK
<1>5. CASE ResetFlag \/ TakePacket \/ Publish
  BY <1>5, AtTopType DEF ResetFlag, TakePacket, Publish, TypeOK
<1>6. CASE BoardActs
  <2> DEFINE c == Head(toBoard)
             answer == [kind |-> c.kind, status |-> fets', done |-> done']
  <2>1. c \in ToBoard /\ Tail(toBoard) \in Seq(ToBoard)
    BY <1>6, HeadTail DEF BoardActs, TypeOK
  <2>2. fets' \in Status /\ done' \in Nat
    BY <1>6, <2>1 DEF BoardActs, TypeOK, ToBoard, Status
  <2>3. answer \in FromBoard
    BY <2>1, <2>2 DEF FromBoard, ToBoard
  <2>4. Append(fromBoard, answer) \in Seq(FromBoard)
    BY <2>3, Appended DEF TypeOK
  <2>5. fromBoard' \in Seq(FromBoard) /\ toBoard' \in Seq(ToBoard)
    BY <1>6, <2>1, <2>4 DEF BoardActs
  <2> QED
    BY <1>6, <2>2, <2>5 DEF BoardActs, TypeOK
<1>7. CASE ProcessPacket
  <2>1. Head(fromBoard) \in FromBoard /\ Tail(fromBoard) \in Seq(FromBoard)
    BY <1>7, HeadTail DEF ProcessPacket, TypeOK
  <2>2. MosfetStatus' \in Status /\ heard' \in Nat \cup {-1}
    BY <1>7, <2>1 DEF ProcessPacket, TypeOK, FromBoard
  <2> QED
    BY <1>7, <2>1, <2>2 DEF ProcessPacket, TypeOK
<1>8. CASE UNCHANGED vars
  BY <1>8 DEF vars, TypeOK
<1> QED
  BY <1>1, <1>2, <1>3, <1>4, <1>5, <1>6, <1>7, <1>8 DEF Next

\* All variables keep their types, for any number of commands.
THEOREM TypeCorrect == Spec => []TypeOK
<1>1. ASSUME Init PROVE TypeOK
  <2>1. /\ toBoard \in Seq(ToBoard)
        /\ fromBoard \in Seq(FromBoard)
        /\ loop \in Loop
    BY <1>1, AtTopType DEF Init
  <2>2. commands \in 0 .. MaxCommands
    BY <1>1, MosfetAssumption DEF Init
  <2> QED
    BY <1>1, <2>1, <2>2 DEF Init, TypeOK, Phases, Status
<1> QED
  BY <1>1, NextTypeOK, PTL DEF Spec

-----------------------------------------------------------------------------
(* The invariant behind the truth of STATE *)

\* Nothing is on its way without a link; an entry that was never connected
\* has sent and heard nothing.
Unlinked ==
    /\ phase # "linked" => toBoard = <<>> /\ fromBoard = <<>>
    /\ phase \in {"rebuilt", "setUp"} =>
           given = 0 /\ done = 0 /\ heard = -1 /\ wanted = fets

\* Controls are executed in the order of their numbers.
InOrder ==
    /\ heard <= done
    /\ done <= given
    /\ \A i \in DOMAIN toBoard : toBoard[i].kind = "control" =>
           /\ done < toBoard[i].no
           /\ toBoard[i].no <= given
           /\ \A j \in DOMAIN toBoard :
                  j < i /\ toBoard[j].kind = "control"
                  => toBoard[j].no < toBoard[i].no
    /\ \A i \in DOMAIN fromBoard : fromBoard[i].done <= done

\* A basic info made after the last executed control is true, on its way and
\* when it has been stored.
PollsTrue ==
    /\ heard = done => MosfetStatus = fets
    /\ \A i \in DOMAIN fromBoard :
           fromBoard[i].kind = "basicInfo3" /\ fromBoard[i].done = done
           => fromBoard[i].status = fets

\* What a command has read, and what STATE shows, is what the last poll said,
\* unless newPacketReceived announces something newer.
ReadTrue ==
    phase = "linked" /\ loop.pc = "command" /\ ~newPacketReceived
    => loop.status = MosfetStatus

ShownTrue ==
    phase = "linked" /\ heard = given /\ loop.pc \in {"top", "sent"}
    /\ ~newPacketReceived /\ ~stale
    => shown = MosfetStatus

TruthInv == Unlinked /\ InOrder /\ PollsTrue /\ ReadTrue /\ ShownTrue

\* The initial states satisfy TruthInv.
LEMMA InitTruth == Init => TruthInv
<1> SUFFICES ASSUME Init PROVE TruthInv
  OBVIOUS
<1>1. DOMAIN toBoard = {} /\ DOMAIN fromBoard = {}
  BY DEF Init
<1>2. Unlinked /\ InOrder /\ PollsTrue
  BY <1>1 DEF Init, Unlinked, InOrder, PollsTrue
<1>3. ReadTrue /\ ShownTrue
  BY DEF Init, ReadTrue, ShownTrue
<1> QED
  BY <1>2, <1>3 DEF TruthInv

\* The steps of the entry in bleDevices preserve it: nothing is on its way.
LEMMA EntryTruth == TypeOK /\ TruthInv /\ (EntryStep \/ Panic) => TruthInv'
<1> SUFFICES ASSUME TypeOK, TruthInv, EntryStep \/ Panic PROVE TruthInv'
  OBVIOUS
<1>1. ASSUME FreshEntry, phase # "linked" PROVE TruthInv'
  <2>1. toBoard' = <<>> /\ fromBoard' = <<>>
    BY <1>1 DEF FreshEntry, TruthInv, Unlinked
  <2> QED
    BY <1>1, <2>1
    DEF FreshEntry, TruthInv, Unlinked, InOrder, PollsTrue, ReadTrue, ShownTrue
<1>2. CASE ScanEnd
  BY <1>1, <1>2 DEF ScanEnd
<1>3. CASE Panic
  BY <1>1, <1>3 DEF Panic
<1>4. CASE BmsSetup \/ SessionCleared \/ SeenAgain
  BY <1>4
  DEF BmsSetup, SessionCleared, SeenAgain, Becomes,
      TruthInv, Unlinked, InOrder, PollsTrue, ReadTrue, ShownTrue
<1>5. CASE Connected
  BY <1>5
  DEF Connected, Becomes, TruthInv, Unlinked, InOrder, PollsTrue, ReadTrue,
      ShownTrue
<1>6. CASE LinkLost
  <2>1. toBoard' = <<>> /\ fromBoard' = <<>> /\ phase' = "cleared"
    BY <1>6 DEF LinkLost, Becomes
  <2> QED
    BY <1>6, <2>1
    DEF LinkLost, Becomes, TruthInv, Unlinked, InOrder, PollsTrue, ReadTrue,
        ShownTrue
<1> QED
  BY <1>2, <1>3, <1>4, <1>5, <1>6 DEF EntryStep

\* A new control has the highest number, and makes every poll so far old.
LEMMA AnswerTruth == TypeOK /\ TruthInv /\ Answer => TruthInv'
<1> SUFFICES ASSUME TypeOK, TruthInv, Answer PROVE TruthInv'
  OBVIOUS
<1>1. loop'.pc = "top"
  BY DEF Answer, AtTop
<1>2. CASE Controls /\ phase = "linked"
  <2> DEFINE c == [kind |-> "control",
                   off |-> Param(Asked(loop.status, loop.switch, loop.msg)),
                   no |-> given + 1]
             n == Len(toBoard)
  <2>1. toBoard' = Append(toBoard, c) /\ given' = given + 1
    BY <1>2 DEF Answer
  <2>2. c \in ToBoard
    BY AskedType, ParamTwice DEF TypeOK, Loop, ToBoard
  <2>3. /\ DOMAIN toBoard' = 1 .. n + 1
        /\ \A i \in 1 .. n : toBoard'[i] = toBoard[i] /\ toBoard[i] \in ToBoard
        /\ toBoard'[n + 1] = c
        /\ DOMAIN toBoard = 1 .. n
        /\ n \in Nat
    BY <2>1, <2>2, Appended DEF TypeOK
  <2>4. UNCHANGED <<phase, fets, fromBoard, MosfetStatus, newPacketReceived,
                    done, heard>>
    BY DEF Answer
  <2>5. /\ given \in Nat /\ done \in Nat /\ heard \in Int
        /\ heard <= done /\ done <= given
    BY DEF TypeOK, TruthInv, InOrder
  <2>6. c.no = given + 1 /\ c.kind = "control"
    OBVIOUS
  <2>7. \A i \in DOMAIN toBoard' : toBoard'[i].kind = "control" =>
           /\ done < toBoard'[i].no
           /\ toBoard'[i].no <= given + 1
           /\ \A j \in DOMAIN toBoard' :
                  j < i /\ toBoard'[j].kind = "control"
                  => toBoard'[j].no < toBoard'[i].no
    <3> HIDE DEF c
    <3> SUFFICES ASSUME NEW i \in 1 .. n + 1, toBoard'[i].kind = "control"
                 PROVE  /\ done < toBoard'[i].no
                        /\ toBoard'[i].no <= given + 1
                        /\ \A j \in 1 .. n + 1 :
                               j < i /\ toBoard'[j].kind = "control"
                               => toBoard'[j].no < toBoard'[i].no
      BY <2>3
    <3>0. \A k \in 1 .. n : toBoard[k].no \in Nat
      BY <2>3 DEF ToBoard
    <3>1. CASE i = n + 1
      <4>1. \A j \in 1 .. n : toBoard[j].kind = "control" => toBoard[j].no <= given
        BY <2>3 DEF TruthInv, InOrder
      <4> QED
        BY <2>3, <2>5, <2>6, <3>0, <3>1, <4>1
    <3>2. CASE i \in 1 .. n
      <4>1. /\ done < toBoard[i].no
            /\ toBoard[i].no <= given
            /\ \A j \in 1 .. n : j < i /\ toBoard[j].kind = "control"
                                 => toBoard[j].no < toBoard[i].no
        BY <2>3, <3>2 DEF TruthInv, InOrder
      <4> QED
        BY <2>3, <2>5, <3>0, <3>2, <4>1
    <3> QED
      BY <2>3, <3>1, <3>2
  <2>8. InOrder'
    BY <2>1, <2>4, <2>5, <2>7 DEF InOrder, TruthInv
  <2> QED
    BY <1>1, <1>2, <2>1, <2>4, <2>5, <2>8
    DEF TruthInv, Unlinked, PollsTrue, ReadTrue, ShownTrue
<1>3. CASE ~(Controls /\ phase = "linked")
  <2>1. UNCHANGED <<toBoard, given, wanted, phase, fets, fromBoard, MosfetStatus,
                    newPacketReceived, done, heard>>
    BY <1>3 DEF Answer
  <2>2. phase = "linked" => Asked(loop.status, loop.switch, loop.msg) = loop.status
    BY <1>3 DEF Controls, Asked
  <2> QED
    BY <1>1, <2>1, <2>2
    DEF Answer, TruthInv, Unlinked, InOrder, PollsTrue, ReadTrue, ShownTrue
<1> QED
  BY <1>2, <1>3

\* The next command is executed: a control makes every poll so far old, a
\* poll tells the truth.
LEMMA BoardTruth == TypeOK /\ TruthInv /\ BoardActs => TruthInv'
<1> SUFFICES ASSUME TypeOK, TruthInv, BoardActs PROVE TruthInv'
  OBVIOUS
<1> DEFINE c == Head(toBoard)
           answer == [kind |-> c.kind, status |-> fets', done |-> done']
           n == Len(fromBoard)
<1>1. /\ c \in ToBoard
      /\ c = toBoard[1]
      /\ 1 \in DOMAIN toBoard
      /\ \A i \in DOMAIN toBoard' : i \in Nat /\ 1 < i + 1
                                    /\ i + 1 \in DOMAIN toBoard
                                    /\ toBoard'[i] = toBoard[i + 1]
  BY HeadTail DEF BoardActs, TypeOK
<1>2. /\ toBoard # <<>>
      /\ phase = "linked"
      /\ UNCHANGED <<phase, given, heard, MosfetStatus, newPacketReceived, loop,
                     shown, stale>>
      /\ fromBoard' = Append(fromBoard, answer)
  BY DEF BoardActs, TruthInv, Unlinked
<1>3. /\ c.kind = "control" => done' = c.no
      /\ c.kind # "control" => done' = done /\ fets' = fets
  BY DEF BoardActs
<1>4. /\ given \in Nat /\ done \in Nat /\ heard \in Int /\ c.no \in Nat
      /\ heard <= done /\ done <= given
  BY <1>1 DEF TypeOK, TruthInv, InOrder, ToBoard
<1>5. c.kind = "control" => done < c.no /\ c.no <= given
  BY <1>1 DEF TruthInv, InOrder
<1>6. answer \in FromBoard
  <2>1. fets' \in Status /\ done' \in Nat
    BY NextTypeOK DEF Next, TypeOK
  <2> QED
    BY <1>1, <2>1 DEF FromBoard, ToBoard
<1>7. /\ DOMAIN fromBoard' = 1 .. n + 1
      /\ \A i \in 1 .. n : fromBoard'[i] = fromBoard[i] /\ fromBoard[i] \in FromBoard
      /\ fromBoard'[n + 1].kind = c.kind
      /\ fromBoard'[n + 1].status = fets'
      /\ fromBoard'[n + 1].done = done'
      /\ DOMAIN fromBoard = 1 .. n
      /\ n \in Nat
  BY <1>2, <1>6, Appended DEF TypeOK
<1> HIDE DEF c, answer, n
<1>8. \A i \in 1 .. n : fromBoard[i].done \in Nat /\ fromBoard[i].done <= done
  BY <1>7 DEF FromBoard, TruthInv, InOrder
<1>9. InOrder'
  <2>1. \A i \in DOMAIN toBoard' : toBoard'[i].kind = "control" =>
           /\ done' < toBoard'[i].no
           /\ toBoard'[i].no <= given'
           /\ \A j \in DOMAIN toBoard' :
                  j < i /\ toBoard'[j].kind = "control"
                  => toBoard'[j].no < toBoard'[i].no
    <3> SUFFICES ASSUME NEW i \in DOMAIN toBoard', toBoard'[i].kind = "control"
                 PROVE  /\ done' < toBoard'[i].no
                        /\ toBoard'[i].no <= given'
                        /\ \A j \in DOMAIN toBoard' :
                               j < i /\ toBoard'[j].kind = "control"
                               => toBoard'[j].no < toBoard'[i].no
      OBVIOUS
    <3>1. /\ i + 1 \in DOMAIN toBoard /\ i \in Nat
          /\ toBoard'[i] = toBoard[i + 1]
          /\ toBoard[i + 1].kind = "control"
      BY <1>1
    <3>2. /\ done < toBoard[i + 1].no
          /\ toBoard[i + 1].no <= given
          /\ \A j \in DOMAIN toBoard : j < i + 1 /\ toBoard[j].kind = "control"
                                       => toBoard[j].no < toBoard[i + 1].no
      BY <3>1 DEF TruthInv, InOrder
    <3>3. c.kind = "control" => c.no < toBoard[i + 1].no
      <4>1. 1 < i + 1
        BY <1>1
      <4> QED
        BY <1>1, <3>2, <4>1
    <3>4. ASSUME NEW j \in DOMAIN toBoard', j < i, toBoard'[j].kind = "control"
          PROVE  toBoard'[j].no < toBoard'[i].no
      <4>1. j \in Nat /\ j + 1 \in DOMAIN toBoard /\ toBoard'[j] = toBoard[j + 1]
        BY <1>1
      <4>2. j + 1 < i + 1
        BY <3>1, <3>4, <4>1
      <4> QED
        BY <3>1, <3>2, <3>4, <4>1, <4>2
    <3> QED
      BY <1>2, <1>3, <3>1, <3>2, <3>3, <3>4
  <2>2. \A i \in DOMAIN fromBoard' : fromBoard'[i].done <= done'
    <3>1. done <= done' /\ done' \in Nat
      BY <1>3, <1>4, <1>5
    <3>2. \A i \in 1 .. n : fromBoard'[i].done <= done'
      BY <1>4, <1>7, <1>8, <3>1
    <3> QED
      BY <1>7, <3>1, <3>2
  <2> QED
    BY <1>2, <1>3, <1>4, <1>5, <2>1, <2>2 DEF InOrder
<1>10. PollsTrue'
  <2>1. CASE c.kind = "control"
    <3>1. done < done' /\ heard # done' /\ done' \in Nat
      BY <1>3, <1>4, <1>5, <2>1
    <3>2. \A i \in DOMAIN fromBoard' :
              fromBoard'[i].done = done' => fromBoard'[i].kind # "basicInfo3"
      BY <1>4, <1>7, <1>8, <2>1, <3>1
    <3> QED
      BY <1>2, <3>1, <3>2 DEF PollsTrue
  <2>2. CASE c.kind # "control"
    <3>1. done' = done /\ fets' = fets
      BY <1>3, <2>2
    <3>2. \A i \in 1 .. n :
              fromBoard[i].kind = "basicInfo3" /\ fromBoard[i].done = done
              => fromBoard[i].status = fets
      BY <1>7 DEF TruthInv, PollsTrue
    <3>3. \A i \in DOMAIN fromBoard' :
              fromBoard'[i].kind = "basicInfo3" /\ fromBoard'[i].done = done'
              => fromBoard'[i].status = fets'
      BY <1>7, <3>1, <3>2
    <3> QED
      BY <1>2, <3>1, <3>3 DEF TruthInv, PollsTrue
  <2> QED
    BY <2>1, <2>2
<1> QED
  BY <1>2, <1>9, <1>10 DEF TruthInv, Unlinked, ReadTrue, ShownTrue

\* An answer is stored: it is true if it was made after the last control.
LEMMA ProcessTruth == TypeOK /\ TruthInv /\ ProcessPacket => TruthInv'
<1> SUFFICES ASSUME TypeOK, TruthInv, ProcessPacket PROVE TruthInv'
  OBVIOUS
<1> DEFINE answer == Head(fromBoard)
<1>1. /\ answer = fromBoard[1]
      /\ 1 \in DOMAIN fromBoard
      /\ \A i \in DOMAIN fromBoard' : i + 1 \in DOMAIN fromBoard
                                      /\ fromBoard'[i] = fromBoard[i + 1]
  BY HeadTail DEF ProcessPacket, TypeOK
<1>2. /\ answer.done <= done
      /\ answer.kind = "basicInfo3" /\ answer.done = done => answer.status = fets
  BY <1>1 DEF TruthInv, InOrder, PollsTrue
<1>3. newPacketReceived' = TRUE /\ phase = "linked"
  BY DEF ProcessPacket, Announced, TruthInv, Unlinked, TypeOK
<1>4. \/ MosfetStatus' = answer.status /\ heard' = answer.done
         /\ answer.kind = "basicInfo3"
      \/ UNCHANGED <<MosfetStatus, heard>>
  BY DEF ProcessPacket
<1>5. UNCHANGED <<phase, fets, toBoard, given, done>>
  BY DEF ProcessPacket
<1> HIDE DEF answer
<1>6. InOrder'
  BY <1>1, <1>2, <1>4, <1>5 DEF TruthInv, InOrder
<1>7. PollsTrue'
  BY <1>1, <1>2, <1>4, <1>5 DEF TruthInv, PollsTrue
<1> QED
  BY <1>3, <1>5, <1>6, <1>7 DEF TruthInv, Unlinked, ReadTrue, ShownTrue

\* An info command is no control.
LEMMA SendTruth == TypeOK /\ TruthInv /\ SendInfoCommand => TruthInv'
<1> SUFFICES ASSUME TypeOK, TruthInv, SendInfoCommand PROVE TruthInv'
  OBVIOUS
<1> DEFINE c == [kind |-> IF toggle THEN "basicInfo3" ELSE "cellInfo4",
                 off |-> {}, no |-> 0]
           n == Len(toBoard)
<1>1. c \in ToBoard /\ c.kind # "control"
  BY DEF ToBoard, Infos, Status
<1>2. toBoard' = Append(toBoard, c)
  BY DEF SendInfoCommand
<1>3. /\ DOMAIN toBoard' = 1 .. n + 1
      /\ \A i \in 1 .. n : toBoard'[i] = toBoard[i]
      /\ toBoard'[n + 1] = c
      /\ DOMAIN toBoard = 1 .. n
      /\ n \in Nat
  BY <1>1, <1>2, Appended DEF TypeOK
<1>4. /\ UNCHANGED <<phase, fets, fromBoard, MosfetStatus, newPacketReceived, shown,
                     given, done, heard, wanted, stale>>
      /\ loop.pc = "top" /\ loop'.pc = "sent" /\ phase = "linked"
  BY DEF SendInfoCommand, AtTop
<1> HIDE DEF c, n
<1>5. InOrder'
  BY <1>1, <1>3, <1>4 DEF TruthInv, InOrder
<1> QED
  BY <1>4, <1>5 DEF TruthInv, Unlinked, PollsTrue, ReadTrue, ShownTrue

\* Every step preserves TruthInv.
LEMMA NextTruth == TypeOK /\ TruthInv /\ [Next]_vars => TruthInv'
<1> SUFFICES ASSUME TypeOK, TruthInv, [Next]_vars PROVE TruthInv'
  OBVIOUS
<1>1. CASE EntryStep \/ Panic
  BY <1>1, EntryTruth
<1>2. ASSUME NEW x \in Switches, NEW m \in Messages, Command(x, m)
      PROVE  TruthInv'
  BY <1>2
  DEF Command, TruthInv, Unlinked, InOrder, PollsTrue, ReadTrue, ShownTrue
<1>3. CASE Answer
  BY <1>3, AnswerTruth
<1>4. CASE SendInfoCommand
  BY <1>4, SendTruth
<1>5. CASE ResetFlag \/ TakePacket \/ Publish
  <2>1. UNCHANGED <<phase, fets, toBoard, fromBoard, MosfetStatus, given, done,
                    heard, wanted>>
    BY <1>5 DEF ResetFlag, TakePacket, Publish
  <2>2. Unlinked' /\ InOrder' /\ PollsTrue'
    BY <2>1 DEF TruthInv, Unlinked, InOrder, PollsTrue
  <2>3. loop' = AtTop \/ loop' = [AtTop EXCEPT !.pc = "publish"]
    BY <1>5 DEF ResetFlag, TakePacket, Publish
  <2>4. loop'.pc # "command"
    <3>1. AtTop.pc = "top" /\ [AtTop EXCEPT !.pc = "publish"].pc = "publish"
      BY DEF AtTop
    <3> QED
      BY <2>3, <3>1
  <2>5. ASSUME ResetFlag PROVE ShownTrue'
    <3>1. loop.pc = "sent" /\ UNCHANGED shown
      BY <2>5 DEF ResetFlag
    <3>2. ~stale' => ~stale /\ ~newPacketReceived
      BY <2>5 DEF ResetFlag
    <3> QED
      BY <2>1, <3>1, <3>2 DEF TruthInv, ShownTrue
  <2>6. ASSUME TakePacket PROVE ShownTrue'
    <3>1. loop'.pc = "publish"
      BY <2>6 DEF TakePacket, AtTop
    <3> QED
      BY <3>1 DEF ShownTrue
  <2>7. ASSUME Publish PROVE ShownTrue'
    BY <2>7 DEF Publish, ShownTrue
  <2>8. ReadTrue'
    BY <2>4 DEF ReadTrue
  <2> QED
    BY <1>5, <2>2, <2>5, <2>6, <2>7, <2>8 DEF TruthInv
<1>6. CASE BoardActs
  BY <1>6, BoardTruth
<1>7. CASE ProcessPacket
  BY <1>7, ProcessTruth
<1>8. CASE UNCHANGED vars
  BY <1>8
  DEF vars, TruthInv, Unlinked, InOrder, PollsTrue, ReadTrue, ShownTrue
<1> QED
  BY <1>1, <1>2, <1>3, <1>4, <1>5, <1>6, <1>7, <1>8 DEF Next

\* Once the last command has shown in a poll, and no news was lost since loop()
\* last published, STATE is the truth about the board: for any number of
\* commands, given at any moment, with links and STATE messages lost and
\* entries rebuilt.
THEOREM ShownAlwaysTruth == Spec => []ShownIsTruth
<1>1. TypeOK /\ TruthInv => ShownIsTruth
  <2> SUFFICES ASSUME TypeOK, TruthInv, heard = given PROVE heard = done
    BY DEF TruthInv, PollsTrue, ShownTrue, ShownIsTruth
  <2> QED
    BY DEF TypeOK, TruthInv, InOrder
<1> QED
  BY <1>1, TypeCorrect, InitTruth, NextTruth, PTL DEF Spec

-----------------------------------------------------------------------------
(* Patient users get what they ask for *)

\* The last control, until it is executed, asks for what is wanted; once it
\* has been executed the board is as wanted; and a command that is being
\* worked on has read a status that is as wanted.
ObeyInv ==
    ~hasty /\ phase = "linked" =>
        /\ \A i \in DOMAIN toBoard :
               toBoard[i].kind = "control" /\ toBoard[i].no = given
               => toBoard[i].off = Param(wanted)
        /\ given = done => fets = wanted
        /\ loop.pc = "command" => loop.status = wanted

\* A command is based on a poll that came after everything before it.
LEMMA CommandObeyed ==
    ASSUME TypeOK, TruthInv, ObeyInv,
           NEW x \in Switches, NEW m \in Messages, Command(x, m)
    PROVE  ObeyInv'
<1> SUFFICES ASSUME ~hasty', phase = "linked" PROVE ObeyInv'
  BY DEF Command, ObeyInv
<1>1. ~hasty /\ heard = given
  BY DEF Command, TypeOK
<1>2. heard = done /\ given = done
  BY <1>1 DEF TypeOK, TruthInv, InOrder
<1>3. MosfetStatus = wanted
  BY <1>1, <1>2 DEF TruthInv, PollsTrue, ObeyInv
<1>4. loop'.status = MosfetStatus
  BY DEF Command
<1> QED
  BY <1>3, <1>4 DEF Command, ObeyInv

\* The new control asks for what is wanted from now on; no older one has its
\* number.
LEMMA AnswerObeyed == TypeOK /\ TruthInv /\ ObeyInv /\ Answer => ObeyInv'
<1>0. Answer => UNCHANGED <<phase, hasty>>
  BY DEF Answer
<1> SUFFICES ASSUME TypeOK, TruthInv, ObeyInv, Answer, ~hasty, phase = "linked"
             PROVE  ObeyInv'
  BY <1>0 DEF ObeyInv
<1>1. loop'.pc = "top" /\ UNCHANGED <<phase, fets, done>> /\ loop.status = wanted
  BY DEF Answer, AtTop, ObeyInv
<1>2. CASE Controls
  <2> DEFINE asked == Asked(loop.status, loop.switch, loop.msg)
             c == [kind |-> "control", off |-> Param(asked), no |-> given + 1]
             n == Len(toBoard)
  <2>1. toBoard' = Append(toBoard, c) /\ given' = given + 1 /\ wanted' = asked
    BY <1>1, <1>2 DEF Answer
  <2>2. c \in ToBoard
    BY AskedType, ParamTwice DEF TypeOK, Loop, ToBoard
  <2>3. /\ DOMAIN toBoard' = 1 .. n + 1
        /\ \A i \in 1 .. n : toBoard'[i] = toBoard[i] /\ toBoard[i] \in ToBoard
        /\ toBoard'[n + 1] = c
        /\ DOMAIN toBoard = 1 .. n
        /\ n \in Nat
    BY <2>1, <2>2, Appended DEF TypeOK
  <2>4. ASSUME NEW i \in 1 .. n, toBoard[i].kind = "control"
        PROVE  toBoard[i].no # given + 1
    <3>1. toBoard[i].no \in Nat /\ given \in Nat
      BY <2>3 DEF TypeOK, ToBoard
    <3>2. toBoard[i].no <= given
      BY <2>3, <2>4 DEF TruthInv, InOrder
    <3> QED
      BY <3>1, <3>2
  <2>5. given' # done
    BY <2>1 DEF TypeOK, TruthInv, InOrder
  <2>6. c.off = Param(wanted')
    BY <2>1
  <2> HIDE DEF c, n
  <2>7. \A i \in DOMAIN toBoard' :
            toBoard'[i].kind = "control" /\ toBoard'[i].no = given'
            => toBoard'[i].off = Param(wanted')
    BY <2>1, <2>3, <2>4, <2>6
  <2> QED
    BY <1>1, <2>5, <2>7 DEF ObeyInv
<1>3. CASE ~Controls
  <2>1. UNCHANGED <<toBoard, given, wanted>>
    BY <1>3 DEF Answer
  <2> QED
    BY <1>1, <2>1 DEF ObeyInv
<1> QED
  BY <1>2, <1>3

\* The board executes the controls, of which the last asks for what is wanted.
LEMMA BoardObeyed == TypeOK /\ TruthInv /\ ObeyInv /\ BoardActs => ObeyInv'
<1> SUFFICES ASSUME TypeOK, TruthInv, ObeyInv, BoardActs, ~hasty PROVE ObeyInv'
  BY DEF BoardActs, ObeyInv
<1> DEFINE c == Head(toBoard)
<1>1. /\ c = toBoard[1]
      /\ 1 \in DOMAIN toBoard
      /\ \A i \in DOMAIN toBoard' : i + 1 \in DOMAIN toBoard
                                    /\ toBoard'[i] = toBoard[i + 1]
  BY HeadTail DEF BoardActs, TypeOK
<1>2. phase = "linked" /\ UNCHANGED <<phase, given, wanted, loop>>
  BY DEF BoardActs, TruthInv, Unlinked
<1>3. /\ c.kind = "control" => done' = c.no /\ fets' = Switches \ c.off
      /\ c.kind # "control" => done' = done /\ fets' = fets
  BY DEF BoardActs
<1> HIDE DEF c
<1>4. \A i \in DOMAIN toBoard' :
          toBoard'[i].kind = "control" /\ toBoard'[i].no = given
          => toBoard'[i].off = Param(wanted)
  BY <1>1, <1>2 DEF ObeyInv
<1>5. given = done' => fets' = wanted
  <2>1. CASE c.kind = "control"
    <3>1. c.no = given => c.off = Param(wanted)
      BY <1>1, <1>2, <2>1 DEF ObeyInv
    <3>2. Switches \ Param(wanted) = wanted
      BY ParamTwice DEF TypeOK
    <3> QED
      BY <1>3, <2>1, <3>1, <3>2
  <2>2. CASE c.kind # "control"
    BY <1>2, <1>3, <2>2 DEF ObeyInv
  <2> QED
    BY <2>1, <2>2
<1> QED
  BY <1>2, <1>4, <1>5 DEF ObeyInv

\* Every step preserves ObeyInv.
LEMMA NextObeyed == TypeOK /\ TruthInv /\ ObeyInv /\ [Next]_vars => ObeyInv'
<1> SUFFICES ASSUME TypeOK, TruthInv, ObeyInv, [Next]_vars PROVE ObeyInv'
  OBVIOUS
<1>1. CASE \/ ScanEnd \/ BmsSetup \/ LinkLost \/ SessionCleared \/ SeenAgain
           \/ Panic
  <2>1. phase' # "linked"
    BY <1>1
    DEF ScanEnd, Panic, FreshEntry, BmsSetup, LinkLost, SessionCleared,
        SeenAgain, Becomes
  <2> QED
    BY <2>1 DEF ObeyInv
<1>2. CASE Connected
  <2>1. toBoard' = <<>> /\ fets' = wanted' /\ loop'.pc = "top"
    BY <1>2 DEF Connected, Becomes, TruthInv, Unlinked
  <2> QED
    BY <2>1 DEF ObeyInv
<1>3. ASSUME NEW x \in Switches, NEW m \in Messages, Command(x, m)
      PROVE  ObeyInv'
  BY <1>3, CommandObeyed
<1>4. CASE Answer
  BY <1>4, AnswerObeyed
<1>5. CASE SendInfoCommand
  <2> DEFINE c == [kind |-> IF toggle THEN "basicInfo3" ELSE "cellInfo4",
                   off |-> {}, no |-> 0]
             n == Len(toBoard)
  <2>1. c \in ToBoard /\ c.kind # "control"
    BY DEF ToBoard, Infos, Status
  <2>2. toBoard' = Append(toBoard, c)
    BY <1>5 DEF SendInfoCommand
  <2>3. /\ DOMAIN toBoard' = 1 .. n + 1
        /\ \A i \in 1 .. n : toBoard'[i] = toBoard[i]
        /\ toBoard'[n + 1] = c
        /\ DOMAIN toBoard = 1 .. n
        /\ n \in Nat
    BY <2>1, <2>2, Appended DEF TypeOK
  <2>4. UNCHANGED <<phase, fets, given, done, wanted, hasty>> /\ loop'.pc = "sent"
    BY <1>5 DEF SendInfoCommand, AtTop
  <2> HIDE DEF c, n
  <2>5. \A i \in DOMAIN toBoard' : toBoard'[i].kind = "control"
            => i \in DOMAIN toBoard /\ toBoard'[i] = toBoard[i]
    BY <2>1, <2>3
  <2> QED
    BY <2>4, <2>5 DEF ObeyInv
<1>6. CASE ResetFlag \/ TakePacket \/ Publish
  <2>1. UNCHANGED <<phase, fets, toBoard, given, done, wanted, hasty>>
    BY <1>6 DEF ResetFlag, TakePacket, Publish
  <2>2. loop' = AtTop \/ loop' = [AtTop EXCEPT !.pc = "publish"]
    BY <1>6 DEF ResetFlag, TakePacket, Publish
  <2>3. AtTop.pc = "top" /\ [AtTop EXCEPT !.pc = "publish"].pc = "publish"
    BY DEF AtTop
  <2> QED
    BY <2>1, <2>2, <2>3 DEF ObeyInv
<1>7. CASE BoardActs
  BY <1>7, BoardObeyed
<1>8. CASE ProcessPacket
  BY <1>8 DEF ProcessPacket, ObeyInv
<1>9. CASE UNCHANGED vars
  BY <1>9 DEF vars, ObeyInv
<1> QED
  BY <1>1, <1>2, <1>3, <1>4, <1>5, <1>6, <1>7, <1>8, <1>9 DEF Next, EntryStep

\* Users who wait for the next poll after a command get what they asked for:
\* a command for one switch never changes the other, for any number of
\* commands and lost links.
THEOREM SwitchesAlwaysObeyed == Spec => []SwitchesObeyed
<1>1. Init => ObeyInv
  BY DEF Init, ObeyInv
<1>2. TypeOK /\ TruthInv /\ ObeyInv /\ [Next]_vars => ObeyInv'
  BY NextObeyed
<1>3. ObeyInv => SwitchesObeyed
  BY DEF ObeyInv, SwitchesObeyed
<1> QED
  BY <1>1, <1>2, <1>3, TypeCorrect, InitTruth, NextTruth, PTL DEF Spec
=============================================================================
