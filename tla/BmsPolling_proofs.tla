--------------------------- MODULE BmsPolling_proofs ---------------------------
(***************************************************************************)
(* Theorems about BmsPolling, for every finite set of boards and any       *)
(* number of frames and restarts, whatever answers overlap and whatever    *)
(* the data hold.                                                          *)
(***************************************************************************)
EXTENDS BmsPolling, FiniteSetTheorems, TLAPS

-----------------------------------------------------------------------------
(* Type correctness *)

\* The notifications of a frame are fragments.
LEMMA NotificationsType ==
    ASSUME NEW f \in Frames, NEW frags \in Notifications(f)
    PROVE  frags \in Seq(Fragments)
<1>1. CASE frags = <<[frame |-> f, part |-> "whole", startsDD |-> TRUE,
                      ends77 |-> TRUE]>>
  BY <1>1 DEF Fragments
<1>2. ASSUME NEW x \in BOOLEAN, NEW y \in BOOLEAN,
             frags = <<[frame |-> f, part |-> "first", startsDD |-> TRUE,
                        ends77 |-> x],
                       [frame |-> f, part |-> "second", startsDD |-> y,
                        ends77 |-> TRUE]>>
      PROVE  frags \in Seq(Fragments)
  BY <1>2 DEF Fragments
<1> QED
  BY <1>1, <1>2 DEF Notifications

\* bmsProcessPacket preserves the types of what it writes.
LEMMA ProcessType ==
    ASSUME TypeOK, NEW b \in Boards, NEW packet \in Seq(Fragments),
           Process(b, packet)
    PROVE  /\ info' \in [Boards -> [Types -> Seq(Fragments)]]
           /\ newPacketReceived' \in [Boards -> BOOLEAN]
           /\ unpublished' \in SUBSET Boards
           /\ missed' \in SUBSET Boards
<1> PICK type \in HeaderTypes(packet) :
        /\ info' = IF type \in Types THEN [info EXCEPT ![b][type] = packet]
                                     ELSE info
        /\ newPacketReceived' = [newPacketReceived EXCEPT ![b] = @ \/ Reported(type)]
        /\ unpublished' = IF type \in Types THEN unpublished \cup {b} ELSE unpublished
        /\ missed' = IF packet[2].part = "first" THEN missed
                     ELSE IF type = "unsupported" \/ loop = [pc |-> "sent", board |-> b]
                     THEN missed \cup {b}
                     ELSE missed \ {b}
  BY DEF Process
<1>1. info' \in [Boards -> [Types -> Seq(Fragments)]]
  BY DEF TypeOK
<1>2. newPacketReceived' \in [Boards -> BOOLEAN]
  BY DEF TypeOK
<1>3. unpublished' \in SUBSET Boards /\ missed' \in SUBSET Boards
  BY DEF TypeOK
<1> QED
  BY <1>1, <1>2, <1>3

\* Head and Tail of a non-empty sequence.
LEMMA HeadTail ==
    ASSUME NEW S, NEW q \in Seq(S), q # <<>>
    PROVE  Head(q) \in S /\ Tail(q) \in Seq(S)
OBVIOUS

\* sendInfoCommand preserves the types.
LEMMA SendTypeOK ==
    ASSUME TypeOK, NEW b \in Boards, SendInfoCommand(b)
    PROVE  TypeOK'
<1> DEFINE f == [board |-> b, no |-> sent + 1,
                 type |-> IF toggle[b] THEN "basicInfo3" ELSE "cellInfo4"]
<1>1. sent' \in 0 .. MaxFrames /\ sent + 1 \in 1 .. MaxFrames
  BY PollingAssumption DEF TypeOK, SendInfoCommand
<1>2. f \in Frames
  BY <1>1 DEF Frames, Types
<1>3. PICK frags \in Notifications(f) : air' = [air EXCEPT ![b] = @ \o frags]
  BY DEF SendInfoCommand
<1>4. frags \in Seq(Fragments)
  BY <1>2, <1>3, NotificationsType
<1>5. air[b] \o frags \in Seq(Fragments)
  BY <1>4 DEF TypeOK
<1>6. air' \in [Boards -> Seq(Fragments)]
  BY <1>3, <1>5 DEF TypeOK
<1>7. /\ toggle' \in [Boards -> BOOLEAN]
      /\ loop' \in [pc : Locations, board : Boards]
      /\ missed' \in SUBSET Boards
  BY DEF SendInfoCommand, TypeOK, Locations
<1> QED
  BY <1>1, <1>6, <1>7 DEF SendInfoCommand, TypeOK

\* the fragment that is being collected, the buffer with it, and the packet it
\* makes when it is the last one
Incoming(b) == Head(air[b])
Buffered(frag) == IF StartsPacket(frag) THEN <<frag>> ELSE packetbuff
PacketWith(frag) == Append(Buffered(frag), frag)

Raised(n, cond) == IF cond THEN n + 1 ELSE n

\* What bleCollectPacket counts.
LEMMA CollectCounts ==
    ASSUME TypeOK, NEW b \in Boards, CollectPacket(b)
    PROVE  LET frag == Incoming(b)
               complete == CompletesPacket(frag)
           IN  /\ tally' \in Tallies
               /\ tally'.bad = Raised(tally.bad,
                                      complete /\ ~WellFormed(PacketWith(frag)))
               /\ tally'.swallowed = Raised(tally.swallowed,
                                            ~complete /\ frag.part # "first")
               /\ tally'.cuts = tally.cuts
               /\ tally'.overlaps = Raised(tally.overlaps,
                                           frag.part # "second" /\ Halves # {})
               /\ tally'.marks = Raised(tally.marks, Accidental(frag))
<1> DEFINE frag == Incoming(b)
           complete == CompletesPacket(frag)
           n1 == Raised(tally.bad, complete /\ ~WellFormed(PacketWith(frag)))
           n2 == Raised(tally.swallowed, ~complete /\ frag.part # "first")
           n3 == Raised(tally.overlaps, frag.part # "second" /\ Halves # {})
           n4 == Raised(tally.marks, Accidental(frag))
<1>1. tally' = [tally EXCEPT !.bad = n1, !.swallowed = n2, !.overlaps = n3,
                             !.marks = n4]
  BY DEF CollectPacket, Incoming, Buffered, PacketWith, Raised
<1>2. tally \in Tallies
  BY DEF TypeOK
<1>3. n1 \in Nat /\ n2 \in Nat /\ n3 \in Nat /\ n4 \in Nat
  BY <1>2 DEF Tallies, Raised
<1> HIDE DEF n1, n2, n3, n4
<1>4. /\ tally' \in Tallies
      /\ tally'.bad = n1 /\ tally'.swallowed = n2 /\ tally'.cuts = tally.cuts
      /\ tally'.overlaps = n3 /\ tally'.marks = n4
  BY <1>1, <1>2, <1>3 DEF Tallies
<1> QED
  BY <1>4 DEF n1, n2, n3, n4

\* bleCollectPacket preserves the types.
LEMMA CollectTypeOK ==
    ASSUME TypeOK, NEW b \in Boards, CollectPacket(b)
    PROVE  TypeOK'
<1> DEFINE frag == Head(air[b])
           buff == IF StartsPacket(frag) THEN <<frag>> ELSE packetbuff
           packet == Append(buff, frag)
<1>1. /\ air[b] # <<>>
      /\ air' = [air EXCEPT ![b] = Tail(air[b])]
      /\ UNCHANGED <<toggle, linked, loop, sent, restarts>>
  BY DEF CollectPacket, TypeOK
<1>2. frag \in Fragments /\ Tail(air[b]) \in Seq(Fragments)
  BY <1>1, HeadTail DEF TypeOK
<1>3. air' \in [Boards -> Seq(Fragments)]
  BY <1>1, <1>2 DEF TypeOK
<1>4. buff \in Seq(Fragments)
  BY <1>2 DEF TypeOK
<1>5. packet \in Seq(Fragments)
  BY <1>2, <1>4
<1>6. tally' \in Tallies
  BY CollectCounts
<1>7. disturbed' \in SUBSET Frames
  <2>1. \A c \in Halves : Head(air[c]) \in Fragments
    BY HeadTail DEF TypeOK, Halves, HalfDelivered
  <2> HIDE DEF frag
  <2>2. frag.frame \in Frames /\ \A c \in Halves : Head(air[c]).frame \in Frames
    BY <1>2, <2>1 DEF Fragments
  <2>3. FramesInProgress(Halves) \subseteq Frames
    BY <2>2 DEF FramesInProgress
  <2>4. \/ disturbed' = disturbed \cup {frag.frame} \cup FramesInProgress(Halves)
        \/ disturbed' = disturbed
    BY DEF CollectPacket, frag
  <2> QED
    BY <2>2, <2>3, <2>4 DEF TypeOK
<1>8. CASE CompletesPacket(frag)
  <2>1. Process(b, packet) /\ packetstate' = 0 /\ packetbuff' = <<>>
    BY <1>8 DEF CollectPacket, StateAfterPacket
  <2>2. packetbuff' \in Seq(Fragments) /\ packetstate' \in {0, 1}
    BY <2>1
  <2> QED
    BY <1>1, <1>3, <1>5, <1>6, <1>7, <2>1, <2>2, ProcessType DEF TypeOK
<1>9. CASE ~CompletesPacket(frag)
  <2>1. /\ packetstate' \in {0, 1}
        /\ packetbuff' = buff
        /\ missed' = missed \/ missed' = missed \cup {b}
        /\ UNCHANGED <<info, newPacketReceived, unpublished>>
    BY <1>9 DEF CollectPacket, TypeOK
  <2> QED
    BY <1>1, <1>3, <1>4, <1>6, <1>7, <2>1 DEF TypeOK
<1> QED
  BY <1>8, <1>9

\* The initial state has the types.
LEMMA InitTypeOK == Init => TypeOK
<1> SUFFICES ASSUME Init PROVE TypeOK
  OBVIOUS
<1>1. loop \in [pc : Locations, board : Boards]
  BY DEF Init, Locations
<1>2. info \in [Boards -> [Types -> Seq(Fragments)]]
  BY DEF Init, NoInfo
<1>3. tally \in Tallies
  BY DEF Init, Tallies
<1> QED
  BY <1>1, <1>2, <1>3, PollingAssumption DEF Init, TypeOK

\* Every step preserves the types.
LEMMA NextTypeOK == TypeOK /\ [Next]_vars => TypeOK'
<1> SUFFICES ASSUME TypeOK, [Next]_vars PROVE TypeOK'
  OBVIOUS
<1>1. ASSUME NEW b \in Boards, SendInfoCommand(b) PROVE TypeOK'
  BY <1>1, SendTypeOK
<1>2. ASSUME NEW b \in Boards, TakePacket(b) PROVE TypeOK'
  BY <1>2 DEF TakePacket, TypeOK, Locations
<1>3. ASSUME NEW b \in Boards, CollectPacket(b) PROVE TypeOK'
  BY <1>3, CollectTypeOK
<1>4. ASSUME NEW b \in Boards, LinkLost(b) PROVE TypeOK'
  <2>1. tally' \in Tallies
    <3>1. /\ tally \in Tallies
          /\ tally' = [tally EXCEPT !.cuts = @ + 1] \/ tally' = tally
      BY <1>4 DEF LinkLost, TypeOK
    <3> QED
      BY <3>1 DEF Tallies
  <2>2. disturbed' \in SUBSET Frames
    <3>1. CASE HalfDelivered(b)
      <4>1. Head(air[b]).frame \in Frames
        <5>1. Head(air[b]) \in Fragments
          BY <3>1, HeadTail DEF HalfDelivered, TypeOK
        <5> QED
          BY <5>1 DEF Fragments
      <4>2. disturbed' = disturbed \cup {Head(air[b]).frame}
        BY <1>4, <3>1 DEF LinkLost, FramesInProgress
      <4> QED
        BY <4>1, <4>2 DEF TypeOK
    <3>2. CASE ~HalfDelivered(b)
      BY <1>4, <3>2 DEF LinkLost, TypeOK
    <3> QED
      BY <3>1, <3>2
  <2> QED
    BY <1>4, <2>1, <2>2 DEF LinkLost, TypeOK
<1>5. CASE ResetFlag
  BY <1>5 DEF ResetFlag, TypeOK, Locations
<1>6. CASE Publish
  BY <1>6 DEF Publish, TypeOK, Locations
<1>7. CASE SessionRestart
  <2>1. info' \in [Boards -> [Types -> Seq(Fragments)]]
    BY <1>7 DEF SessionRestart, NoInfo
  <2>2. restarts' \in 0 .. MaxRestarts
    BY <1>7, PollingAssumption DEF SessionRestart, TypeOK
  <2> QED
    BY <1>7, <2>1, <2>2 DEF SessionRestart, TypeOK
<1>8. CASE UNCHANGED vars
  BY <1>8 DEF vars, TypeOK
<1> QED
  BY <1>1, <1>2, <1>3, <1>4, <1>5, <1>6, <1>7, <1>8 DEF Next

\* The variables keep their types: the state bleCollectPacket leaves is always 0 or 1.
THEOREM TypeCorrect == Spec => []TypeOK
  BY InitTypeOK, NextTypeOK, PTL DEF Spec

-----------------------------------------------------------------------------
(* What is on the way, and what the buffer holds *)

\* A fragment of board b: the bytes the protocol puts at the ends of a frame
\* are there, whatever the data at a cut look like.
Fits(frag, b) ==
    /\ frag.frame.board = b
    /\ frag.part # "second" => frag.startsDD
    /\ frag.part # "first" => frag.ends77

\* What is on its way from board b: whole answers, the first of them perhaps
\* without its first half.
Stream(q, b) ==
    \A i \in 1 .. Len(q) :
        /\ Fits(q[i], b)
        /\ IF q[i].part = "first"
           THEN /\ i < Len(q)
                /\ q[i + 1].part = "second"
                /\ q[i + 1].frame = q[i].frame
           ELSE i < Len(q) => q[i + 1].part # "second"

\* the buffer holds the first half of the one answer in progress
Sound == \E b \in Halves : /\ Halves = {b}
                           /\ packetbuff[1].frame = Head(air[b]).frame

\* the buffer holds a first half which the fragment to come may not belong to
Doomed == packetstate = 1 /\ ~Sound

(***************************************************************************)
(* The strengthening.  Every answer on its way is whole but perhaps the    *)
(* first; the buffer holds the unmarked first half of an answer, which is  *)
(* disturbed unless it is the one in progress; what a doomed buffer will   *)
(* spoil, and the answers in progress that will find no buffer, are paid   *)
(* for by a cut, an overlap or a mark counted before.                      *)
(***************************************************************************)
AirInv == \A b \in Boards : Stream(air[b], b)

BuffInv ==
    packetstate = 1 =>
        /\ Len(packetbuff) = 1
        /\ packetbuff[1].part = "first"
        /\ ~packetbuff[1].ends77
        /\ Doomed => packetbuff[1].frame \in disturbed

BadInv == tally.bad + (IF Doomed THEN 1 ELSE 0)
              <= tally.cuts + tally.overlaps + tally.marks

SwallowedInv == tally.swallowed + Cardinality(Halves)
                    <= tally.overlaps + tally.marks
                       + (IF packetstate = 1 /\ Halves # {} THEN 1 ELSE 0)

ContentInv == AirInv /\ BuffInv /\ BadInv /\ SwallowedInv

\* Head, Tail and the elements of a sequence.
LEMMA TailElements ==
    ASSUME NEW S, NEW q \in Seq(S), q # <<>>
    PROVE  /\ Len(q) \in Nat /\ Len(q) >= 1
           /\ Head(q) = q[1]
           /\ Len(Tail(q)) = Len(q) - 1
           /\ \A i \in 1 .. Len(Tail(q)) : Tail(q)[i] = q[i + 1]
           /\ Tail(q) = <<>> => Len(q) = 1
<1>1. Len(Tail(q)) = Len(q) - 1 /\ Len(q) \in Nat
  OBVIOUS
<1>2. Tail(q) = <<>> => Len(Tail(q)) = Len(<<>>)
  BY Zenon
<1>3. Len(<<>>) = 0
  OBVIOUS
<1>4. Tail(q) = <<>> => Len(q) = 1
  BY <1>1, <1>2, <1>3
<1> QED
  BY <1>4

\* What is left of a stream after its head is a stream, which begins with a
\* second half exactly when the head is a first half: of the same frame.
LEMMA StreamTail ==
    ASSUME NEW b \in Boards, NEW q \in Seq(Fragments), q # <<>>, Stream(q, b)
    PROVE  /\ Fits(Head(q), b)
           /\ Stream(Tail(q), b)
           /\ Head(q).part = "first" => /\ Tail(q) # <<>>
                                        /\ Head(Tail(q)).part = "second"
                                        /\ Head(Tail(q)).frame = Head(q).frame
           /\ Head(q).part # "first" =>
                  Tail(q) = <<>> \/ Head(Tail(q)).part # "second"
<1>1. /\ Len(q) \in Nat /\ Len(q) >= 1
      /\ Head(q) = q[1]
      /\ Len(Tail(q)) = Len(q) - 1
      /\ \A i \in 1 .. Len(Tail(q)) : Tail(q)[i] = q[i + 1]
  BY TailElements
<1>2. Fits(Head(q), b)
  BY <1>1 DEF Stream
<1>3. Stream(Tail(q), b)
  <2> SUFFICES ASSUME NEW i \in 1 .. Len(Tail(q))
               PROVE  /\ Fits(Tail(q)[i], b)
                      /\ IF Tail(q)[i].part = "first"
                         THEN /\ i < Len(Tail(q))
                              /\ Tail(q)[i + 1].part = "second"
                              /\ Tail(q)[i + 1].frame = Tail(q)[i].frame
                         ELSE i < Len(Tail(q)) => Tail(q)[i + 1].part # "second"
    BY DEF Stream
  <2>1. i + 1 \in 1 .. Len(q) /\ Tail(q)[i] = q[i + 1]
    BY <1>1
  <2>2. i < Len(Tail(q)) <=> i + 1 < Len(q)
    BY <1>1
  <2>3. i < Len(Tail(q)) => Tail(q)[i + 1] = q[(i + 1) + 1]
    BY <1>1
  <2>4. /\ Fits(q[i + 1], b)
        /\ IF q[i + 1].part = "first"
           THEN /\ i + 1 < Len(q)
                /\ q[(i + 1) + 1].part = "second"
                /\ q[(i + 1) + 1].frame = q[i + 1].frame
           ELSE i + 1 < Len(q) => q[(i + 1) + 1].part # "second"
    BY <2>1 DEF Stream
  <2> QED
    BY <2>1, <2>2, <2>3, <2>4
<1>4. Tail(q) \in Seq(Fragments)
  BY HeadTail
<1>5. Tail(q) # <<>> => Len(q) > 1 /\ Head(Tail(q)) = q[2]
  <2>1. ASSUME Tail(q) # <<>> PROVE Len(Tail(q)) >= 1 /\ Head(Tail(q)) = Tail(q)[1]
    BY <1>4, <2>1, TailElements
  <2> QED
    BY <1>1, <2>1
<1>6. Len(q) > 1 => Tail(q) # <<>>
  <2>1. Tail(q) = <<>> => Len(q) = 1
    BY TailElements
  <2> QED
    BY <1>1, <2>1
<1>7. /\ IF q[1].part = "first"
         THEN /\ 1 < Len(q)
              /\ q[2].part = "second"
              /\ q[2].frame = q[1].frame
         ELSE 1 < Len(q) => q[2].part # "second"
  <2>1. 1 \in 1 .. Len(q) /\ 1 + 1 = 2
    BY <1>1
  <2> QED
    BY <2>1 DEF Stream
<1> QED
  BY <1>1, <1>2, <1>3, <1>5, <1>6, <1>7

\* The elements of a concatenation.
LEMMA JoinedElements ==
    ASSUME NEW S, NEW q \in Seq(S), NEW r \in Seq(S)
    PROVE  /\ q \o r \in Seq(S)
           /\ Len(q) \in Nat /\ Len(r) \in Nat
           /\ Len(q \o r) = Len(q) + Len(r)
           /\ \A i \in 1 .. Len(q) : (q \o r)[i] = q[i]
           /\ \A i \in 1 .. Len(r) : (q \o r)[Len(q) + i] = r[i]
  OBVIOUS

\* A stream that begins with a whole answer may follow another stream.
LEMMA StreamJoin ==
    ASSUME NEW b \in Boards, NEW q \in Seq(Fragments), NEW r \in Seq(Fragments),
           Stream(q, b), Stream(r, b), r # <<>>, Head(r).part # "second"
    PROVE  Stream(q \o r, b)
<1> DEFINE j == q \o r
<1>1. /\ Len(q) \in Nat /\ Len(r) \in Nat
      /\ Len(j) = Len(q) + Len(r)
      /\ \A i \in 1 .. Len(q) : j[i] = q[i]
      /\ \A i \in 1 .. Len(r) : j[Len(q) + i] = r[i]
  BY JoinedElements
<1>2. Len(r) >= 1 /\ r[1].part # "second"
  BY TailElements
<1> HIDE DEF j
<1> SUFFICES ASSUME NEW i \in 1 .. Len(j)
             PROVE  /\ Fits(j[i], b)
                    /\ IF j[i].part = "first"
                       THEN /\ i < Len(j)
                            /\ j[i + 1].part = "second"
                            /\ j[i + 1].frame = j[i].frame
                       ELSE i < Len(j) => j[i + 1].part # "second"
  BY DEF Stream, j
<1>3. CASE i < Len(q)
  <2>1. j[i] = q[i] /\ j[i + 1] = q[i + 1] /\ i < Len(j) /\ i \in 1 .. Len(q)
    BY <1>1, <1>3
  <2> QED
    BY <1>3, <2>1 DEF Stream
<1>4. CASE i = Len(q)
  <2>1. j[i] = q[i] /\ i \in 1 .. Len(q) /\ ~(i < Len(q))
    BY <1>1, <1>4
  <2>2. j[i + 1] = r[1]
    BY <1>1, <1>2, <1>4
  <2>3. Fits(q[i], b) /\ q[i].part # "first"
    BY <2>1 DEF Stream
  <2> QED
    BY <1>2, <2>1, <2>2, <2>3
<1>5. CASE i > Len(q)
  <2>1. PICK k \in 1 .. Len(r) : i = Len(q) + k
    <3>1. i - Len(q) \in 1 .. Len(r) /\ i = Len(q) + (i - Len(q))
      BY <1>1, <1>5
    <3> QED
      BY <3>1
  <2>2. j[i] = r[k] /\ (i < Len(j) <=> k < Len(r))
    BY <1>1, <2>1
  <2>3. k < Len(r) => j[i + 1] = r[k + 1]
    <3>1. ASSUME k < Len(r) PROVE j[Len(q) + (k + 1)] = r[k + 1]
      BY <1>1, <3>1
    <3>2. i + 1 = Len(q) + (k + 1)
      BY <1>1, <2>1
    <3> QED
      BY <3>1, <3>2
  <2> QED
    BY <2>2, <2>3 DEF Stream
<1> QED
  BY <1>1, <1>3, <1>4, <1>5

\* What a board sends for a command is a stream that begins with the
\* beginning of the answer.
LEMMA NotificationsStream ==
    ASSUME NEW b \in Boards, NEW f \in Frames, f.board = b,
           NEW frags \in Notifications(f)
    PROVE  Stream(frags, b) /\ frags # <<>> /\ Head(frags).part # "second"
<1>1. CASE frags = <<[frame |-> f, part |-> "whole", startsDD |-> TRUE,
                      ends77 |-> TRUE]>>
  BY <1>1 DEF Stream, Fits
<1>2. ASSUME NEW x \in BOOLEAN, NEW y \in BOOLEAN,
             frags = <<[frame |-> f, part |-> "first", startsDD |-> TRUE,
                        ends77 |-> x],
                       [frame |-> f, part |-> "second", startsDD |-> y,
                        ends77 |-> TRUE]>>
      PROVE  Stream(frags, b) /\ frags # <<>> /\ Head(frags).part # "second"
  <2>1. /\ Len(frags) = 2
        /\ frags[1] = [frame |-> f, part |-> "first", startsDD |-> TRUE,
                       ends77 |-> x]
        /\ frags[2] = [frame |-> f, part |-> "second", startsDD |-> y,
                       ends77 |-> TRUE]
        /\ frags # <<>> /\ Head(frags) = frags[1]
    BY <1>2
  <2>2. /\ Fits(frags[1], b) /\ frags[1].part = "first" /\ frags[1].frame = f
        /\ Fits(frags[2], b) /\ frags[2].part = "second" /\ frags[2].frame = f
    BY <2>1 DEF Fits
  <2>3. Stream(frags, b)
    <3> SUFFICES ASSUME NEW i \in 1 .. 2
                 PROVE  /\ Fits(frags[i], b)
                        /\ IF frags[i].part = "first"
                           THEN /\ i < 2
                                /\ frags[i + 1].part = "second"
                                /\ frags[i + 1].frame = frags[i].frame
                           ELSE i < 2 => frags[i + 1].part # "second"
      BY <2>1 DEF Stream
    <3>1. CASE i = 1
      BY <2>2, <3>1
    <3>2. CASE i = 2
      BY <2>2, <3>2
    <3> QED
      BY <3>1, <3>2
  <2> QED
    BY <2>1, <2>2, <2>3
<1> QED
  BY <1>1, <1>2 DEF Notifications

\* Halves has as many elements as boards have an answer in progress.
LEMMA HalvesFinite ==
    TypeOK => /\ Halves \subseteq Boards /\ IsFiniteSet(Halves)
              /\ Cardinality(Halves) \in Nat
              /\ Cardinality(Halves) = 0 <=> Halves = {}
<1>1. Halves \subseteq Boards
  BY DEF Halves
<1>2. IsFiniteSet(Halves)
  BY <1>1, PollingAssumption, FS_Subset
<1> QED
  BY <1>1, <1>2, FS_EmptySet, FS_CardinalityType

\* ContentInv holds initially.
LEMMA InitContent == Init => ContentInv
<1> SUFFICES ASSUME Init PROVE ContentInv
  OBVIOUS
<1>1. \A b \in Boards : air[b] = <<>>
  BY DEF Init
<1>2. Halves = {}
  BY <1>1 DEF Halves, HalfDelivered
<1>3. AirInv
  BY <1>1 DEF AirInv, Stream
<1>4. /\ packetstate = 0
      /\ tally = [bad |-> 0, swallowed |-> 0, cuts |-> 0, overlaps |-> 0,
                  marks |-> 0]
  BY DEF Init
<1> QED
  BY <1>2, <1>3, <1>4, FS_EmptySet
  DEF ContentInv, BuffInv, BadInv, SwallowedInv, Doomed

\* A step that changes neither the answers in progress nor the buffer nor what
\* is counted preserves all of ContentInv but AirInv.
LEMMA SameHalves ==
    ASSUME TypeOK, ContentInv,
           UNCHANGED <<packetstate, packetbuff, tally, disturbed>>,
           Halves' = Halves,
           \A b \in Halves : Head(air'[b]) = Head(air[b])
    PROVE  BuffInv' /\ BadInv' /\ SwallowedInv'
<1>1. Sound' = Sound
  BY DEF Sound
<1>2. Doomed' = Doomed
  BY <1>1 DEF Doomed
<1> QED
  BY <1>2 DEF ContentInv, BuffInv, BadInv, SwallowedInv

\* The head of a sequence stays when something is appended.
LEMMA JoinedHead ==
    ASSUME NEW S, NEW q \in Seq(S), NEW r \in Seq(S)
    PROVE  /\ q # <<>> => q \o r # <<>> /\ Head(q \o r) = Head(q)
           /\ q = <<>> => q \o r = r
  OBVIOUS

\* sendInfoCommand preserves ContentInv, and an answer is on its way.
LEMMA SendContent ==
    ASSUME TypeOK, ContentInv, NEW b \in Boards, SendInfoCommand(b)
    PROVE  ContentInv' /\ air'[b] # <<>>
<1> DEFINE f == [board |-> b, no |-> sent + 1,
                 type |-> IF toggle[b] THEN "basicInfo3" ELSE "cellInfo4"]
<1>1. PICK frags \in Notifications(f) : air' = [air EXCEPT ![b] = @ \o frags]
  BY DEF SendInfoCommand
<1>2. f \in Frames /\ f.board = b
  BY PollingAssumption DEF SendInfoCommand, TypeOK, Frames, Types
<1> HIDE DEF f
<1>3. /\ Stream(frags, b) /\ frags # <<>> /\ Head(frags).part # "second"
      /\ frags \in Seq(Fragments)
  BY <1>1, <1>2, NotificationsStream, NotificationsType
<1>4. /\ air[b] \in Seq(Fragments)
      /\ air'[b] = air[b] \o frags
      /\ \A c \in Boards : c # b => air'[c] = air[c]
  BY <1>1 DEF TypeOK
<1>5. Stream(air'[b], b)
  BY <1>3, <1>4, StreamJoin DEF ContentInv, AirInv
<1>6. AirInv'
  BY <1>4, <1>5 DEF ContentInv, AirInv
<1>7. /\ air[b] # <<>> => air'[b] # <<>> /\ Head(air'[b]) = Head(air[b])
      /\ air[b] = <<>> => air'[b] = frags
  BY <1>3, <1>4, JoinedHead
<1>8. \A c \in Boards : /\ HalfDelivered(c)' <=> HalfDelivered(c)
                        /\ HalfDelivered(c) => Head(air'[c]) = Head(air[c])
  BY <1>3, <1>4, <1>7 DEF HalfDelivered
<1>9. Halves' = Halves /\ \A c \in Halves : Head(air'[c]) = Head(air[c])
  BY <1>8 DEF Halves
<1>10. UNCHANGED <<packetstate, packetbuff, tally, disturbed>>
  BY DEF SendInfoCommand
<1>11. BuffInv' /\ BadInv' /\ SwallowedInv'
  BY <1>9, <1>10, SameHalves
<1>12. air'[b] # <<>>
  BY <1>3, <1>7
<1> QED
  BY <1>6, <1>11, <1>12 DEF ContentInv

\* A lost link preserves ContentInv: the half it leaves in the buffer is
\* doomed and paid for by the cut.
LEMMA LinkLostContent ==
    ASSUME TypeOK, ContentInv, NEW b \in Boards, LinkLost(b)
    PROVE  ContentInv'
<1>1. /\ air'[b] = <<>>
      /\ \A c \in Boards : c # b => air'[c] = air[c]
      /\ UNCHANGED <<packetstate, packetbuff>>
  BY DEF LinkLost, TypeOK
<1>2. AirInv'
  BY <1>1 DEF ContentInv, AirInv, Stream
<1>3. /\ Halves' = Halves \ {b}
      /\ \A c \in Halves' : Head(air'[c]) = Head(air[c])
  BY <1>1 DEF Halves, HalfDelivered
<1>4. CASE ~HalfDelivered(b)
  <2>1. Halves' = Halves /\ UNCHANGED <<tally, disturbed>>
    BY <1>3, <1>4 DEF Halves, LinkLost
  <2>2. BuffInv' /\ BadInv' /\ SwallowedInv'
    BY <1>1, <1>3, <2>1, SameHalves
  <2> QED
    BY <1>2, <2>2 DEF ContentInv
<1>5. CASE HalfDelivered(b)
  <2>1. /\ b \in Halves
        /\ tally' = [tally EXCEPT !.cuts = @ + 1]
        /\ disturbed' = disturbed \cup {Head(air[b]).frame}
    BY <1>5 DEF Halves, LinkLost, FramesInProgress
  <2>2. /\ tally'.bad = tally.bad /\ tally'.swallowed = tally.swallowed
        /\ tally'.cuts = tally.cuts + 1
        /\ tally'.overlaps = tally.overlaps /\ tally'.marks = tally.marks
        /\ tally.bad \in Nat /\ tally.swallowed \in Nat /\ tally.cuts \in Nat
        /\ tally.overlaps \in Nat /\ tally.marks \in Nat
    BY <2>1 DEF TypeOK, Tallies
  <2>3. Cardinality(Halves') = Cardinality(Halves) - 1
    BY <1>3, <2>1, HalvesFinite, FS_RemoveElement
  <2>4. BuffInv'
    <3> SUFFICES ASSUME packetstate = 1
                 PROVE  /\ Len(packetbuff) = 1
                        /\ packetbuff[1].part = "first"
                        /\ ~packetbuff[1].ends77
                        /\ Doomed' => packetbuff[1].frame \in disturbed'
      BY <1>1 DEF BuffInv
    <3>1. Sound => packetbuff[1].frame = Head(air[b]).frame
      BY <2>1 DEF Sound
    <3>2. ~Sound => packetbuff[1].frame \in disturbed
      BY DEF Doomed, BuffInv, ContentInv
    <3>3. packetbuff[1].frame \in disturbed'
      BY <2>1, <3>1, <3>2
    <3> QED
      BY <3>3 DEF BuffInv, ContentInv
  <2>5. BadInv'
    BY <2>2 DEF BadInv, ContentInv
  <2>6. SwallowedInv'
    <3>1. Cardinality(Halves) \in Nat /\ (Cardinality(Halves) = 0 <=> Halves = {})
      BY HalvesFinite
    <3>2. packetstate' = packetstate
      BY <1>1
    <3> QED
      BY <2>1, <2>2, <2>3, <3>1, <3>2 DEF SwallowedInv, ContentInv
  <2> QED
    BY <1>2, <2>4, <2>5, <2>6 DEF ContentInv
<1> QED
  BY <1>4, <1>5

\* What collecting a fragment does to the answers on their way.
LEMMA CollectHalves ==
    ASSUME TypeOK, ContentInv, NEW b \in Boards, CollectPacket(b)
    PROVE  /\ Incoming(b) \in Fragments /\ Fits(Incoming(b), b)
           /\ AirInv'
           /\ \A c \in Boards : c # b => air'[c] = air[c]
           /\ CASE Incoming(b).part = "first" ->
                     /\ b \notin Halves /\ Halves' = Halves \cup {b}
                     /\ air'[b] # <<>>
                     /\ Head(air'[b]).frame = Incoming(b).frame
                [] Incoming(b).part = "second" ->
                     b \in Halves /\ Halves' = Halves \ {b}
                [] Incoming(b).part = "whole" ->
                     b \notin Halves /\ Halves' = Halves
<1> DEFINE frag == Incoming(b)
<1>1. /\ air[b] # <<>> /\ air[b] \in Seq(Fragments)
      /\ air'[b] = Tail(air[b])
      /\ \A c \in Boards : c # b => air'[c] = air[c]
      /\ Stream(air[b], b)
  BY DEF CollectPacket, TypeOK, ContentInv, AirInv
<1>2. /\ frag \in Fragments /\ Fits(frag, b)
      /\ Stream(air'[b], b)
      /\ frag.part = "first" => /\ air'[b] # <<>>
                                /\ Head(air'[b]).part = "second"
                                /\ Head(air'[b]).frame = frag.frame
      /\ frag.part # "first" => air'[b] = <<>> \/ Head(air'[b]).part # "second"
  BY <1>1, StreamTail, HeadTail DEF Incoming
<1>3. AirInv'
  BY <1>1, <1>2 DEF ContentInv, AirInv
<1>4. /\ b \in Halves <=> frag.part = "second"
      /\ b \in Halves' <=> frag.part = "first"
      /\ \A c \in Boards : c # b => (c \in Halves' <=> c \in Halves)
  BY <1>1, <1>2 DEF Halves, HalfDelivered, Incoming
<1>5. Halves \subseteq Boards /\ Halves' \subseteq Boards
  BY DEF Halves
<1>6. frag.part \in {"first", "second", "whole"}
  BY <1>2 DEF Fragments
<1> HIDE DEF frag
<1>7. CASE frag.part = "first"
  <2>1. b \notin Halves /\ Halves' = Halves \cup {b}
    BY <1>4, <1>5, <1>7
  <2> QED
    BY <1>1, <1>2, <1>3, <1>7, <2>1 DEF frag
<1>8. CASE frag.part = "second"
  <2>1. b \in Halves /\ Halves' = Halves \ {b}
    BY <1>4, <1>5, <1>8
  <2> QED
    BY <1>1, <1>2, <1>3, <1>8, <2>1 DEF frag
<1>9. CASE frag.part = "whole"
  <2>1. b \notin Halves /\ Halves' = Halves
    BY <1>4, <1>5, <1>9
  <2> QED
    BY <1>1, <1>2, <1>3, <1>9, <2>1 DEF frag
<1> QED
  BY <1>6, <1>7, <1>8, <1>9

\* The elements of a sequence after Append.
LEMMA AppendedLast ==
    ASSUME NEW S, NEW s \in Seq(S), NEW x \in S
    PROVE  /\ Append(s, x) \in Seq(S)
           /\ Len(Append(s, x)) = Len(s) + 1
           /\ Append(s, x)[Len(s) + 1] = x
           /\ \A i \in 1 .. Len(s) : Append(s, x)[i] = s[i]
<1>1. Append(s, x) \in Seq(S)
  OBVIOUS
<1>2. Len(Append(s, x)) = Len(s) + 1
  OBVIOUS
<1>3. Append(s, x)[Len(s) + 1] = x
  OBVIOUS
<1>4. \A i \in 1 .. Len(s) : Append(s, x)[i] = s[i]
  OBVIOUS
<1> QED
  BY <1>1, <1>2, <1>3, <1>4, Zenon

\* The two fragments of a packet.
LEMMA PairOfFragments ==
    ASSUME NEW s \in Seq(Fragments), Len(s) = 1, NEW x \in Fragments
    PROVE  /\ Len(Append(s, x)) = 2
           /\ Append(s, x)[1] = s[1]
           /\ Append(s, x)[2] = x
<1>1. /\ Append(s, x) \in Seq(Fragments)
      /\ Len(Append(s, x)) = Len(s) + 1
      /\ Append(s, x)[Len(s) + 1] = x
      /\ \A i \in 1 .. Len(s) : Append(s, x)[i] = s[i]
  BY AppendedLast, Zenon
<1>2. \A n : n = 1 => n + 1 = 2 /\ 1 \in 1 .. n
  OBVIOUS
<1>3. Len(Append(s, x)) = 2
  BY <1>1, <1>2, Zenon
<1>4. Append(s, x)[1] = s[1]
  BY <1>1, <1>2, Zenon
<1>5. Append(s, x)[2] = x
  BY <1>1, <1>2, Zenon
<1> QED
  BY <1>3, <1>4, <1>5, Zenon

\* The elements of a sequence.
LEMMA ElementOfSeq ==
    ASSUME NEW S, NEW s \in Seq(S), NEW i \in 1 .. Len(s)
    PROVE  s[i] \in S
  OBVIOUS

\* What a completed packet is made of: the fragment twice, or the one in the
\* buffer and the fragment.
LEMMA CompletedPacket ==
    ASSUME TypeOK, BuffInv, NEW frag \in Fragments, CompletesPacket(frag)
    PROVE  /\ PacketWith(frag) \in Seq(Fragments)
           /\ Len(PacketWith(frag)) = 2
           /\ PacketWith(frag)[1] = IF packetstate = 0 THEN frag ELSE packetbuff[1]
           /\ PacketWith(frag)[2] = frag
           /\ packetstate = 1 => packetbuff[1] \in Fragments
<1>1. CASE packetstate = 0
  <2>1. StartsPacket(frag)
    BY <1>1 DEF CompletesPacket
  <2>2. <<frag>> \in Seq(Fragments) /\ Len(<<frag>>) = 1 /\ <<frag>>[1] = frag
    OBVIOUS
  <2>3. PacketWith(frag) = Append(<<frag>>, frag)
    BY <2>1 DEF PacketWith, Buffered
  <2>4. /\ Append(<<frag>>, frag) \in Seq(Fragments)
        /\ Len(Append(<<frag>>, frag)) = 2
        /\ Append(<<frag>>, frag)[1] = frag
        /\ Append(<<frag>>, frag)[2] = frag
    BY <2>2, AppendedLast, PairOfFragments, Zenon
  <2> QED
    BY <1>1, <2>3, <2>4
<1>2. CASE packetstate = 1
  <2>1. PacketWith(frag) = Append(packetbuff, frag)
    BY <1>2 DEF PacketWith, Buffered, StartsPacket
  <2>2. packetbuff \in Seq(Fragments) /\ Len(packetbuff) = 1
    BY <1>2 DEF TypeOK, BuffInv
  <2>3. packetbuff[1] \in Fragments
    <3>1. 1 \in 1 .. Len(packetbuff)
      BY <2>2
    <3> QED
      BY <2>2, <3>1, ElementOfSeq, Zenon
  <2>4. /\ Append(packetbuff, frag) \in Seq(Fragments)
        /\ Len(Append(packetbuff, frag)) = 2
        /\ Append(packetbuff, frag)[1] = packetbuff[1]
        /\ Append(packetbuff, frag)[2] = frag
    BY <2>2, AppendedLast, PairOfFragments, Zenon
  <2> QED
    BY <1>2, <2>1, <2>3, <2>4
<1> QED
  BY <1>1, <1>2 DEF TypeOK

\* What collecting a fragment does to the state and the buffer.
LEMMA CollectBuffer ==
    ASSUME TypeOK, NEW b \in Boards, CollectPacket(b)
    PROVE  LET frag == Incoming(b)
           IN  /\ CompletesPacket(frag) =>
                      /\ Process(b, PacketWith(frag))
                      /\ packetstate' = 0
               /\ ~CompletesPacket(frag) =>
                      /\ packetstate' = IF StartsPacket(frag) THEN 1 ELSE packetstate
                      /\ packetbuff' = Buffered(frag)
                      /\ missed' = IF frag.part = "first" THEN missed
                                                          ELSE missed \cup {b}
                      /\ UNCHANGED <<info, newPacketReceived, unpublished>>
               /\ disturbed' = IF frag.part # "second" /\ Halves # {}
                               THEN disturbed \cup {frag.frame}
                                              \cup FramesInProgress(Halves)
                               ELSE disturbed
               /\ UNCHANGED <<linked, loop>>
<1>1. CASE CompletesPacket(Incoming(b))
  BY <1>1 DEF CollectPacket, Incoming, PacketWith, Buffered, StateAfterPacket
<1>2. CASE ~CompletesPacket(Incoming(b))
  BY <1>2 DEF CollectPacket, Incoming, PacketWith, Buffered
<1> QED
  BY <1>1, <1>2

\* A packet is one answer as it was sent when a short answer finds no buffer,
\* or the second half of the one answer in progress its first half.
LEMMA GoodPacket ==
    ASSUME TypeOK, ContentInv, NEW b \in Boards, CollectPacket(b), ~Doomed,
           \/ Incoming(b).part = "whole" /\ packetstate = 0
           \/ Incoming(b).part = "second" /\ packetstate = 1
    PROVE  /\ CompletesPacket(Incoming(b))
           /\ WellFormed(PacketWith(Incoming(b)))
           /\ PacketWith(Incoming(b))[1].frame = Incoming(b).frame
<1> DEFINE frag == Incoming(b)
<1>1. frag \in Fragments /\ Fits(frag, b)
  BY CollectHalves
<1> HIDE DEF frag
<1>2. CASE frag.part = "whole" /\ packetstate = 0
  <2>1. CompletesPacket(frag)
    BY <1>1, <1>2 DEF CompletesPacket, StartsPacket, Fits
  <2>2. /\ Len(PacketWith(frag)) = 2
        /\ PacketWith(frag)[1] = frag /\ PacketWith(frag)[2] = frag
    BY <1>1, <1>2, <2>1, CompletedPacket DEF ContentInv
  <2> QED
    BY <1>2, <2>1, <2>2 DEF WellFormed, frag
<1>3. CASE frag.part = "second" /\ packetstate = 1
  <2>1. CompletesPacket(frag)
    BY <1>1, <1>3 DEF CompletesPacket, Fits
  <2>2. /\ Len(PacketWith(frag)) = 2
        /\ PacketWith(frag)[1] = packetbuff[1] /\ PacketWith(frag)[2] = frag
    BY <1>1, <1>3, <2>1, CompletedPacket DEF ContentInv
  <2>3. b \in Halves
    BY <1>3, CollectHalves DEF frag
  <2>4. packetbuff[1].frame = frag.frame
    BY <1>3, <2>3 DEF Doomed, Sound, frag, Incoming
  <2>5. packetbuff[1].part = "first"
    BY <1>3 DEF ContentInv, BuffInv
  <2> QED
    BY <1>3, <2>1, <2>2, <2>4, <2>5 DEF WellFormed, frag
<1> QED
  BY <1>2, <1>3 DEF frag

\* bleCollectPacket preserves ContentInv.
LEMMA CollectContent ==
    ASSUME TypeOK, ContentInv, NEW b \in Boards, CollectPacket(b)
    PROVE  ContentInv'
<1> DEFINE frag == Incoming(b)
           complete == CompletesPacket(frag)
           h == Cardinality(Halves)
           h1 == Cardinality(Halves')
<1>1. /\ frag \in Fragments /\ Fits(frag, b)
      /\ AirInv'
      /\ \A c \in Boards : c # b => air'[c] = air[c]
  BY CollectHalves
<1>2. /\ tally'.bad = Raised(tally.bad, complete /\ ~WellFormed(PacketWith(frag)))
      /\ tally'.swallowed = Raised(tally.swallowed,
                                  ~complete /\ frag.part # "first")
      /\ tally'.cuts = tally.cuts
      /\ tally'.overlaps = Raised(tally.overlaps,
                                 frag.part # "second" /\ Halves # {})
      /\ tally'.marks = Raised(tally.marks, Accidental(frag))
  BY CollectCounts
<1>3. /\ complete => packetstate' = 0
      /\ ~complete => /\ packetstate' = IF StartsPacket(frag) THEN 1 ELSE packetstate
                      /\ packetbuff' = Buffered(frag)
      /\ disturbed' = IF frag.part # "second" /\ Halves # {}
                      THEN disturbed \cup {frag.frame} \cup FramesInProgress(Halves)
                      ELSE disturbed
  BY CollectBuffer
<1>4. /\ tally.bad \in Nat /\ tally.swallowed \in Nat /\ tally.cuts \in Nat
      /\ tally.overlaps \in Nat /\ tally.marks \in Nat
  BY DEF TypeOK, Tallies
<1>5. h \in Nat /\ (h = 0 <=> Halves = {}) /\ IsFiniteSet(Halves)
  BY HalvesFinite
<1>6. packetstate \in {0, 1}
  BY DEF TypeOK
<1>7. ~Doomed /\ packetstate = 1 => Halves # {}
  BY DEF Doomed, Sound
<1>8. /\ tally.bad + (IF Doomed THEN 1 ELSE 0)
             <= tally.cuts + tally.overlaps + tally.marks
      /\ tally.swallowed + h
             <= tally.overlaps + tally.marks
                + (IF packetstate = 1 /\ Halves # {} THEN 1 ELSE 0)
  BY DEF ContentInv, BadInv, SwallowedInv
<1>9. packetstate' = 0 => ~Doomed' /\ BuffInv'
  BY DEF Doomed, BuffInv
<1>10. /\ BadInv' <=> tally'.bad + (IF Doomed' THEN 1 ELSE 0)
                          <= tally'.cuts + tally'.overlaps + tally'.marks
       /\ SwallowedInv' <=>
             tally'.swallowed + h1 <= tally'.overlaps + tally'.marks
                 + (IF packetstate' = 1 /\ Halves' # {} THEN 1 ELSE 0)
  BY DEF BadInv, SwallowedInv
<1>11. Doomed => packetstate = 1
  BY DEF Doomed
<1> HIDE DEF h, h1
<1>12. CASE frag.part = "second"
  <2>1. h1 = h - 1 /\ Halves # {}
    BY <1>5, <1>12, CollectHalves, FS_RemoveElement DEF h, h1
  <2>2. complete <=> packetstate = 1 \/ StartsPacket(frag)
    BY <1>1, <1>12 DEF CompletesPacket, Fits
  <2>3. StartsPacket(frag) <=> packetstate = 0 /\ Accidental(frag)
    BY <1>12 DEF StartsPacket, Accidental
  <2>4. packetstate' = 0
    BY <1>3, <1>6, <2>2
  <2>5. packetstate = 1 /\ ~Doomed => WellFormed(PacketWith(frag))
    BY <1>12, GoodPacket
  <2> HIDE DEF frag, complete
  <2>6. BadInv'
    BY <1>2, <1>4, <1>6, <1>8, <1>9, <1>10, <1>11, <1>12, <2>2, <2>3, <2>4, <2>5
    DEF Raised
  <2>7. SwallowedInv'
    BY <1>2, <1>4, <1>5, <1>6, <1>8, <1>10, <1>12, <2>1, <2>2, <2>3, <2>4
    DEF Raised
  <2> QED
    BY <1>1, <1>9, <2>4, <2>6, <2>7 DEF ContentInv
<1>13. CASE frag.part = "whole"
  <2>1. h1 = h
    BY <1>13, CollectHalves DEF h, h1
  <2>2. complete
    BY <1>1, <1>6, <1>13 DEF CompletesPacket, StartsPacket, Fits
  <2>3. packetstate' = 0
    BY <1>3, <2>2
  <2>4. packetstate = 0 => WellFormed(PacketWith(frag))
    BY <1>11, <1>13, GoodPacket
  <2> HIDE DEF frag, complete
  <2>5. BadInv'
    BY <1>2, <1>4, <1>6, <1>7, <1>8, <1>9, <1>10, <1>11, <1>13, <2>2, <2>3, <2>4
    DEF Raised
  <2>6. SwallowedInv'
    BY <1>2, <1>4, <1>5, <1>6, <1>8, <1>10, <1>13, <2>1, <2>2, <2>3
    DEF Raised
  <2> QED
    BY <1>1, <1>9, <2>3, <2>5, <2>6 DEF ContentInv
<1>14. CASE frag.part = "first"
  <2>1. /\ b \notin Halves /\ Halves' = Halves \cup {b}
        /\ air'[b] # <<>> /\ Head(air'[b]).frame = frag.frame
    BY <1>14, CollectHalves
  <2>2. h1 = h + 1 /\ Halves' # {}
    BY <1>5, <2>1, FS_AddElement DEF h, h1
  <2>3. /\ complete <=> Accidental(frag)
        /\ StartsPacket(frag) <=> packetstate = 0
    BY <1>1, <1>6, <1>14 DEF CompletesPacket, StartsPacket, Fits, Accidental
  <2>4. ~complete => packetstate' = 1
    BY <1>3, <1>6, <2>3
  <2>5. SwallowedInv'
    <3> HIDE DEF frag, complete
    <3> QED
      BY <1>2, <1>3, <1>4, <1>5, <1>6, <1>8, <1>10, <1>14, <2>2, <2>3, <2>4
      DEF Raised
  <2>6. ASSUME ~complete, Halves = {}, ~Doomed PROVE ~Doomed'
    <3>1. packetstate = 0
      BY <1>6, <1>7, <2>6
    <3>2. packetbuff' = <<frag>>
      BY <1>3, <2>3, <2>6, <3>1 DEF Buffered
    <3>3. Halves' = {b} /\ packetbuff'[1].frame = Head(air'[b]).frame
      BY <2>1, <2>6, <3>2
    <3>4. Sound'
      BY <3>3 DEF Sound
    <3> QED
      BY <3>4 DEF Doomed
  <2>7. BadInv'
    <3> HIDE DEF frag, complete
    <3> QED
      BY <1>2, <1>3, <1>4, <1>6, <1>8, <1>9, <1>10, <1>14, <2>3, <2>4, <2>6
      DEF Raised
  <2>8. ASSUME ~complete PROVE BuffInv'
    <3>1. CASE packetstate = 0
      <4>1. packetbuff' = <<frag>>
        BY <1>3, <2>3, <2>8, <3>1 DEF Buffered
      <4>2. ~frag.ends77
        BY <1>14, <2>3, <2>8 DEF Accidental
      <4>3. Halves # {} => frag.frame \in disturbed'
        BY <1>3, <1>14
      <4>4. Doomed' => frag.frame \in disturbed'
        BY <1>11, <2>6, <2>8, <3>1, <4>3
      <4> QED
        BY <1>14, <4>1, <4>2, <4>4 DEF BuffInv
    <3>2. CASE packetstate = 1
      <4>1. packetbuff' = packetbuff
        BY <1>3, <2>3, <2>8, <3>2 DEF Buffered
      <4>2. Doomed => packetbuff[1].frame \in disturbed'
        BY <1>3, <3>2 DEF ContentInv, BuffInv
      <4>3. ~Doomed => packetbuff[1].frame \in disturbed'
        <5>1. ~Doomed => Halves # {} /\ packetbuff[1].frame \in FramesInProgress(Halves)
          BY <3>2 DEF Doomed, Sound, FramesInProgress
        <5> QED
          BY <1>3, <1>14, <5>1
      <4> QED
        BY <3>2, <4>1, <4>2, <4>3 DEF ContentInv, BuffInv
    <3> QED
      BY <1>6, <3>1, <3>2
  <2>9. BuffInv'
    BY <1>3, <1>9, <2>8
  <2> QED
    BY <1>1, <2>5, <2>7, <2>9 DEF ContentInv
<1> QED
  <2>1. frag.part \in {"first", "second", "whole"}
    BY <1>1 DEF Fragments
  <2> QED
    BY <1>12, <1>13, <1>14, <2>1

\* Every step preserves ContentInv.
LEMMA NextContent ==
    ASSUME TypeOK, ContentInv, [Next]_vars
    PROVE  ContentInv'
<1>1. ASSUME NEW b \in Boards, SendInfoCommand(b) PROVE ContentInv'
  BY <1>1, SendContent
<1>2. ASSUME NEW b \in Boards, CollectPacket(b) PROVE ContentInv'
  BY <1>2, CollectContent
<1>3. ASSUME NEW b \in Boards, LinkLost(b) PROVE ContentInv'
  BY <1>3, LinkLostContent
<1>4. CASE \/ \E b \in Boards : TakePacket(b)
           \/ ResetFlag \/ Publish \/ SessionRestart \/ UNCHANGED vars
  <2>1. UNCHANGED <<air, packetstate, packetbuff, tally, disturbed>>
    BY <1>4 DEF TakePacket, ResetFlag, Publish, SessionRestart, vars
  <2>2. Halves' = Halves /\ AirInv'
    BY <2>1 DEF Halves, HalfDelivered, AirInv, ContentInv
  <2> QED
    BY <2>1, <2>2, SameHalves DEF ContentInv
<1> QED
  BY <1>1, <1>2, <1>3, <1>4 DEF Next

\* ContentInv is an invariant.
LEMMA AlwaysContent == Spec => []ContentInv
<1>1. TypeOK /\ ContentInv /\ [Next]_vars => ContentInv'
  BY NextContent
<1> QED
  BY TypeCorrect, InitContent, <1>1, PTL DEF Spec

\* Every cut answer, every overlap of two answers and every accidental mark
\* spoils at most one packet, then or later, although the statics of
\* bleCollectPacket are shared by the boards and survive the links.
THEOREM CorruptionAlwaysBounded == Spec => []CorruptionBounded
<1>1. TypeOK /\ ContentInv => CorruptionBounded
  BY DEF TypeOK, Tallies, ContentInv, BadInv, CorruptionBounded
<1> QED
  BY TypeCorrect, AlwaysContent, <1>1, PTL

\* Every answer received to its end makes a packet, but for one for each
\* overlap and each accidental mark; lost links swallow none.
THEOREM AnswersAlwaysAccounted == Spec => []AnswersAccounted
<1>1. TypeOK /\ ContentInv => AnswersAccounted
  <2> SUFFICES ASSUME TypeOK, ContentInv PROVE AnswersAccounted
    OBVIOUS
  <2>1. /\ Cardinality(Halves) \in Nat
        /\ Cardinality(Halves) = 0 <=> Halves = {}
    BY HalvesFinite
  <2>2. /\ tally.swallowed \in Nat /\ tally.overlaps \in Nat
        /\ tally.marks \in Nat
    BY DEF TypeOK, Tallies
  <2> QED
    BY <2>1, <2>2 DEF ContentInv, SwallowedInv, AnswersAccounted
<1> QED
  BY TypeCorrect, AlwaysContent, <1>1, PTL

-----------------------------------------------------------------------------
(* What the boards' data are, and that they are announced *)

\* A packet that begins with an undisturbed answer and holds no accidental
\* mark is that answer, of the board that sent the last fragment.
LEMMA OwnPacket ==
    ASSUME TypeOK, ContentInv, NEW b \in Boards, CollectPacket(b),
           CompletesPacket(Incoming(b)),
           PacketWith(Incoming(b))[1].frame \notin disturbed',
           ~Accidental(PacketWith(Incoming(b))[2])
    PROVE  /\ WellFormed(PacketWith(Incoming(b)))
           /\ PacketWith(Incoming(b))[1].frame = Incoming(b).frame
<1> DEFINE frag == Incoming(b)
           packet == PacketWith(frag)
<1>1. /\ frag \in Fragments /\ Fits(frag, b)
      /\ frag.part = "second" <=> b \in Halves
  BY CollectHalves DEF Fragments
<1>2. /\ packet[1] = IF packetstate = 0 THEN frag ELSE packetbuff[1]
      /\ packet[2] = frag
  BY <1>1, CompletedPacket DEF ContentInv
<1>3. ~Accidental(frag)
  BY <1>2
<1>4. frag.part # "first"
  BY <1>3 DEF CompletesPacket, Accidental
<1>5. frag.part = "second" => packetstate = 1
  BY <1>3 DEF CompletesPacket, StartsPacket, Accidental
<1>6. disturbed' = IF frag.part # "second" /\ Halves # {}
                   THEN disturbed \cup {frag.frame} \cup FramesInProgress(Halves)
                   ELSE disturbed
  BY CollectBuffer
<1>7. ~Doomed
  <2> SUFFICES ASSUME Doomed PROVE FALSE
    OBVIOUS
  <2>1. packetstate = 1 /\ packetbuff[1].frame \in disturbed
    BY DEF Doomed, ContentInv, BuffInv
  <2> QED
    BY <1>2, <1>6, <2>1
<1>8. frag.part = "whole" => packetstate = 0
  <2> SUFFICES ASSUME frag.part = "whole", packetstate = 1 PROVE FALSE
    BY DEF TypeOK
  <2>1. Halves # {} /\ packetbuff[1].frame \in FramesInProgress(Halves)
    BY <1>7 DEF Doomed, Sound, FramesInProgress
  <2> QED
    BY <1>2, <1>6, <2>1
<1> QED
  BY <1>1, <1>4, <1>5, <1>7, <1>8, GoodPacket DEF Fragments

\* bleCollectPacket preserves InfoIsOwn.
LEMMA CollectInfo ==
    ASSUME TypeOK, ContentInv, InfoIsOwn, NEW b \in Boards, CollectPacket(b)
    PROVE  InfoIsOwn'
<1> DEFINE frag == Incoming(b)
           packet == PacketWith(frag)
           Own(p, c, t) == \/ p = <<>>
                           \/ p[1].frame \in disturbed'
                           \/ \E i \in DOMAIN p : Accidental(p[i])
                           \/ /\ WellFormed(p)
                              /\ p[1].frame.board = c
                              /\ p[1].frame.type = t
<1>1. disturbed \subseteq disturbed'
  BY CollectBuffer
<1>2. \A c \in Boards, t \in Types : Own(info[c][t], c, t)
  BY <1>1 DEF InfoIsOwn
<1>3. CASE ~CompletesPacket(frag)
  <2>1. info' = info
    BY <1>3, CollectBuffer
  <2> QED
    BY <1>2, <2>1 DEF InfoIsOwn
<1>4. CASE CompletesPacket(frag)
  <2>1. Process(b, packet)
    BY <1>4, CollectBuffer
  <2>2. frag \in Fragments /\ Fits(frag, b)
    BY CollectHalves
  <2>3. /\ Len(packet) = 2 /\ packet \in Seq(Fragments)
        /\ packet[2] = frag
    BY <1>4, <2>2, CompletedPacket DEF ContentInv
  <2>4. DOMAIN packet = 1 .. 2
    BY <2>3
  <2>5. PICK type \in HeaderTypes(packet) :
            info' = IF type \in Types THEN [info EXCEPT ![b][type] = packet]
                                      ELSE info
    BY <2>1 DEF Process
  <2>6. type \in Types => Own(packet, b, type)
    <3> SUFFICES ASSUME type \in Types,
                        packet[1].frame \notin disturbed',
                        ~\E i \in DOMAIN packet : Accidental(packet[i])
                 PROVE  /\ WellFormed(packet)
                        /\ packet[1].frame.board = b
                        /\ packet[1].frame.type = type
      OBVIOUS
    <3>1. ~Accidental(packet[2])
      BY <2>4
    <3>2. WellFormed(packet) /\ packet[1].frame = frag.frame
      BY <1>4, <3>1, OwnPacket
    <3>3. packet[1].part # "second"
      BY <3>2 DEF WellFormed
    <3>4. type = packet[1].frame.type
      BY <2>5, <3>3 DEF HeaderTypes
    <3> QED
      BY <2>2, <3>2, <3>4 DEF Fits
  <2> HIDE DEF packet
  <2>7. \A c \in Boards, u \in Types :
            info'[c][u] = IF c = b /\ u = type THEN packet ELSE info[c][u]
    BY <2>5 DEF TypeOK
  <2>8. \A c \in Boards, u \in Types : Own(info'[c][u], c, u)
    <3> HIDE DEF Own
    <3> QED
      BY <1>2, <2>6, <2>7
  <2> QED
    BY <2>8 DEF InfoIsOwn
<1> QED
  BY <1>3, <1>4

\* The data of a board are its own, whole, and of the kind they are stored as,
\* unless the answer they begin with was disturbed or they hold an accidental
\* mark.
THEOREM InfoAlwaysOwn == Spec => []InfoIsOwn
<1>1. Init => InfoIsOwn
  BY DEF Init, InfoIsOwn, NoInfo
<1>2. TypeOK /\ ContentInv /\ InfoIsOwn /\ [Next]_vars => InfoIsOwn'
  <2> SUFFICES ASSUME TypeOK, ContentInv, InfoIsOwn, [Next]_vars
               PROVE  InfoIsOwn'
    OBVIOUS
  <2>1. ASSUME NEW b \in Boards, CollectPacket(b) PROVE InfoIsOwn'
    BY <2>1, CollectInfo
  <2>2. ASSUME NEW b \in Boards, LinkLost(b) PROVE InfoIsOwn'
    <3>1. UNCHANGED info /\ disturbed \subseteq disturbed'
      BY <2>2 DEF LinkLost
    <3> QED
      BY <3>1 DEF InfoIsOwn
  <2>3. CASE SessionRestart
    <3>1. \A b \in Boards, t \in Types : info'[b][t] = <<>>
      BY <2>3 DEF SessionRestart, NoInfo
    <3> QED
      BY <3>1 DEF InfoIsOwn
  <2>4. CASE \/ \E b \in Boards : SendInfoCommand(b) \/ TakePacket(b)
             \/ ResetFlag \/ Publish \/ UNCHANGED vars
    <3>1. UNCHANGED <<info, disturbed>>
      BY <2>4 DEF SendInfoCommand, TakePacket, ResetFlag, Publish, vars
    <3> QED
      BY <3>1 DEF InfoIsOwn
  <2> QED
    BY <2>1, <2>2, <2>3, <2>4 DEF Next
<1> QED
  BY TypeCorrect, AlwaysContent, <1>1, <1>2, PTL DEF Spec

(***************************************************************************)
(* The strengthening for UpdateAnnounced: between the write of a command   *)
(* and the reset of the flag the answer is on its way or has been noted.   *)
(***************************************************************************)
UpdateInv ==
    /\ UpdateAnnounced
    /\ loop.pc = "sent" => \/ air[loop.board] # <<>>
                           \/ loop.board \in missed
                           \/ loop.board \notin linked

\* bleCollectPacket preserves UpdateInv: it announces what it stores, and the
\* end of an answer that leaves no flag behind is noted.
LEMMA CollectUpdate ==
    ASSUME TypeOK, ContentInv, UpdateInv, NEW b \in Boards, CollectPacket(b)
    PROVE  UpdateInv'
<1> DEFINE frag == Incoming(b)
           packet == PacketWith(frag)
<1>1. /\ UNCHANGED <<linked, loop>>
      /\ \A c \in Boards : c # b => air'[c] = air[c]
      /\ frag \in Fragments
      /\ frag.part = "first" => air'[b] # <<>>
  BY CollectBuffer, CollectHalves
<1>2. loop.board \in Boards /\ unpublished \subseteq Boards /\ missed \subseteq Boards
  BY DEF TypeOK
<1>3. CASE ~CompletesPacket(frag)
  <2>1. /\ missed' = IF frag.part = "first" THEN missed ELSE missed \cup {b}
        /\ UNCHANGED <<newPacketReceived, unpublished>>
    BY <1>3, CollectBuffer
  <2> HIDE DEF frag
  <2>2. air'[b] # <<>> \/ b \in missed'
    BY <1>1, <2>1
  <2>3. missed \subseteq missed'
    BY <2>1
  <2>4. UpdateAnnounced'
    BY <1>1, <1>2, <2>1, <2>2, <2>3 DEF UpdateInv, UpdateAnnounced
  <2> QED
    BY <1>1, <1>2, <2>2, <2>3, <2>4 DEF UpdateInv
<1>4. CASE CompletesPacket(frag)
  <2>1. Process(b, packet) /\ packet[2] = frag
    BY <1>1, <1>4, CollectBuffer, CompletedPacket DEF ContentInv
  <2>2. PICK type \in HeaderTypes(packet) :
            /\ newPacketReceived' =
                   [newPacketReceived EXCEPT ![b] = @ \/ Reported(type)]
            /\ unpublished' = IF type \in Types THEN unpublished \cup {b}
                                                ELSE unpublished
            /\ missed' = IF packet[2].part = "first" THEN missed
                         ELSE IF \/ type = "unsupported"
                                 \/ loop = [pc |-> "sent", board |-> b]
                              THEN missed \cup {b}
                              ELSE missed \ {b}
    BY <2>1 DEF Process
  <2>3. /\ type = "unsupported" \/ newPacketReceived'[b]
        /\ newPacketReceived[b] => newPacketReceived'[b]
        /\ \A c \in Boards : c # b => newPacketReceived'[c] = newPacketReceived[c]
    BY <2>2 DEF TypeOK, Reported
  <2>4. missed' = IF frag.part = "first" THEN missed
                  ELSE IF \/ type = "unsupported"
                          \/ loop = [pc |-> "sent", board |-> b]
                       THEN missed \cup {b}
                       ELSE missed \ {b}
    BY <2>1, <2>2
  <2>5. unpublished' \subseteq unpublished \cup {b}
    BY <2>2
  <2> HIDE DEF frag, packet
  <2>6. air'[b] # <<>> \/ b \in missed' \/ newPacketReceived'[b]
    BY <1>1, <2>3, <2>4
  <2>7. \A c \in Boards : c # b => (c \in missed' <=> c \in missed)
    BY <2>4
  <2>8. UpdateAnnounced'
    BY <1>1, <1>2, <2>3, <2>5, <2>6, <2>7 DEF UpdateInv, UpdateAnnounced
  <2>9. loop.pc = "sent" /\ loop.board = b => air'[b] # <<>> \/ b \in missed'
    <3>1. loop = [pc |-> loop.pc, board |-> loop.board]
      BY DEF TypeOK
    <3> QED
      BY <1>1, <2>4, <3>1
  <2> QED
    BY <1>1, <1>2, <2>7, <2>8, <2>9 DEF UpdateInv
<1> QED
  BY <1>3, <1>4

\* The steps of the loop task preserve UpdateInv: the flag is reset before the
\* data are read, and after a command whose answer is still to come.
LEMMA LoopUpdate ==
    ASSUME TypeOK, ContentInv, UpdateInv,
           \/ \E b \in Boards : SendInfoCommand(b) \/ TakePacket(b)
           \/ ResetFlag \/ Publish
    PROVE  UpdateInv'
<1>1. ASSUME NEW b \in Boards, SendInfoCommand(b) PROVE UpdateInv'
  <2>1. air'[b] # <<>>
    BY <1>1, SendContent
  <2>2. \A c \in Boards : c # b => air'[c] = air[c]
    BY <1>1 DEF SendInfoCommand, TypeOK
  <2>3. /\ loop.pc = "top" /\ loop' = [pc |-> "sent", board |-> b]
        /\ missed' = missed \ {b}
        /\ UNCHANGED <<newPacketReceived, linked, unpublished>>
    BY <1>1 DEF SendInfoCommand
  <2> QED
    BY <2>1, <2>2, <2>3 DEF UpdateInv, UpdateAnnounced, TypeOK
<1>2. ASSUME NEW b \in Boards, TakePacket(b) PROVE UpdateInv'
  <2>1. /\ loop.pc = "top" /\ loop' = [pc |-> "publish", board |-> b]
        /\ \A c \in Boards : c # b =>
               newPacketReceived'[c] = newPacketReceived[c]
        /\ UNCHANGED <<air, missed, linked, unpublished>>
    BY <1>2 DEF TakePacket, TypeOK
  <2> QED
    BY <2>1 DEF UpdateInv, UpdateAnnounced, TypeOK
<1>3. CASE ResetFlag
  <2>1. /\ loop.pc = "sent" /\ loop'.pc = "top"
        /\ \A c \in Boards : c # loop.board =>
               newPacketReceived'[c] = newPacketReceived[c]
        /\ UNCHANGED <<air, missed, linked, unpublished>>
    BY <1>3 DEF ResetFlag, TypeOK
  <2>2. ASSUME NEW c \in unpublished
        PROVE  newPacketReceived'[c] \/ air[c] # <<>> \/ c \in missed
               \/ c \notin linked
    <3>1. c \in Boards
      BY DEF TypeOK
    <3>2. CASE c = loop.board
      BY <2>1, <3>2 DEF UpdateInv
    <3>3. CASE c # loop.board
      <4>1. loop # [pc |-> "publish", board |-> c]
        BY <2>1
      <4>2. newPacketReceived'[c] = newPacketReceived[c]
        BY <2>1, <3>1, <3>3
      <4> QED
        BY <4>1, <4>2 DEF UpdateInv, UpdateAnnounced
    <3> QED
      BY <3>2, <3>3
  <2>3. UpdateAnnounced'
    BY <2>1, <2>2 DEF UpdateAnnounced
  <2> QED
    BY <2>1, <2>3 DEF UpdateInv
<1>4. CASE Publish
  <2>1. /\ loop.pc = "publish" /\ loop'.pc = "top"
        /\ unpublished' = unpublished \ {loop.board}
        /\ UNCHANGED <<air, missed, linked, newPacketReceived>>
    BY <1>4 DEF Publish, TypeOK
  <2> QED
    BY <2>1 DEF UpdateInv, UpdateAnnounced, TypeOK
<1> QED
  BY <1>1, <1>2, <1>3, <1>4

\* Data nobody has published are announced, about to be published, or an
\* answer is on its way: they wait for the next answer only when the last one
\* made no packet or overtook the end of sendInfoCommand.
THEOREM UpdateAlwaysAnnounced == Spec => []UpdateAnnounced
<1>1. Init => UpdateInv
  BY DEF Init, UpdateInv, UpdateAnnounced
<1>2. TypeOK /\ ContentInv /\ UpdateInv /\ [Next]_vars => UpdateInv'
  <2> SUFFICES ASSUME TypeOK, ContentInv, UpdateInv, [Next]_vars
               PROVE  UpdateInv'
    OBVIOUS
  <2>1. ASSUME NEW b \in Boards, CollectPacket(b) PROVE UpdateInv'
    BY <2>1, CollectUpdate
  <2>2. ASSUME NEW b \in Boards, LinkLost(b) PROVE UpdateInv'
    <3>1. /\ linked' = linked \ {b}
          /\ \A c \in Boards : c # b => air'[c] = air[c]
          /\ UNCHANGED <<newPacketReceived, loop, unpublished, missed>>
      BY <2>2 DEF LinkLost, TypeOK
    <3>2. loop.board \in Boards
      BY DEF TypeOK
    <3> QED
      BY <3>1, <3>2 DEF UpdateInv, UpdateAnnounced, TypeOK
  <2>3. CASE SessionRestart
    BY <2>3 DEF SessionRestart, UpdateInv, UpdateAnnounced
  <2>4. CASE \/ \E b \in Boards : SendInfoCommand(b) \/ TakePacket(b)
             \/ ResetFlag \/ Publish
    BY <2>4, LoopUpdate
  <2>5. CASE UNCHANGED vars
    BY <2>5 DEF vars, UpdateInv, UpdateAnnounced
  <2> QED
    BY <2>1, <2>2, <2>3, <2>4, <2>5 DEF Next
<1>3. UpdateInv => UpdateAnnounced
  BY DEF UpdateInv
<1> QED
  BY TypeCorrect, AlwaysContent, <1>1, <1>2, <1>3, PTL DEF Spec
=============================================================================
