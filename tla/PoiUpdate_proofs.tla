--------------------------- MODULE PoiUpdate_proofs ---------------------------
(***************************************************************************)
(* updatePOI, for indexes of any length: whatever fails and however often  *)
(* the power is lost, the card keeps what no index has replaced, and it    *)
(* never mixes the files of two servers or two boots.                      *)
(***************************************************************************)
EXTENDS PoiUpdate, TLAPS

\* an entry that has been written to the end
Whole(e) == card[e] \notin {"none", "cut"}

\* Where the contents of the directory come from, if nothing is stuck in it:
\* while it is emptied what is left to remove is all there is, and from then
\* on there are only entries of this call.
SourceInv == stuck = {} =>
    /\ \A e, f \in Entries : Whole(e) /\ Whole(f) => card[e] = card[f]
    /\ pc = "remove" => \A e \in Entries : card[e] # "none" => e \in next
    /\ pc = "writeIndex" => \A e \in Entries : card[e] = "none"
    /\ pc = "files" => \A e \in Entries : Whole(e) => card[e] = url

\* An index has been downloaded wherever the directory is touched.
SeenInv == /\ pc \in {"remove", "writeIndex", "files"} => seen
           /\ ~seen => card = atBoot

IInv == TypeOK /\ SourceInv /\ SeenInv

\* It holds at the start.
LEMMA InitInv == Init => IInv
<1> SUFFICES ASSUME Init PROVE IInv
  OBVIOUS
<1> PICK last \in -1 .. MaxFiles :
        card = [e \in Entries |-> IF e <= last THEN "earlier" ELSE "none"]
  BY DEF Init
<1>1. TypeOK
  <2>1. card \in [Entries -> Contents]
    BY DEF Contents
  <2>2. size \in 0 .. MaxFiles /\ numberOfPoi \in 0 .. MaxFiles
    BY PoiAssumption DEF Init
  <2>3. next \in SUBSET Entries /\ lost \in SUBSET Entries /\ stuck \in SUBSET Entries
    BY Zenon DEF Init
  <2>4. ok \in BOOLEAN /\ seen \in BOOLEAN
    BY DEF Init
  <2> QED
    BY <2>1, <2>2, <2>3, <2>4 DEF Init, TypeOK, Urls
<1>2. SourceInv
  BY DEF Init, SourceInv, Whole
<1>3. SeenInv
  BY DEF Init, SeenInv
<1> QED
  BY <1>1, <1>2, <1>3 DEF IInv

\* A call that fails leaves the card as it is.
LEMMA ReturnFalseInv ==
    ASSUME IInv, ReturnFalse, UNCHANGED <<card, stuck, seen, atBoot>>,
           next' \in SUBSET Entries,
           UNCHANGED <<size, numberOfPoi, ok, lost>>
    PROVE  IInv'
<1>1. TypeOK'
  BY DEF ReturnFalse, IInv, TypeOK, Urls
<1>2. SourceInv'
  BY DEF ReturnFalse, IInv, SourceInv, Whole
<1>3. SeenInv'
  BY DEF ReturnFalse, IInv, SeenInv
<1> QED
  BY <1>1, <1>2, <1>3 DEF IInv

\* The index.
LEMMA IndexInv == IInv /\ (IndexFails \/ IndexFound) => IInv'
<1>1. ASSUME IInv, IndexFails PROVE IInv'
  BY <1>1, ReturnFalseInv DEF IndexFails, IInv, TypeOK
<1>2. ASSUME IInv, IndexFound PROVE IInv'
  <2>1. TypeOK'
    BY <1>2 DEF IndexFound, ToRemove, Present, IInv, TypeOK
  <2>2. SourceInv'
    BY <1>2 DEF IndexFound, ToRemove, Present, IInv, SourceInv, Whole
  <2>3. SeenInv'
    BY <1>2 DEF IndexFound, SeenInv
  <2> QED
    BY <2>1, <2>2, <2>3 DEF IInv
<1> QED
  BY <1>1, <1>2

\* Emptying the directory.
LEMMA RemoveInv == ASSUME IInv, NEW x \in Entries, Remove(x) PROVE IInv'
<1>1. CASE card' = [card EXCEPT ![x] = "none"] /\ stuck' = stuck
  <2>1. TypeOK'
    BY <1>1 DEF Remove, IInv, TypeOK, Contents
  <2>2. \A e \in Entries : card'[e] = IF e = x THEN "none" ELSE card[e]
    BY <1>1 DEF IInv, TypeOK
  <2>3. SourceInv'
    BY <1>1, <2>2 DEF Remove, IInv, SourceInv, Whole
  <2>4. SeenInv'
    BY DEF Remove, IInv, SeenInv
  <2> QED
    BY <2>1, <2>3, <2>4 DEF IInv
<1>2. CASE card' = card /\ stuck' = stuck \cup {x}
  <2>1. TypeOK'
    BY <1>2 DEF Remove, IInv, TypeOK
  <2>2. SourceInv'
    <3>1. stuck' # {}
      BY <1>2
    <3> QED
      BY <3>1 DEF SourceInv
  <2>3. SeenInv'
    BY <1>2 DEF Remove, IInv, SeenInv
  <2> QED
    BY <2>1, <2>2, <2>3 DEF IInv
<1> QED
  BY <1>1, <1>2 DEF Remove

\* The empty directory.
LEMMA CreateDirInv == IInv /\ CreateDir => IInv'
<1> SUFFICES ASSUME IInv, CreateDir PROVE IInv'
  OBVIOUS
<1>1. TypeOK'
  BY DEF CreateDir, IInv, TypeOK
<1>2. SourceInv'
  BY DEF CreateDir, IInv, SourceInv, Whole
<1>3. SeenInv'
  BY DEF CreateDir, IInv, SeenInv
<1> QED
  BY <1>1, <1>2, <1>3 DEF IInv

\* A write makes an entry that of this URL, or cuts it, or leaves it.
LEMMA WriteFacts ==
    ASSUME IInv, NEW x \in Entries, Write(x)
    PROVE  /\ card' \in [Entries -> Contents] /\ lost' \in SUBSET Entries
           /\ \A e \in Entries : \/ card'[e] = card[e]
                                 \/ card'[e] = url
                                 \/ card'[e] = "cut"
<1>1. CASE card' = [card EXCEPT ![x] = url] /\ lost' = lost
  BY <1>1 DEF IInv, TypeOK, Contents
<1>2. CASE card' \in {card, [card EXCEPT ![x] = "cut"]} /\ lost' = lost \cup {x}
  BY <1>2 DEF IInv, TypeOK, Contents
<1> QED
  BY <1>1, <1>2 DEF Write

\* Writing the index, into an empty directory.
LEMMA WriteIndexInv == IInv /\ WriteIndex => IInv'
<1> SUFFICES ASSUME IInv, WriteIndex PROVE IInv'
  OBVIOUS
<1>1. 0 \in Entries /\ Write(0)
  BY PoiAssumption DEF WriteIndex, Entries
<1>2. /\ card' \in [Entries -> Contents] /\ lost' \in SUBSET Entries
      /\ \A e \in Entries : card'[e] = card[e] \/ card'[e] = url \/ card'[e] = "cut"
  BY <1>1, WriteFacts
<1>3. TypeOK'
  <2>1. next' \in SUBSET Entries
    BY PoiAssumption DEF WriteIndex, IInv, TypeOK, Entries
  <2> QED
    BY <1>2, <2>1 DEF WriteIndex, Counted, IInv, TypeOK
<1>4. SourceInv'
  BY <1>2 DEF WriteIndex, IInv, SourceInv, Whole
<1>5. SeenInv'
  BY DEF WriteIndex, IInv, SeenInv
<1> QED
  BY <1>3, <1>4, <1>5 DEF IInv

\* The files, next to the index of the same URL.
LEMMA FilesInv == IInv /\ (FileFails \/ FileFound \/ Done) => IInv'
<1>1. ASSUME IInv, FileFails PROVE IInv'
  <2>1. next' \in SUBSET Entries
    BY <1>1, Zenon DEF FileFails, GiveUp
  <2> QED
    BY <1>1, <2>1, ReturnFalseInv DEF FileFails, GiveUp
<1>2. ASSUME IInv, FileFound PROVE IInv'
  <2> PICK x \in next : Write(x) /\ next' = next \ {x}
    BY <1>2 DEF FileFound
  <2>1. x \in Entries
    BY <1>2 DEF IInv, TypeOK
  <2>2. /\ card' \in [Entries -> Contents] /\ lost' \in SUBSET Entries
        /\ \A e \in Entries : card'[e] = card[e] \/ card'[e] = url \/ card'[e] = "cut"
    BY <1>2, <2>1, WriteFacts
  <2>3. TypeOK'
    BY <1>2, <2>2 DEF FileFound, IInv, TypeOK
  <2>4. SourceInv'
    BY <1>2, <2>2 DEF FileFound, IInv, SourceInv, Whole
  <2>5. SeenInv'
    BY <1>2 DEF FileFound, IInv, SeenInv
  <2> QED
    BY <2>3, <2>4, <2>5 DEF IInv
<1>3. ASSUME IInv, Done PROVE IInv'
  <2>1. TypeOK'
    BY <1>3 DEF Done, IInv, TypeOK
  <2>2. SourceInv'
    BY <1>3 DEF Done, IInv, SourceInv, Whole
  <2>3. SeenInv'
    BY <1>3 DEF Done, IInv, SeenInv
  <2> QED
    BY <2>1, <2>2, <2>3 DEF IInv
<1> QED
  BY <1>1, <1>2, <1>3

\* After a reboot what is whole is of an earlier boot.
LEMMA RebootInv == IInv /\ Reboot => IInv'
<1> SUFFICES ASSUME IInv, Reboot PROVE IInv'
  OBVIOUS
<1> DEFINE Cuts == {card} \cup {[card EXCEPT ![e] = "cut"] :
                                  e \in IF pc = "files" THEN next ELSE {}}
<1> PICK cut \in Cuts :
        card' = [e \in Entries |-> IF cut[e] \in Urls THEN "earlier" ELSE cut[e]]
  BY DEF Reboot
<1>1. cut \in [Entries -> Contents]
  BY DEF IInv, TypeOK, Contents
<1>2. \A e \in Entries : card'[e] \in {"none", "cut", "earlier"}
  BY <1>1 DEF Contents
<1>3. card' \in [Entries -> Contents]
  BY <1>2 DEF Contents
<1>4. TypeOK'
  <2>1. size' \in 0 .. MaxFiles /\ numberOfPoi' \in 0 .. MaxFiles
    BY PoiAssumption DEF Reboot
  <2>2. next' \in SUBSET Entries /\ lost' \in SUBSET Entries
    BY Zenon DEF Reboot
  <2>3. ok' \in BOOLEAN /\ seen' \in BOOLEAN /\ stuck' = stuck
    BY DEF Reboot
  <2>4. atBoot' = card' /\ pc' = "index" /\ url' = "poiURL"
    BY DEF Reboot
  <2> HIDE DEF Cuts
  <2> QED
    BY <1>3, <2>1, <2>2, <2>3, <2>4 DEF IInv, TypeOK, Urls
<1>5. SourceInv'
  <2>1. pc' = "index"
    BY DEF Reboot
  <2> HIDE DEF Cuts
  <2> QED
    BY <1>2, <2>1 DEF SourceInv, Whole
<1>6. SeenInv'
  <2>1. pc' = "index" /\ atBoot' = card' /\ seen' = FALSE
    BY DEF Reboot
  <2> QED
    BY <2>1 DEF SeenInv
<1> QED
  BY <1>4, <1>5, <1>6 DEF IInv

\* Every step keeps the invariant.
LEMMA NextInv == IInv /\ [Next]_vars => IInv'
<1> SUFFICES ASSUME IInv, [Next]_vars PROVE IInv'
  OBVIOUS
<1>1. CASE UNCHANGED vars
  <2>1. TypeOK'
    BY <1>1 DEF vars, IInv, TypeOK
  <2>2. SourceInv' /\ SeenInv'
    BY <1>1 DEF vars, IInv, SourceInv, SeenInv, Whole
  <2> QED
    BY <2>1, <2>2 DEF IInv
<1> QED
  BY <1>1, IndexInv, RemoveInv, CreateDirInv, WriteIndexInv, FilesInv, RebootInv
     DEF Next, Update

\* The invariant holds in every state.
LEMMA AlwaysIInv == Spec => []IInv
<1>1. Init => IInv
  BY InitInv
<1>2. IInv /\ [Next]_vars => IInv'
  BY NextInv
<1> QED
  BY <1>1, <1>2, PTL DEF Spec

\* The variables keep their types.
THEOREM PoiTypeOK == Spec => []TypeOK
<1>1. IInv => TypeOK
  BY DEF IInv
<1> QED
  BY <1>1, AlwaysIInv, PTL

\* MySdCard.cpp:310-324: a boot that gets no index leaves the card alone.
THEOREM NoIndexNoLoss == Spec => []KeptWithoutIndex
<1>1. IInv => KeptWithoutIndex
  BY DEF IInv, SeenInv, KeptWithoutIndex
<1> QED
  BY <1>1, AlwaysIInv, PTL

\* MySdCard.cpp:330-351 and main.cpp:175-190: the second URL, or the next boot,
\* starts from an empty directory, so the files are of one source.
THEOREM OneSource == Spec => []NoMixture
<1>1. IInv => NoMixture
  BY DEF IInv, SourceInv, Whole, NoMixture
<1> QED
  BY <1>1, AlwaysIInv, PTL

-----------------------------------------------------------------------------
(***************************************************************************)
(* What a call that succeeds has done.  next is what is left to do of the  *)
(* part the call is in: what is neither left nor stuck is removed, and     *)
(* what is neither left nor lost is written.                               *)
(***************************************************************************)

Written(e) == e \notin lost => card[e] = url

OnlyStuck(e) == card[e] # "none" => e \in stuck

CallInv ==
    /\ pc = "remove" => \A e \in Entries : e \in next \/ OnlyStuck(e)
    /\ pc = "writeIndex" => \A e \in Entries : OnlyStuck(e)
    /\ pc = "files" => /\ next \subseteq 1 .. size
                       /\ \A e \in 0 .. size : e \in next \/ Written(e)
                       /\ \A e \in Entries : e > size => OnlyStuck(e)
    /\ ok => /\ pc = "loop"
             /\ \A e \in 0 .. size : Written(e)
             /\ \A e \in Entries : e > size => OnlyStuck(e)
    \* numberOfPoi is behind only between an index and its writing
    /\ pc \notin {"remove", "writeIndex"} => numberOfPoi = size

\* CallInv holds at the boot.
LEMMA InitCall == Init => CallInv
  BY DEF Init, CallInv

\* A removal takes an entry, or leaves it stuck.
LEMMA RemoveCall ==
    ASSUME IInv, CallInv, NEW x \in Entries, Remove(x)
    PROVE  CallInv'
<1>1. /\ pc = "remove" /\ pc' = "remove" /\ ok' = ok
      /\ next' = next \ {x}
  BY DEF Remove
<1>2. ~ok
  BY <1>1 DEF CallInv
<1>3. \A e \in Entries : e \in next' \/ OnlyStuck(e)'
  <2>1. CASE card' = [card EXCEPT ![x] = "none"] /\ stuck' = stuck
    <3>1. \A e \in Entries : card'[e] = IF e = x THEN "none" ELSE card[e]
      BY <2>1 DEF IInv, TypeOK
    <3> QED
      BY <1>1, <2>1, <3>1 DEF CallInv, OnlyStuck
  <2>2. CASE card' = card /\ stuck' = stuck \cup {x}
    BY <1>1, <2>2 DEF CallInv, OnlyStuck
  <2> QED
    BY <2>1, <2>2 DEF Remove
<1> QED
  BY <1>1, <1>2, <1>3 DEF CallInv

\* Writing an entry of the index writes it or loses it, and no other.
LEMMA WriteCall ==
    ASSUME IInv, NEW x \in Entries, Write(x), url' = url
    PROVE  /\ Written(x)'
           /\ \A e \in Entries : e # x => card'[e] = card[e]
           /\ lost \subseteq lost'
<1>1. CASE card' = [card EXCEPT ![x] = url] /\ lost' = lost
  BY <1>1 DEF IInv, TypeOK, Written
<1>2. CASE card' \in {card, [card EXCEPT ![x] = "cut"]} /\ lost' = lost \cup {x}
  BY <1>2 DEF IInv, TypeOK, Written
<1> QED
  BY <1>1, <1>2 DEF Write

\* The index is written into a directory with nothing but what is stuck.
LEMMA WriteIndexCall == IInv /\ CallInv /\ WriteIndex => CallInv'
<1> SUFFICES ASSUME IInv, CallInv, WriteIndex PROVE CallInv'
  OBVIOUS
<1>1. /\ pc = "writeIndex" /\ pc' = "files" /\ ok' = ok /\ next' = 1 .. size
      /\ numberOfPoi' = size /\ UNCHANGED <<url, size, stuck>> /\ Write(0)
  BY DEF WriteIndex, Counted
<1>2. 0 \in Entries /\ size \in 0 .. MaxFiles /\ MaxFiles \in Nat
  BY PoiAssumption DEF Entries, IInv, TypeOK
<1>3. /\ Written(0)'
      /\ \A e \in Entries : e # 0 => card'[e] = card[e]
  BY <1>1, <1>2, WriteCall
<1>4. ~ok
  BY <1>1 DEF CallInv
<1>5. \A e \in 0 .. size : e \in next' \/ Written(e)'
  <2>1. \A e \in 0 .. size : e \in 1 .. size \/ e = 0
    BY <1>2
  <2> QED
    BY <1>1, <1>3, <2>1
<1>6. \A e \in Entries : e > size => OnlyStuck(e)'
  <2>1. \A e \in Entries : e > size => e # 0
    BY <1>2
  <2> QED
    BY <1>1, <1>3, <2>1 DEF CallInv, OnlyStuck
<1> QED
  BY <1>1, <1>4, <1>5, <1>6 DEF CallInv

\* A file of the index is written next to the others.
LEMMA FileFoundCall == IInv /\ CallInv /\ FileFound => CallInv'
<1> SUFFICES ASSUME IInv, CallInv, FileFound PROVE CallInv'
  OBVIOUS
<1> PICK x \in next : Write(x) /\ next' = next \ {x}
  BY DEF FileFound
<1>1. /\ pc = "files" /\ pc' = "files" /\ ok' = ok
      /\ UNCHANGED <<url, size, numberOfPoi, stuck>>
  BY DEF FileFound
<1>2. /\ x \in Entries /\ x \in 1 .. size /\ next \subseteq 1 .. size
      /\ size \in 0 .. MaxFiles /\ MaxFiles \in Nat
  BY <1>1, PoiAssumption DEF CallInv, IInv, TypeOK
<1>3. /\ Written(x)'
      /\ \A e \in Entries : e # x => card'[e] = card[e]
      /\ lost \subseteq lost'
  BY <1>1, <1>2, WriteCall
<1>4. ~ok
  BY <1>1 DEF CallInv
<1>5. 0 .. size \subseteq Entries
  BY <1>2 DEF Entries
<1>6. \A e \in 0 .. size : e \in next' \/ Written(e)'
  <2> SUFFICES ASSUME NEW e \in 0 .. size, e \notin next' PROVE Written(e)'
    OBVIOUS
  <2>1. CASE e = x
    BY <1>3, <2>1
  <2>2. CASE e # x
    <3>1. Written(e)
      BY <1>1, <2>2 DEF CallInv
    <3> QED
      BY <1>1, <1>3, <1>5, <2>2, <3>1 DEF Written
  <2> QED
    BY <2>1, <2>2
<1>7. \A e \in Entries : e > size => OnlyStuck(e)'
  <2>1. \A e \in Entries : e > size => e # x
    BY <1>2
  <2> QED
    BY <1>1, <1>3, <2>1 DEF CallInv, OnlyStuck
<1>8. next' \subseteq 1 .. size
  BY <1>2
<1>9. numberOfPoi' = size'
  BY <1>1 DEF CallInv
<1> QED
  BY <1>1, <1>4, <1>6, <1>7, <1>8, <1>9 DEF CallInv

\* Every step keeps CallInv.
LEMMA NextCall == IInv /\ CallInv /\ [Next]_vars => CallInv'
<1> SUFFICES ASSUME IInv, CallInv, [Next]_vars PROVE CallInv'
  OBVIOUS
<1>1. CASE IndexFails
  <2>1. ~ok /\ numberOfPoi = size
    BY <1>1 DEF IndexFails, CallInv
  <2> QED
    BY <1>1, <2>1 DEF IndexFails, ReturnFalse, CallInv
<1>2. CASE IndexFound
  <2>1. ~ok'
    BY <1>2 DEF IndexFound, CallInv
  <2>2. pc' = "remove" /\ \A e \in Entries : e \in next' \/ OnlyStuck(e)'
    BY <1>2 DEF IndexFound, ToRemove, Present, OnlyStuck
  <2> QED
    BY <2>1, <2>2 DEF CallInv
<1>3. ASSUME NEW x \in Entries, Remove(x) PROVE CallInv'
  BY <1>3, RemoveCall
<1>4. CASE CreateDir
  <2>1. ~ok'
    BY <1>4 DEF CreateDir, CallInv
  <2>2. pc' = "writeIndex" /\ \A e \in Entries : OnlyStuck(e)'
    BY <1>4 DEF CreateDir, CallInv, OnlyStuck
  <2> QED
    BY <2>1, <2>2 DEF CallInv
<1>5. CASE WriteIndex
  BY <1>5, WriteIndexCall
<1>6. CASE FileFails
  <2>1. ~ok' /\ pc' \in {"index", "loop"} /\ numberOfPoi' = size'
    BY <1>6 DEF FileFails, GiveUp, ReturnFalse, CallInv
  <2> QED
    BY <2>1 DEF CallInv
<1>7. CASE FileFound
  BY <1>7, FileFoundCall
<1>8. CASE Done
  BY <1>8 DEF Done, CallInv, Written, OnlyStuck
<1>9. CASE Reboot
  BY <1>9 DEF Reboot, CallInv
<1>10. CASE UNCHANGED vars
  BY <1>10 DEF vars, CallInv, Written, OnlyStuck
<1> QED
  BY <1>1, <1>2, <1>3, <1>4, <1>5, <1>6, <1>7, <1>8, <1>9, <1>10 DEF Next, Update

\* MySdCard.cpp:330-376: a call that succeeds leaves the index and its files, but
\* for those whose write failed, and nothing that could be removed.
THEOREM SuccessIsComplete == Spec => []CompleteOrLost
<1>1. IInv /\ CallInv => CompleteOrLost
  BY DEF CallInv, CompleteOrLost, Written, OnlyStuck, Present
<1> QED
  BY <1>1, AlwaysIInv, InitCall, NextCall, PTL DEF Spec

\* MySdCard.cpp:333-337: numberOfPoi is the length of the index on the card,
\* whichever URL it came from and however far its download got.
THEOREM CountIsOfIndex == Spec => []CountOfIndex
<1>1. CallInv => CountOfIndex
  BY DEF CallInv, CountOfIndex
<1> QED
  BY <1>1, AlwaysIInv, InitCall, NextCall, PTL DEF Spec
=============================================================================
