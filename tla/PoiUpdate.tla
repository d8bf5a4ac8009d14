------------------------------ MODULE PoiUpdate ------------------------------
(***************************************************************************)
(* MySdCard::updatePOI, which setup() calls with the first URL and, if     *)
(* that fails, with the second one: it empties the directory of the points *)
(* of interest on the SD card, writes the index it has downloaded, and     *)
(* downloads the files it lists.  Entry 0 of the directory is index.json,  *)
(* entry n the nth file of an index.                                       *)
(*                                                                         *)
(* A download may fail at any point, an operation of the card fails        *)
(* without notice, and the power may be lost at any time.                  *)
(***************************************************************************)
EXTENDS Integers, FiniteSets

CONSTANT MaxFiles   \* bound on the length of an index

ASSUME PoiAssumption == MaxFiles \in Nat

Entries == 0 .. MaxFiles
Urls == {"poiURL", "poiURL2"}
\* where the contents of an entry come from: a boot before this one, or a URL
Contents == {"none", "cut", "earlier"} \cup Urls

VARIABLES
    pc,           \* where setup() is in updatePOI, or "loop"
    url,          \* the URL of this call of updatePOI
    card,         \* contents of the entries of /PersonalPOI
    size,         \* length of the index of this call
    next,         \* the entries to remove, or those still to download
    numberOfPoi,  \* MyM5::numberOfPoi
    ok,           \* updatePOI returned true
    seen,         \* history: an index has been downloaded since the boot
    atBoot,       \* history: the card at the boot
    lost,         \* history: entries whose write has failed in this call
    stuck         \* history: entries whose removal has ever failed

vars == <<pc, url, card, size, next, numberOfPoi, ok, seen, atBoot, lost, stuck>>

\* Types; numberOfPoi never exceeds what updatePOI can have read.
TypeOK ==
    /\ pc \in {"index", "remove", "writeIndex", "files", "loop"}
    /\ url \in Urls
    /\ card \in [Entries -> Contents]
    /\ size \in 0 .. MaxFiles
    /\ next \in SUBSET Entries
    /\ numberOfPoi \in 0 .. MaxFiles
    /\ ok \in BOOLEAN
    /\ seen \in BOOLEAN
    /\ atBoot \in [Entries -> Contents]
    /\ lost \in SUBSET Entries
    /\ stuck \in SUBSET Entries

\* what an earlier complete update has left, or an empty card
Init ==
    /\ \E last \in -1 .. MaxFiles :
           card = [e \in Entries |-> IF e <= last THEN "earlier" ELSE "none"]
    /\ pc = "index" /\ url = "poiURL"
    /\ size = 0 /\ next = {} /\ numberOfPoi = 0
    /\ ok = FALSE /\ seen = FALSE
    /\ atBoot = card
    /\ lost = {} /\ stuck = {}

Present(c) == {e \in Entries : c[e] # "none"}

\* the call returns false: setup() tries the second URL, and then goes on
ReturnFalse ==
    IF url = "poiURL" THEN pc' = "index" /\ url' = "poiURL2"
                      ELSE pc' = "loop" /\ url' = url

-----------------------------------------------------------------------------
(* The index *)

\* mutant: the directory is emptied before the download
EmptiesFirst ==
    /\ pc = "index"
    /\ ReturnFalse
    /\ card' = [e \in Entries |-> "none"]
    /\ UNCHANGED <<size, next, numberOfPoi, ok, seen, atBoot, lost, stuck>>

\* The GET fails, or its body is no JSON.  (In the first case the format string
\* of the message is one that starts httpResponseCode bytes further: where
\* that crashes, this is a Reboot.)
IndexFails ==
    /\ pc = "index"
    /\ ReturnFalse
    /\ UNCHANGED <<card, size, next, numberOfPoi, ok, seen, atBoot, lost, stuck>>

\* mutant: the directory is not emptied after a failed first call
OnlyFirst == IF url = "poiURL" THEN Present(card) ELSE {}

\* The entries that removeDirR goes through
ToRemove == Present(card)

IndexFound ==
    /\ pc = "index"
    /\ seen' = TRUE
    /\ size' \in 0 .. MaxFiles
    /\ next' = ToRemove
    /\ lost' = {}
    /\ pc' = "remove"
    /\ UNCHANGED <<url, card, numberOfPoi, ok, atBoot, stuck>>

-----------------------------------------------------------------------------
(* The directory *)

\* fs.remove(), the result of which is not looked at
Remove(e) ==
    /\ pc = "remove"
    /\ e \in next
    /\ next' = next \ {e}
    /\ \/ card' = [card EXCEPT ![e] = "none"] /\ stuck' = stuck
       \/ card' = card /\ stuck' = stuck \cup {e}
    /\ UNCHANGED <<pc, url, size, numberOfPoi, ok, seen, atBoot, lost>>

\* rmdir() and mkdir(), the results of which change nothing: where there is no
\* directory every write fails.
CreateDir ==
    /\ pc = "remove"
    /\ next = {}
    /\ pc' = "writeIndex"
    /\ UNCHANGED <<url, card, size, next, numberOfPoi, ok, seen, atBoot, lost, stuck>>

\* writeFile(): the file is written; or it is not opened, or cut
Write(e) ==
    \/ card' = [card EXCEPT ![e] = url] /\ lost' = lost
    \/ card' \in {card, [card EXCEPT ![e] = "cut"]} /\ lost' = lost \cup {e}

\* mutant: what is on the card is counted
CountCard == Cardinality(Present(card))

Counted == size

WriteIndex ==
    /\ pc = "writeIndex"
    /\ Write(0)
    /\ numberOfPoi' = Counted
    /\ next' = 1 .. size
    /\ pc' = "files"
    /\ UNCHANGED <<url, size, ok, seen, atBoot, stuck>>

-----------------------------------------------------------------------------
(* The files, in the order of the index *)

\* mutant: a failed GET is skipped
SkipFile == /\ next' = next \ {CHOOSE e \in next : \A f \in next : e <= f}
            /\ pc' = pc /\ url' = url

GiveUp == ReturnFalse /\ next' = {}

FileFails ==
    /\ pc = "files"
    /\ next # {}
    /\ GiveUp
    /\ UNCHANGED <<card, size, numberOfPoi, ok, seen, atBoot, lost, stuck>>

FileFound ==
    /\ pc = "files"
    /\ \E e \in next : /\ \A f \in next : e <= f
                       /\ Write(e)
                       /\ next' = next \ {e}
    /\ UNCHANGED <<pc, url, size, numberOfPoi, ok, seen, atBoot, stuck>>

Done ==
    /\ pc = "files"
    /\ next = {}
    /\ ok' = TRUE
    /\ pc' = "loop"
    /\ UNCHANGED <<url, card, size, next, numberOfPoi, seen, atBoot, lost, stuck>>

-----------------------------------------------------------------------------
\* The power is lost, or the chip restarted, and setup() begins again.  A file
\* that was being written is cut; what is on the card is from an earlier boot.
Reboot ==
    /\ \E cut \in {card} \cup {[card EXCEPT ![e] = "cut"] :
                                  e \in IF pc = "files" THEN next ELSE {}} :
           card' = [e \in Entries |-> IF cut[e] \in Urls THEN "earlier" ELSE cut[e]]
    /\ atBoot' = card'
    /\ pc' = "index" /\ url' = "poiURL"
    /\ size' = 0 /\ next' = {} /\ numberOfPoi' = 0
    /\ ok' = FALSE /\ seen' = FALSE /\ lost' = {}
    /\ UNCHANGED stuck

Update == \/ IndexFails \/ IndexFound
          \/ (\E e \in Entries : Remove(e)) \/ CreateDir
          \/ WriteIndex \/ FileFails \/ FileFound \/ Done

Next == Update \/ Reboot

Spec == Init /\ [][Next]_vars

-----------------------------------------------------------------------------
(* Properties *)

\* "POI download successfully done": every entry of the index is on the card,
\* from the URL of the successful call, but for those whose write failed, and
\* what else is there are entries that could not be removed.
CompleteOrLost ==
    ok => /\ \A e \in 0 .. size : e \notin lost => card[e] = url
          /\ \A e \in Present(card) : e > size => e \in stuck

\* A boot in which neither URL has an index leaves the card as it found it.
KeptWithoutIndex == ~seen => card = atBoot

\* Whatever failed and however often the power went: the directory is never a
\* mixture of two servers', or of two boots', files, unless the card has
\* refused to remove one of them.
NoMixture ==
    stuck = {} => \A e, f \in Entries :
        /\ card[e] \notin {"none", "cut"}
        /\ card[f] \notin {"none", "cut"}
        => card[e] = card[f]

\* numberOfPoi, which the panel publishes, is the length of the index on the
\* card whenever that is of this boot: also when the files could not be
\* downloaded, or the second URL had no index.
CountOfIndex ==
    pc = "loop" /\ card[0] \in Urls /\ stuck = {} => numberOfPoi = size
=============================================================================
