----------------------------- MODULE DeviceLinks -----------------------------
(***************************************************************************)
(* What the session of the bridge looks like from the air: the abstract    *)
(* specification that BleSession implements (SessionImplementsLinks).      *)
(*                                                                         *)
(* The controller does one thing at a time: it scans, or it tries to       *)
(* connect to one device, or it rests.  Each device has at most one link.  *)
(* Work goes on in rounds: a scan starts only once every link has ended or *)
(* its end has been requested, and losing one known device ends them all.  *)
(* Nothing of the lists, the client pool or the two tasks is visible here. *)
(***************************************************************************)
CONSTANTS Devices, NoDevice

VARIABLES
    radio,   \* "scan", "attempt" or "rest"
    trying,  \* the device of the attempt, NoDevice without one and for an
             \* attempt nobody waits for
    link     \* per device "down", "up" or "ending"

linkVars == <<radio, trying, link>>

AllDown == [d \in Devices |-> "down"]

\* every link that is up is asked to end
Ending(links) == [d \in Devices |-> IF links[d] = "up" THEN "ending" ELSE links[d]]

Init ==
    /\ radio = "scan"
    /\ trying = NoDevice
    /\ link = AllDown

ScanEnds ==
    /\ radio = "scan"
    /\ radio' = "rest"
    /\ UNCHANGED <<trying, link>>

\* a scan starts, or a running one starts again; never next to a link
ScanStarts ==
    /\ radio # "attempt"
    /\ \A d \in Devices : link[d] # "up"
    /\ radio' = "scan"
    /\ UNCHANGED <<trying, link>>

\* an attempt ends a running scan
Try(d) ==
    /\ radio # "attempt"
    /\ link[d] = "down"
    /\ radio' = "attempt"
    /\ trying' = d
    /\ UNCHANGED link

Established ==
    /\ radio = "attempt"
    /\ trying # NoDevice
    /\ radio' = "rest"
    /\ trying' = NoDevice
    /\ link' = [link EXCEPT ![trying] = "up"]

\* the bridge gives up waiting; until the attempt ends the radio is busy
Abandon ==
    /\ radio = "attempt"
    /\ trying' = NoDevice
    /\ UNCHANGED <<radio, link>>

AttemptEnds ==
    /\ radio = "attempt"
    /\ radio' = "rest"
    /\ trying' = NoDevice
    /\ UNCHANGED link

\* one link is asked to end, after a failed discovery
EndOne(d) ==
    /\ link[d] = "up"
    /\ link' = [link EXCEPT ![d] = "ending"]
    /\ UNCHANGED <<radio, trying>>

EndAll ==
    /\ link' = Ending(link)
    /\ UNCHANGED <<radio, trying>>

\* a link is gone, and nothing else happens
LinkGone(d) ==
    /\ link[d] # "down"
    /\ link' = [link EXCEPT ![d] = "down"]
    /\ UNCHANGED <<radio, trying>>

\* a link is gone and ends the session: a new round begins with a scan, which
\* is refused while an attempt is in progress
SessionLost(d) ==
    /\ link[d] # "down"
    /\ link' = [Ending(link) EXCEPT ![d] = "down"]
    /\ radio' = IF radio = "attempt" THEN "attempt" ELSE "scan"
    /\ UNCHANGED trying

Restart ==
    /\ radio' = "scan"
    /\ trying' = NoDevice
    /\ link' = AllDown

Next ==
    \/ ScanEnds \/ ScanStarts
    \/ Established \/ Abandon \/ AttemptEnds
    \/ EndAll \/ Restart
    \/ \E d \in Devices : Try(d) \/ EndOne(d) \/ LinkGone(d) \/ SessionLost(d)

Spec == Init /\ [][Next]_linkVars
=============================================================================
