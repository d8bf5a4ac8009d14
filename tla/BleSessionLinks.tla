--------------------------- MODULE BleSessionLinks ---------------------------
(***************************************************************************)
(* BleSession seen as DeviceLinks: the refinement mapping.  The state of a *)
(* device's link is that of the client connected to it, and the attempt is *)
(* the one the loop task waits for in connect(), or, once it has given up  *)
(* waiting, one to no device.                                              *)
(***************************************************************************)
EXTENDS BleSession

LinkedIn(pool, p, states) ==
    \E s \in Clients : pool[s].peer = p /\ pool[s].state \in states

LinksOf(pool) ==
    [p \in Peers |-> IF LinkedIn(pool, p, {"up"}) THEN "up"
                     ELSE IF LinkedIn(pool, p, {"term"}) THEN "ending"
                     ELSE "down"]

Radio == CASE gap = "scan" -> "scan"
           [] gap \in {"conn", "cancel"} -> "attempt"
           [] OTHER        -> "rest"

Trying == IF gap = "conn" THEN loop.target ELSE NoPeer

Links == INSTANCE DeviceLinks WITH
             Devices <- Peers, NoDevice <- NoPeer,
             radio <- Radio, trying <- Trying, link <- LinksOf(client)

\* Whatever the two tasks interleave, a device has one link at most, an
\* attempt is made to a device without a link only, links end and scans
\* start in the rounds of DeviceLinks: connectToServer, onDisconnect and the
\* rescans of loop() never get in each other's way on the air.
ImplementsDeviceLinks == Links!Spec
=============================================================================
