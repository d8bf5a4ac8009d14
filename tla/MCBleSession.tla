----------------------------- MODULE MCBleSession -----------------------------
(* BleSession on small sets of devices, which are interchangeable. *)
EXTENDS BleSessionLinks, TLC

Symmetry == Permutations(BMS) \cup Permutations(Thermos)
=============================================================================
