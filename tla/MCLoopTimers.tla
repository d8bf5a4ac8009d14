----------------------------- MODULE MCLoopTimers -----------------------------
(* LoopTimers in units of 2 s: 10 s, 4.8 s and 6.5 s are 5, 2 and 3 units, so *)
(* that, as in the code, the third board comes just before the first one.     *)
EXTENDS LoopTimers

LeadTimes == [k \in Kinds |-> IF k = "bms" THEN 1 ELSE 0]
Offsets == [k \in Kinds |-> IF k = "bms" THEN 2 ELSE 3]
=============================================================================
