------------------------- MODULE MCWaylandKeyboard -------------------------
(* Instances of WaylandKeyboard for TLC: two clients, a letter key and a   *)
(* modifier key, two keymaps whose texts differ in length.                 *)
EXTENDS WaylandKeyboard

CONSTANTS a, b, kA, kShift, us, de

\* Shift is a modifier in both keymaps.
MCModKeys == [km \in Keymaps |-> {kShift}]

\* The two keymaps' texts have different lengths.
MCKmLen == [km \in Keymaps |-> IF km = us THEN 3 ELSE 5]

==============================================================================
