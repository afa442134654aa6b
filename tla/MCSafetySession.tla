--------------------------- MODULE MCSafetySession ---------------------------
(***************************************************************************)
(* SafetySession for TLC: two sessions, so that the curtain thread and the *)
(* flags of one reach into the next; calls of the GUI thread that the      *)
(* operator's clicks may pile up are bounded per product type.             *)
(***************************************************************************)
EXTENDS SafetySession

DepthTwo   == [d \in Devices |-> 2]
DepthBoxes == [d \in Devices |-> IF d = "busway" THEN 1 ELSE 2]

AllFates   == [d \in Devices |-> {"acked", "late", "lost"}]
FatesBoxes == [d \in Devices |-> IF d = "busway" THEN {"acked", "late"} ELSE AllFates[d]]
=============================================================================
