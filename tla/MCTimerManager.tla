--------------------------- MODULE MCTimerManager ---------------------------
(***************************************************************************)
(* TimerManager on the smallest wheel init accepts (slot_bits = 3: 8 slots,*)
(* longest interval 64), with delays on both sides of every boundary.      *)
(***************************************************************************)
EXTENDS TimerManager
=============================================================================
