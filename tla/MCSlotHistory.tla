----------------------------- MODULE MCSlotHistory -----------------------------
(***************************************************************************)
(* Instances of SlotHistory for TLC, with the commands of MCMessageSlots.  *)
(***************************************************************************)
EXTENDS MCMessageSlots, SlotHistory
=============================================================================
