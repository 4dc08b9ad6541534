----------------------------- MODULE MCCallSlots -----------------------------
(***************************************************************************)
(* Small instances of CallSlots.                                           *)
(***************************************************************************)
EXTENDS CallSlots, TLC

SlotSymmetry == Permutations(CallIds) \cup Permutations(Requests)
=============================================================================
