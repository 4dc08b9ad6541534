------------------------------- MODULE MCCalls -------------------------------
(***************************************************************************)
(* Small instances of Calls: three members, one private chat of two of     *)
(* them and one group chat of all three with one manager.                  *)
(***************************************************************************)
EXTENDS Calls, TLC

CONSTANTS m1, m2, m3, pv, gr

MCConvType == pv :> "private" @@ gr :> "group"
MCInitialMembers == pv :> {m1, m2} @@ gr :> Members
MCManagers == pv :> {} @@ gr :> {m2}

CallSymmetry == Permutations(CallIds) \cup Permutations(InviteIds)
=============================================================================
