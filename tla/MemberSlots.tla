----------------------------- MODULE MemberSlots -----------------------------
(***************************************************************************)
(* What the calls service promises about its users, "one active call per   *)
(* user" (docs/calls-livekit.md:220), without calls, rows or locks: every  *)
(* member has one slot, a slot is free or held for one call, and a member  *)
(* gets into another call only by way of a free slot.                      *)
(***************************************************************************)
CONSTANTS Members, CallIds, Free

VARIABLE occupant     \* occupant[m]: the call m is in or rung by, or Free

Init == occupant = [m \in Members |-> Free]

\* All the members of S get into call c together, or none of them does.
Enter(S, c) ==
  /\ \A m \in S : occupant[m] = Free
  /\ occupant' = [m \in Members |-> IF m \in S THEN c ELSE occupant[m]]

\* The members of S are released from whatever calls they are in.
Release(S) ==
  occupant' = [m \in Members |-> IF m \in S THEN Free ELSE occupant[m]]

Next == \E S \in SUBSET Members : Release(S) \/ \E c \in CallIds : Enter(S, c)

Spec == Init /\ [][Next]_occupant
=============================================================================
