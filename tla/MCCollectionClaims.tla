------------------------- MODULE MCCollectionClaims -------------------------
(***************************************************************************)
(* Small instances of CollectionClaims.                                    *)
(***************************************************************************)
EXTENDS CollectionClaims, TLC

CONSTANTS k1, k2

\* Two stale claims and two free members; or one of each, where the member
\* with the stale claim may come back.
MCGiven ==
  {[claims |-> 1 :> k1 @@ 2 :> k2 @@ 3 :> NoOne @@ 4 :> NoOne, queue |-> {3, 4}],
   [claims |-> 1 :> NoOne @@ 2 :> NoOne @@ 3 :> NoOne @@ 4 :> k2, queue |-> {3}]}

ClaimSymmetry == Permutations(Requests) \cup Permutations(Conns)
=============================================================================
