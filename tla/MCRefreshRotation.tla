-------------------------- MODULE MCRefreshRotation --------------------------
(***************************************************************************)
(* Small instances of RefreshRotation.                                     *)
(***************************************************************************)
EXTENDS RefreshRotation, TLC

CONSTANTS s1, s2

\* One process that keeps everything in its memory, or shares it through Redis.
MCDeployments == {[redis |-> FALSE, at |-> {s1}], [redis |-> TRUE, at |-> {s1}]}
MCRedis == {[redis |-> TRUE, at |-> {s1}]}

SessionSymmetry == Permutations(Requests)
=============================================================================
