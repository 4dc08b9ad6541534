---------------------------- MODULE SessionChain ----------------------------
(***************************************************************************)
(* What a refresh token promises, without requests, locks or copies: a     *)
(* token is alive until it is exchanged for exactly one successor or ended *)
(* (sign-out, a new password, expiry, too many devices, a failure), and it *)
(* never comes back.  src/services/authService.ts:1645 says of parallel    *)
(* refreshes with one cookie: one computation, a common result.            *)
(***************************************************************************)
EXTENDS Naturals

CONSTANTS MaxTokens, NoToken

VARIABLES
  alive,   \* the tokens that still stand for a session
  next,    \* next[t]: what t was exchanged for, NoToken if it was not
  issued   \* tokens are numbered in the order they were issued

vars == <<alive, next, issued>>

Tokens == 1..MaxTokens

Init ==
  /\ alive = {1}
  /\ next = [t \in Tokens |-> NoToken]
  /\ issued = 1

Open ==
  /\ issued < MaxTokens
  /\ issued' = issued + 1
  /\ alive' = alive \cup {issued'}
  /\ UNCHANGED next

Exchange(t) ==
  /\ t \in alive
  /\ next[t] = NoToken
  /\ issued < MaxTokens
  /\ issued' = issued + 1
  /\ next' = [next EXCEPT ![t] = issued']
  /\ alive' = (alive \ {t}) \cup {issued'}

End(S) ==
  /\ alive' = alive \ S
  /\ UNCHANGED <<next, issued>>

Next ==
  \/ Open
  \/ \E t \in Tokens : Exchange(t)
  \/ \E S \in SUBSET alive : End(S)

Spec == Init /\ [][Next]_vars
=============================================================================
