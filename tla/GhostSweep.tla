----------------------------- MODULE GhostSweep -----------------------------
(***************************************************************************)
(* The ghost sweep of src/services/callsService.ts for one call: every     *)
(* fifteen seconds reconcileGhostParticipants compares the participants    *)
(* the database calls joined with those LiveKit lists, counts how often    *)
(* each one was missing (ghostMissStreak, in the memory of the process)    *)
(* and marks as left whoever was missing often enough.                     *)
(*                                                                         *)
(* The cron job does not wait for its previous run, so several runs may be *)
(* under way (Ticks); between two awaits of a run anything else may happen. *)
(***************************************************************************)
EXTENDS Naturals

CONSTANTS
  Members,
  Host,             \* the initiator
  Ticks,            \* runs of the cron job that may overlap
  RequiredMisses    \* ghost_miss_ticks

ASSUME GhostSweepAssumption ==
  /\ Host \in Members
  /\ RequiredMisses \in Nat \ {0, 1}      \* clamped to 2..8

VARIABLES
  row,        \* row[m]: m's status in call_participants
  recent,     \* recent[m]: joined_at is less than ghost_grace_sec old
  over,       \* the call has ended
  media,      \* the members connected to the LiveKit room
  reachable,  \* the Room Service answers the api
  streak,     \* ghostMissStreak; 0 stands for no entry
  tick,       \* what each run of the sweep is about to do, and has read
  missing     \* history: how many listings in a row have not shown m

vars == <<row, recent, over, media, reachable, streak, tick, missing>>
calls == <<row, recent, over>>
livekit == <<media, reachable>>

Stages == {"idle", "list", "rows", "judge", "clear", "close", "prune"}

\* identities, the joined rows (seenKeys), the ghosts.
Tick == [at : Stages, present : SUBSET Members, known : SUBSET Members,
         ghosts : SUBSET Members]

IdleTick == [at |-> "idle", present |-> {}, known |-> {}, ghosts |-> {}]

TypeOK ==
  /\ row \in [Members -> {"none", "joined", "left"}]
  /\ recent \in [Members -> BOOLEAN]
  /\ over \in BOOLEAN
  /\ media \subseteq Members
  /\ reachable \in BOOLEAN
  /\ streak \in [Members -> 0..RequiredMisses]
  /\ tick \in [Ticks -> Tick]
  /\ missing \in [Members -> 0..RequiredMisses]

\* A conference its host has just created.
Init ==
  /\ row = [m \in Members |-> IF m = Host THEN "joined" ELSE "none"]
  /\ recent = [m \in Members |-> m = Host]
  /\ over = FALSE
  /\ media = {}
  /\ reachable = TRUE
  /\ streak = [m \in Members |-> 0]
  /\ tick = [t \in Ticks |-> IdleTick]
  /\ missing = [m \in Members |-> 0]

JoinedRows == {m \in Members : row[m] = "joined"}

\* Bound: no count goes beyond RequiredMisses, which is all that is asked.
Count(n) == IF n < RequiredMisses THEN n + 1 ELSE n

-----------------------------------------------------------------------------
(* A run of the sweep, from one await to the next *)

\* The calls to look at: on, with somebody joined.
Begin(t) ==
  /\ tick[t].at = "idle"
  /\ tick' = [tick EXCEPT ![t].at =
       IF ~over /\ JoinedRows # {} THEN "list" ELSE "prune"]
  /\ UNCHANGED <<calls, livekit, streak, missing>>

\* listLiveKitParticipantIdentities: a room that is not found lists nobody, a
\* service that cannot be reached ends the run for this call.
List(t) ==
  /\ tick[t].at = "list"
  /\ IF reachable
     THEN /\ tick' = [tick EXCEPT ![t].at = "rows", ![t].present = media]
          /\ missing' = [m \in Members |-> IF m \in media THEN 0
                                           ELSE Count(missing[m])]
     ELSE /\ tick' = [tick EXCEPT ![t].at = "prune"]
          /\ UNCHANGED missing
  /\ UNCHANGED <<calls, livekit, streak>>

ReadRows(t) ==
  /\ tick[t].at = "rows"
  /\ tick' = [tick EXCEPT ![t].at = "judge", ![t].known = JoinedRows]
  /\ UNCHANGED <<calls, livekit, streak, missing>>

\* Missing, and not within the grace period.
Absent(t) == {m \in tick[t].known \ tick[t].present : ~recent[m]}

\* Mutant: one miss too few.
JudgeEarly(t) ==
  LET counted == [m \in Members |-> IF m \in Absent(t) THEN Count(streak[m])
                                    ELSE IF m \in tick[t].known THEN 0
                                    ELSE streak[m]]
      ghosts == {m \in Absent(t) : counted[m] >= RequiredMisses - 1}
  IN
  /\ tick[t].at = "judge"
  /\ streak' = counted
  /\ tick' = [tick EXCEPT ![t].ghosts = ghosts,
                          ![t].at = IF ghosts = {} THEN "prune" ELSE "clear"]
  /\ UNCHANGED <<calls, livekit, missing>>

\* Mutant: whoever is there pays one miss back.
JudgePaysBack(t) ==
  LET counted == [m \in Members |-> IF m \in Absent(t) THEN Count(streak[m])
                                    ELSE IF m \in tick[t].known THEN streak[m] - 1
                                    ELSE streak[m]]
      ghosts == {m \in Absent(t) : counted[m] >= RequiredMisses}
  IN
  /\ tick[t].at = "judge"
  /\ streak' = counted
  /\ tick' = [tick EXCEPT ![t].ghosts = ghosts,
                          ![t].at = IF ghosts = {} THEN "prune" ELSE "clear"]
  /\ UNCHANGED <<calls, livekit, missing>>

\* Count, or forget the count of those who are there or have just come.  (The
\* second look of the code at an empty room finds nobody the first has not.)
Judge(t) ==
  LET counted == [m \in Members |-> IF m \in Absent(t) THEN Count(streak[m])
                                    ELSE IF m \in tick[t].known THEN 0
                                    ELSE streak[m]]
      ghosts == {m \in Absent(t) : counted[m] >= RequiredMisses}
  IN
  /\ tick[t].at = "judge"
  /\ streak' = counted
  /\ tick' = [tick EXCEPT ![t].ghosts = ghosts,
                          ![t].at = IF ghosts = {} THEN "prune" ELSE "clear"]
  /\ UNCHANGED <<calls, livekit, missing>>

\* The transaction: the call must still be on, the rows still joined.
Clear(t) ==
  LET G == tick[t].ghosts IN
  /\ tick[t].at = "clear"
  /\ IF over
     THEN /\ tick' = [tick EXCEPT ![t].at = "prune"]
          /\ UNCHANGED <<row, over, streak>>
     ELSE /\ row' = [m \in Members |-> IF m \in G /\ row[m] = "joined"
                                       THEN "left" ELSE row[m]]
          /\ streak' = [m \in Members |-> IF m \in G THEN 0 ELSE streak[m]]
          /\ over' = (JoinedRows \subseteq G)
          /\ tick' = [tick EXCEPT ![t].at = IF JoinedRows \subseteq G
                                            THEN "close" ELSE "prune"]
  /\ UNCHANGED <<recent, livekit, missing>>

\* endLiveKitRoom, if it can be reached.
Close(t) ==
  /\ tick[t].at = "close"
  /\ tick' = [tick EXCEPT ![t].at = "prune"]
  /\ media' = IF reachable THEN {} ELSE media
  /\ UNCHANGED <<calls, reachable, streak, missing>>

\* Mutant: the counts this run has seen are dropped, not the others.
PruneSeen(t) ==
  /\ tick[t].at = "prune"
  /\ streak' = [m \in Members |-> IF m \in tick[t].known THEN 0 ELSE streak[m]]
  /\ tick' = [tick EXCEPT ![t] = IdleTick]
  /\ UNCHANGED <<calls, livekit, missing>>

\* Mutant: counts are never dropped.
PruneNothing(t) ==
  /\ tick[t].at = "prune"
  /\ tick' = [tick EXCEPT ![t] = IdleTick]
  /\ UNCHANGED <<calls, livekit, streak, missing>>

\* "Drop stale streak keys": all that this run has not looked up.
Prune(t) ==
  /\ tick[t].at = "prune"
  /\ streak' = [m \in Members |-> IF m \in tick[t].known THEN streak[m] ELSE 0]
  /\ tick' = [tick EXCEPT ![t] = IdleTick]
  /\ UNCHANGED <<calls, livekit, missing>>

Sweep(t) == Begin(t) \/ List(t) \/ ReadRows(t) \/ Judge(t) \/ Clear(t)
            \/ Close(t) \/ Prune(t)

-----------------------------------------------------------------------------
(* The participants and LiveKit *)

\* issueCallToken and joinViaInvitation: joined_at = COALESCE(joined_at, NOW()).
Join(m) ==
  /\ ~over
  /\ row[m] # "joined"
  /\ row' = [row EXCEPT ![m] = "joined"]
  /\ recent' = [recent EXCEPT ![m] = @ \/ row[m] = "none"]
  /\ UNCHANGED <<over, livekit, streak, tick, missing>>

\* endCall of one participant; the last one ends the call.
Leave(m) ==
  /\ ~over
  /\ row[m] = "joined"
  /\ row' = [row EXCEPT ![m] = "left"]
  /\ over' = (JoinedRows = {m})
  /\ UNCHANGED <<recent, livekit, streak, tick, missing>>

\* ghost_grace_sec go by.
GraceEnds(m) ==
  /\ recent[m]
  /\ recent' = [recent EXCEPT ![m] = FALSE]
  /\ UNCHANGED <<row, over, livekit, streak, tick, missing>>

\* A client connects with the token it has, which nothing revokes; LiveKit
\* creates the room again if it is gone, so it is not modelled apart.
Connect(m) ==
  /\ row[m] # "none"
  /\ m \notin media
  /\ media' = media \cup {m}
  /\ UNCHANGED <<calls, reachable, streak, tick, missing>>

\* A tab is closed, a network fails, the api removes the participant.
Drop(m) ==
  /\ m \in media
  /\ media' = media \ {m}
  /\ UNCHANGED <<calls, reachable, streak, tick, missing>>

\* The Room Service fails, or answers again.
Reachability ==
  /\ reachable' = ~reachable
  /\ UNCHANGED <<calls, media, streak, tick, missing>>

Next ==
  \/ \E t \in Ticks : Sweep(t)
  \/ \E m \in Members :
       Join(m) \/ Leave(m) \/ GraceEnds(m) \/ Connect(m) \/ Drop(m)
  \/ Reachability

Spec == Init /\ [][Next]_vars

\* The cron job goes on, its runs proceed, time passes; the clients and
\* LiveKit owe nothing.
FairSpec ==
  /\ Spec
  /\ \A t \in Ticks : WF_vars(Sweep(t))
  /\ \A m \in Members : WF_vars(GraceEnds(m))

-----------------------------------------------------------------------------
(* Properties *)

\* "Require several consecutive misses so ICE blips don't kill meetings"
\* (callsService.ts:1910): whoever the sweep marks as left has been missing
\* from the last RequiredMisses listings of the room, without a listing in
\* between that showed him.
RemovedAfterMisses ==
  [][\A t \in Ticks : \A m \in Members :
       Clear(t) /\ row[m] = "joined" /\ row'[m] = "left"
       => missing[m] >= RequiredMisses]_vars

\* A count never says more than the listings did, however members leave and
\* return between the runs: it is at most the number of listings in a row
\* that did not show the member, unless the present run has just seen him.
StreakIsBacked ==
  \A m \in Members : streak[m] > missing[m] =>
    \E t \in Ticks : m \in tick[t].present

\* A closed tab does not keep its user busy for ever: whoever is missing from
\* LiveKit for good, while the Room Service can be reached, is not joined for
\* ever.  docs/calls-livekit.md:221.
GhostsCleared ==
  \A m \in Members :
    <>[](reachable /\ m \notin media) => []<>(over \/ row[m] # "joined")

\* The process does not keep counts of a call that is over.
StreaksForgotten == over ~> \A m \in Members : streak[m] = 0

=============================================================================
