----------------------------- MODULE GhostProofs -----------------------------
(***************************************************************************)
(* Proofs about GhostSweep, for any number of members and any number of    *)
(* misses asked for.                                                       *)
(*                                                                         *)
(* The counts are backed by listings as long as the runs of the sweep do   *)
(* not overlap: the theorems assume that Ticks has one element. The cron   *)
(* job does not see to it. The argument goes once round a run: before a    *)
(* listing no count exceeds the misses; the listing adds one miss to       *)
(* whoever it does not show, so that there is room for one more in his     *)
(* count; judging takes it, and forgets the count of whoever is there;     *)
(* what is left of those who are there and have not been looked up is      *)
(* dropped at the end.                                                     *)
(***************************************************************************)
EXTENDS GhostSweep, TLAPS

\* What is known of the counts at each stage of run t.
Before(t) ==
  tick[t].at \in {"idle", "list"} =>
    /\ tick[t].present = {} /\ tick[t].known = {}
    /\ \A m \in Members : streak[m] <= missing[m]

Listed(t) ==
  tick[t].at \in {"rows", "judge"} =>
    \A m \in Members \ tick[t].present : Count(streak[m]) <= missing[m]

Judged(t) ==
  tick[t].at \in {"clear", "close", "prune"} =>
    /\ \A m \in Members \ tick[t].present : streak[m] <= missing[m]
    /\ \A m \in tick[t].known \cap tick[t].present : streak[m] = 0

Condemned(t) ==
  tick[t].at = "clear" =>
    \A m \in Members \cap tick[t].ghosts : missing[m] >= RequiredMisses

Round(t) == Before(t) /\ Listed(t) /\ Judged(t) /\ Condemned(t)

Inv(t) == TypeOK /\ Round(t)

-----------------------------------------------------------------------------
\* Counting on stays within the bound.
LEMMA CountTyped ==
  \A n \in 0..RequiredMisses :
    Count(n) \in 0..RequiredMisses /\ n <= Count(n)
  BY GhostSweepAssumption DEF Count

\* It is monotone.
LEMMA CountGrows ==
  \A n, k \in 0..RequiredMisses : n <= k => Count(n) <= Count(k)
  BY GhostSweepAssumption DEF Count

\* A timer between two runs is typed.
LEMMA IdleTyped == IdleTick \in Tick
  BY DEF IdleTick, Tick, Stages

\* The first state is typed.
LEMMA InitTyped == Init => TypeOK
<1> SUFFICES ASSUME Init PROVE TypeOK
  OBVIOUS
<1>1. 0 \in 0..RequiredMisses
  BY GhostSweepAssumption
<1> QED
  BY <1>1, IdleTyped DEF Init, TypeOK

\* Each step keeps the types, for any number of overlapping runs.
LEMMA NextTyped == TypeOK /\ [Next]_vars => TypeOK'
<1> SUFFICES ASSUME TypeOK, [Next]_vars PROVE TypeOK'
  OBVIOUS
<1>0. 0 \in 0..RequiredMisses
  BY GhostSweepAssumption
<1>1. CASE UNCHANGED vars
  BY <1>1 DEF vars, TypeOK
<1>2. ASSUME NEW t \in Ticks, Begin(t) PROVE TypeOK'
  BY <1>2 DEF Begin, TypeOK, Tick, Stages, calls, livekit
<1>3. ASSUME NEW t \in Ticks, List(t) PROVE TypeOK'
  <2>1. CASE reachable
    <3>1. /\ tick' = [tick EXCEPT ![t].at = "rows", ![t].present = media]
          /\ missing' = [m \in Members |-> IF m \in media THEN 0 ELSE Count(missing[m])]
      BY <1>3, <2>1 DEF List
    <3>2. missing' \in [Members -> 0..RequiredMisses]
      BY <1>0, <3>1, CountTyped DEF TypeOK
    <3>3. tick' \in [Ticks -> Tick]
      <4> DEFINE listed == [tick[t] EXCEPT !.at = "rows", !.present = media]
      <4>1. tick[t] \in Tick /\ media \subseteq Members
        BY DEF TypeOK
      <4>2. listed \in Tick
        BY <4>1 DEF Tick, Stages
      <4>3. tick' = [tick EXCEPT ![t] = listed]
        BY <3>1
      <4> HIDE DEF listed
      <4> QED
        BY <4>2, <4>3 DEF TypeOK
    <3> QED
      BY <1>3, <3>2, <3>3 DEF List, TypeOK, calls, livekit
  <2>2. CASE ~reachable
    BY <1>3, <2>2 DEF List, TypeOK, Tick, Stages, calls, livekit
  <2> QED
    BY <2>1, <2>2
<1>4. ASSUME NEW t \in Ticks, ReadRows(t) PROVE TypeOK'
  <2> DEFINE read == [tick[t] EXCEPT !.at = "judge", !.known = JoinedRows]
  <2>1. tick[t] \in Tick /\ JoinedRows \subseteq Members
    BY DEF TypeOK, JoinedRows
  <2>2. read \in Tick
    BY <2>1 DEF Tick, Stages
  <2>3. tick' = [tick EXCEPT ![t] = read]
    BY <1>4 DEF ReadRows
  <2> HIDE DEF read
  <2>4. tick' \in [Ticks -> Tick]
    BY <2>2, <2>3 DEF TypeOK
  <2> QED
    BY <1>4, <2>4 DEF ReadRows, TypeOK, calls, livekit
<1>5. ASSUME NEW t \in Ticks, Judge(t) PROVE TypeOK'
  <2> DEFINE counted == [m \in Members |-> IF m \in Absent(t) THEN Count(streak[m])
                                           ELSE IF m \in tick[t].known THEN 0
                                           ELSE streak[m]]
             ghosts == {m \in Absent(t) : counted[m] >= RequiredMisses}
             at == IF ghosts = {} THEN "prune" ELSE "clear"
  <2>1. counted \in [Members -> 0..RequiredMisses]
    BY <1>0, CountTyped DEF TypeOK
  <2>2. ghosts \subseteq Members /\ at \in {"prune", "clear"}
    BY DEF Absent, TypeOK, Tick
  <2>3. streak' = counted /\ tick' = [tick EXCEPT ![t].ghosts = ghosts, ![t].at = at]
    BY <1>5 DEF Judge
  <2> HIDE DEF counted, ghosts, at
  <2>4. tick' \in [Ticks -> Tick]
    <3>1. tick[t] \in Tick
      BY DEF TypeOK
    <3>2. [tick[t] EXCEPT !.ghosts = ghosts, !.at = at] \in Tick
      BY <2>2, <3>1 DEF Tick, Stages
    <3>3. tick' = [tick EXCEPT ![t] = [tick[t] EXCEPT !.ghosts = ghosts, !.at = at]]
      BY <2>3
    <3> QED
      BY <3>2, <3>3 DEF TypeOK
  <2> QED
    BY <1>5, <2>1, <2>3, <2>4 DEF Judge, TypeOK, calls, livekit
<1>6. ASSUME NEW t \in Ticks, Clear(t) PROVE TypeOK'
  <2>1. CASE over
    BY <1>6, <2>1 DEF Clear, TypeOK, Tick, Stages, livekit
  <2>2. CASE ~over
    BY <1>0, <1>6, <2>2 DEF Clear, TypeOK, Tick, Stages, livekit
  <2> QED
    BY <2>1, <2>2
<1>7. ASSUME NEW t \in Ticks, Close(t) PROVE TypeOK'
  BY <1>7 DEF Close, TypeOK, Tick, Stages, calls
<1>8. ASSUME NEW t \in Ticks, Prune(t) PROVE TypeOK'
  BY <1>0, <1>8, IdleTyped DEF Prune, TypeOK, calls, livekit
<1>9. ASSUME NEW m \in Members, Join(m) \/ Leave(m) \/ GraceEnds(m) \/ Connect(m) \/ Drop(m)
      PROVE  TypeOK'
  BY <1>9 DEF Join, Leave, GraceEnds, Connect, Drop, TypeOK, calls, livekit, JoinedRows
<1>10. CASE Reachability
  BY <1>10 DEF Reachability, TypeOK, calls
<1> QED
  BY <1>1, <1>2, <1>3, <1>4, <1>5, <1>6, <1>7, <1>8, <1>9, <1>10 DEF Next, Sweep

-----------------------------------------------------------------------------
\* The first state is one between two runs.
LEMMA InitRound == ASSUME NEW t, Ticks = {t}, Init PROVE Round(t)
<1>1. tick[t] = IdleTick
  BY DEF Init
<1>2. tick[t].at = "idle" /\ tick[t].present = {} /\ tick[t].known = {}
  BY <1>1 DEF IdleTick
<1>3. \A m \in Members : streak[m] = 0 /\ missing[m] = 0
  BY DEF Init
<1> QED
  BY <1>2, <1>3 DEF Round, Before, Listed, Judged, Condemned

\* One lemma for each step of the run.
LEMMA BeginRound == ASSUME NEW t \in Ticks, Inv(t), Begin(t) PROVE Round(t)'
<1>1. /\ tick[t].at = "idle" /\ tick'[t].at \in {"list", "prune"}
      /\ tick'[t].present = tick[t].present /\ tick'[t].known = tick[t].known
      /\ streak' = streak /\ missing' = missing
  BY DEF Begin, Inv, TypeOK, Tick
<1> QED
  BY <1>1 DEF Inv, Round, Before, Listed, Judged, Condemned

\* The participants are listed: whoever is there has his misses reset.
LEMMA ListRound == ASSUME NEW t \in Ticks, Inv(t), List(t) PROVE Round(t)'
<1>0. /\ tick[t].at = "list" /\ tick[t].present = {} /\ tick[t].known = {}
      /\ \A m \in Members : streak[m] <= missing[m]
      /\ streak' = streak
  BY DEF List, Inv, Round, Before
<1>1. CASE reachable
  <2>1. /\ tick'[t].at = "rows" /\ tick'[t].present = media
        /\ \A m \in Members \ media : missing'[m] = Count(missing[m])
    BY <1>1 DEF List, Inv, TypeOK, Tick
  <2>2. \A m \in Members \ media : Count(streak[m]) <= Count(missing[m])
    BY <1>0, CountGrows DEF Inv, TypeOK
  <2> QED
    BY <1>0, <2>1, <2>2 DEF Round, Before, Listed, Judged, Condemned
<1>2. CASE ~reachable
  <2>1. /\ tick'[t].at = "prune" /\ tick'[t].present = {} /\ tick'[t].known = {}
        /\ missing' = missing
    BY <1>0, <1>2 DEF List, Inv, TypeOK, Tick
  <2> QED
    BY <1>0, <2>1 DEF Round, Before, Listed, Judged, Condemned
<1> QED
  BY <1>1, <1>2

\* The rows of the participants are read.
LEMMA ReadRowsRound == ASSUME NEW t \in Ticks, Inv(t), ReadRows(t) PROVE Round(t)'
<1>1. /\ tick[t].at = "rows" /\ tick'[t].at = "judge"
      /\ tick'[t].present = tick[t].present
      /\ streak' = streak /\ missing' = missing
  BY DEF ReadRows, Inv, TypeOK, Tick
<1> QED
  BY <1>1 DEF Inv, Round, Before, Listed, Judged, Condemned

\* The misses are counted and the ghosts picked.
LEMMA JudgeRound == ASSUME NEW t \in Ticks, Inv(t), Judge(t) PROVE Round(t)'
<1> DEFINE counted == [m \in Members |-> IF m \in Absent(t) THEN Count(streak[m])
                                         ELSE IF m \in tick[t].known THEN 0
                                         ELSE streak[m]]
           ghosts == {m \in Absent(t) : counted[m] >= RequiredMisses}
           at == IF ghosts = {} THEN "prune" ELSE "clear"
<1>1. /\ tick[t].at = "judge" /\ streak' = counted /\ missing' = missing
      /\ tick' = [tick EXCEPT ![t].ghosts = ghosts, ![t].at = at]
  BY DEF Judge
<1>2. at \in {"prune", "clear"}
  OBVIOUS
<1>3. /\ tick'[t].at = at /\ tick'[t].ghosts = ghosts
      /\ tick'[t].present = tick[t].present /\ tick'[t].known = tick[t].known
  BY <1>1 DEF Inv, TypeOK, Tick
<1>4. \A m \in Members \ tick[t].present : counted[m] <= missing[m]
  <2> SUFFICES ASSUME NEW m \in Members \ tick[t].present PROVE counted[m] <= missing[m]
    OBVIOUS
  <2>1. Count(streak[m]) <= missing[m]
    BY <1>1 DEF Inv, Round, Listed
  <2>2. /\ streak[m] \in 0..RequiredMisses /\ missing[m] \in 0..RequiredMisses
        /\ Count(streak[m]) \in 0..RequiredMisses /\ streak[m] <= Count(streak[m])
    BY CountTyped DEF Inv, TypeOK
  <2> QED
    BY <2>1, <2>2, GhostSweepAssumption
<1>5. \A m \in tick[t].known \cap tick[t].present : counted[m] = 0
  <2>1. tick[t].known \subseteq Members
    BY DEF Inv, TypeOK, Tick
  <2> QED
    BY <2>1 DEF Absent
<1>6. \A m \in Members \cap ghosts : missing[m] >= RequiredMisses
  <2> SUFFICES ASSUME NEW m \in Members, m \in ghosts PROVE missing[m] >= RequiredMisses
    OBVIOUS
  <2>1. m \notin tick[t].present /\ counted[m] >= RequiredMisses
    BY DEF Absent
  <2>2. counted[m] <= missing[m]
    BY <1>4, <2>1
  <2>3. counted[m] \in 0..RequiredMisses
    BY CountTyped, GhostSweepAssumption DEF Inv, TypeOK
  <2>4. missing[m] \in 0..RequiredMisses
    BY DEF Inv, TypeOK
  <2> HIDE DEF counted
  <2> QED
    BY <2>1, <2>2, <2>3, <2>4, GhostSweepAssumption
<1> HIDE DEF counted, ghosts, at
<1> QED
  BY <1>1, <1>2, <1>3, <1>4, <1>5, <1>6 DEF Round, Before, Listed, Judged, Condemned

\* The ghosts are cleared, unless the call is over.
LEMMA ClearRound == ASSUME NEW t \in Ticks, Inv(t), Clear(t) PROVE Round(t)'
<1>1. /\ tick[t].at = "clear" /\ tick'[t].at \in {"close", "prune"}
      /\ tick'[t].present = tick[t].present /\ tick'[t].known = tick[t].known
      /\ missing' = missing
  BY DEF Clear, Inv, TypeOK, Tick
<1>2. tick[t].known \subseteq Members
  BY DEF Inv, TypeOK, Tick
<1>3. \A m \in Members : streak'[m] \in {0, streak[m]}
  BY DEF Clear, Inv, TypeOK
<1>4. \A m \in Members : 0 <= missing[m]
  BY GhostSweepAssumption DEF Inv, TypeOK
<1> QED
  BY <1>1, <1>2, <1>3, <1>4 DEF Inv, Round, Before, Listed, Judged, Condemned

\* The call without participants is closed.
LEMMA CloseRound == ASSUME NEW t \in Ticks, Inv(t), Close(t) PROVE Round(t)'
<1>1. /\ tick[t].at = "close" /\ tick'[t].at = "prune"
      /\ tick'[t].present = tick[t].present /\ tick'[t].known = tick[t].known
      /\ streak' = streak /\ missing' = missing
  BY DEF Close, Inv, TypeOK, Tick
<1> QED
  BY <1>1 DEF Inv, Round, Before, Listed, Judged, Condemned

\* The streaks of those who were not among the rows are forgotten.
LEMMA PruneRound == ASSUME NEW t \in Ticks, Inv(t), Prune(t) PROVE Round(t)'
<1>1. /\ tick[t].at = "prune" /\ tick'[t] = IdleTick /\ missing' = missing
      /\ streak' = [m \in Members |-> IF m \in tick[t].known THEN streak[m] ELSE 0]
  BY DEF Prune, Inv, TypeOK
<1>2. \A m \in Members : 0 <= missing[m]
  BY GhostSweepAssumption DEF Inv, TypeOK
<1>3. ASSUME NEW m \in Members PROVE streak'[m] <= missing[m]
  <2>1. CASE m \notin tick[t].known
    BY <1>1, <1>2, <2>1
  <2>2. CASE m \in tick[t].known /\ m \in tick[t].present
    BY <1>1, <1>2, <2>2 DEF Inv, Round, Judged
  <2>3. CASE m \in tick[t].known /\ m \notin tick[t].present
    BY <1>1, <2>3 DEF Inv, Round, Judged
  <2> QED
    BY <2>1, <2>2, <2>3
<1> QED
  BY <1>1, <1>3 DEF Round, Before, Listed, Judged, Condemned, IdleTick

\* Everything else leaves the counts and the run alone.
LEMMA Round1 ==
  ASSUME NEW t, Ticks = {t}, Inv(t), [Next]_vars PROVE Round(t)'
<1>0. t \in Ticks /\ \A s \in Ticks : s = t
  OBVIOUS
<1>1. CASE UNCHANGED <<streak, tick, missing>>
  BY <1>1 DEF Inv, Round, Before, Listed, Judged, Condemned
<1>2. CASE Sweep(t)
  BY <1>0, <1>2, BeginRound, ListRound, ReadRowsRound, JudgeRound, ClearRound,
     CloseRound, PruneRound DEF Sweep
<1>3. ASSUME NEW m \in Members, Join(m) \/ Leave(m) \/ GraceEnds(m) \/ Connect(m) \/ Drop(m)
      PROVE  UNCHANGED <<streak, tick, missing>>
  BY <1>3 DEF Join, Leave, GraceEnds, Connect, Drop
<1>4. Reachability => UNCHANGED <<streak, tick, missing>>
  BY DEF Reachability
<1>5. UNCHANGED vars => UNCHANGED <<streak, tick, missing>>
  BY DEF vars
<1> QED
  BY <1>0, <1>1, <1>2, <1>3, <1>4, <1>5 DEF Next

\* The invariant holds at the start.
LEMMA InvInit == ASSUME NEW t, Ticks = {t}, Init PROVE Inv(t)
  BY InitTyped, InitRound DEF Inv

\* Every step keeps the invariant.
LEMMA InvNext == ASSUME NEW t, Ticks = {t}, Inv(t), [Next]_vars PROVE Inv(t)'
  BY NextTyped, Round1 DEF Inv

\* Whoever has not been seen by the present run has his count backed.
LEMMA InvBacks == ASSUME NEW t, Ticks = {t}, Inv(t) PROVE StreakIsBacked
<1> SUFFICES ASSUME NEW m \in Members, m \notin tick[t].present
             PROVE  streak[m] <= missing[m]
  BY GhostSweepAssumption DEF StreakIsBacked, Inv, TypeOK
<1>1. t \in Ticks /\ tick[t].at \in Stages
  BY DEF Inv, TypeOK, Tick
<1>2. CASE tick[t].at \in {"idle", "list"}
  BY <1>2 DEF Inv, Round, Before
<1>3. CASE tick[t].at \in {"rows", "judge"}
  <2>1. Count(streak[m]) <= missing[m]
    BY <1>3 DEF Inv, Round, Listed
  <2>2. /\ streak[m] \in 0..RequiredMisses /\ missing[m] \in 0..RequiredMisses
        /\ Count(streak[m]) \in 0..RequiredMisses /\ streak[m] <= Count(streak[m])
    BY CountTyped DEF Inv, TypeOK
  <2> QED
    BY <2>1, <2>2, GhostSweepAssumption
<1>4. CASE tick[t].at \in {"clear", "close", "prune"}
  BY <1>4 DEF Inv, Round, Judged
<1> QED
  BY <1>1, <1>2, <1>3, <1>4 DEF Stages

-----------------------------------------------------------------------------
\* Every variable keeps its type, however many runs of the sweep overlap.
THEOREM GhostsTyped == Spec => []TypeOK
  BY InitTyped, NextTyped, PTL DEF Spec

\* While runs do not overlap, a count never says more than the listings of
\* the room did (ghostMissStreak).
THEOREM StreaksBacked == ASSUME NEW t, Ticks = {t} PROVE Spec => []StreakIsBacked
<1>1. Init => Inv(t)
  BY InvInit
<1>2. Inv(t) /\ [Next]_vars => Inv(t)'
  BY InvNext
<1>3. Inv(t) => StreakIsBacked
  BY InvBacks
<1> QED
  BY <1>1, <1>2, <1>3, PTL DEF Spec

\* While runs do not overlap, whoever the sweep marks as left has been missing
\* from the last RequiredMisses listings (reconcileGhostParticipants).
THEOREM RemovedOnlyAfterMisses ==
  ASSUME NEW one, Ticks = {one} PROVE Spec => RemovedAfterMisses
<1>1. Init => Inv(one)
  BY InvInit
<1>2. Inv(one) /\ [Next]_vars => Inv(one)'
  BY InvNext
<1>3. Inv(one) /\ [Next]_vars
        => [\A t \in Ticks : \A m \in Members :
              Clear(t) /\ row[m] = "joined" /\ row'[m] = "left"
              => missing[m] >= RequiredMisses]_vars
  <2> SUFFICES ASSUME Inv(one), NEW t \in Ticks, NEW m \in Members,
                      Clear(t), row[m] = "joined", row'[m] = "left"
               PROVE  missing[m] >= RequiredMisses
    OBVIOUS
  <2>1. t = one
    OBVIOUS
  <2>2. tick[one].at = "clear" /\ m \in tick[one].ghosts
    BY <2>1 DEF Clear, Inv, TypeOK
  <2> QED
    BY <2>2 DEF Inv, Round, Condemned
<1> QED
  BY <1>1, <1>2, <1>3, PTL DEF Spec, RemovedAfterMisses
=============================================================================
