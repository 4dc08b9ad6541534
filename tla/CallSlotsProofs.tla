--------------------------- MODULE CallSlotsProofs ---------------------------
(***************************************************************************)
(* Why the locks of module CallSlots are enough, for every number of       *)
(* members, calls, concurrent requests and connections: a transaction      *)
(* still finds true at its commit what it has read, and so no member gets  *)
(* into two live calls.                                                    *)
(***************************************************************************)
EXTENDS CallSlots, FiniteSetTheorems, TLAPS

Bound(m, c) == Live(c) /\ m \in In(c)

Binding == {"direct", "group", "accept", "token", "join"}

\* m cannot be put into another call: r has his lock and has looked.
Secured(r, m) == slotLock[m] = r /\ MemberFree(m, job[r].c)

\* What a request asks for.
AskOK(r) ==
  LET j == job[r] IN
  IF stage[r] = "idle" THEN j = NoJob
  ELSE /\ j.kind \in Kinds
       /\ j.m \in Members
       /\ j.c \in CallIds
       /\ j.kind = "direct" => j.n \in Members

\* Which handlers come to which stage.
StageOK(r) ==
  LET k == job[r].kind IN
  /\ stage[r] = "row" => k \notin Creates
  /\ stage[r] = "slot" => k \in Binding
  /\ stage[r] = "slot2" => k = "direct"
  /\ stage[r] = "borrow" => k \in {"token", "join", "leave"}

\* The id of a call that is being created is nobody else's.
FreshOK(r) ==
  job[r].kind \in Creates =>
    /\ call[job[r].c].status = "unused"
    /\ \A s \in Requests \ {r} : job[s].kind \in Creates => job[s].c # job[r].c

\* The others hold the row of their call from the stage "row" on.
RowOK(r) ==
  stage[r] \in {"slot", "slot2", "borrow", "commit"}
  /\ job[r].kind \notin Creates
  => rowLock[job[r].c] = r /\ Live(job[r].c)

\* What has been secured at each stage.
SlotOK(r) ==
  LET j == job[r] IN
  /\ stage[r] = "slot2" => slotLock[SlotOrder(j)[1]] = r
  /\ stage[r] = "borrow" /\ j.kind = "token" =>
       Secured(r, j.m) \/ row[j.c][j.m] = "in"
  /\ stage[r] = "commit" =>
       /\ j.kind \in {"direct", "group", "accept"} => Secured(r, j.m)
       /\ j.kind = "direct" => Secured(r, j.n)
       /\ j.kind \in {"token", "join"} =>
            Secured(r, j.m) \/ row[j.c][j.m] = "in"

ReqOK(r) == AskOK(r) /\ StageOK(r) /\ FreshOK(r) /\ RowOK(r) /\ SlotOK(r)

\* Who holds a lock still needs it.
HolderOK ==
  /\ \A c \in CallIds : rowLock[c] # NoReq =>
       /\ job[rowLock[c]].c = c
       /\ job[rowLock[c]].kind \notin Creates
       /\ stage[rowLock[c]] \in {"slot", "borrow", "commit"}
  /\ \A m \in Members : slotLock[m] # NoReq =>
       /\ m \in {job[slotLock[m]].m, job[slotLock[m]].n}
       /\ stage[slotLock[m]] \in {"slot2", "borrow", "commit"}
       /\ stage[slotLock[m]] = "borrow" => job[slotLock[m]].kind = "token"

UnusedOK == \A c \in CallIds : call[c].status = "unused" => In(c) = {}

(***************************************************************************)
(* The invariant.  NoDoubleBooking needs to know that the members a        *)
(* transaction binds are free at its commit; that lasts from the moment    *)
(* they were looked for because binding them takes their lock, and the     *)
(* call's own row lasts because writing it takes the row's lock.           *)
(***************************************************************************)
SlotInv ==
  /\ TypeOK
  /\ \A r \in Requests : ReqOK(r)
  /\ HolderOK
  /\ UnusedOK
  /\ NoDoubleBooking

\* The invariant gives what the runs check.
LEMMA SlotInvGives ==
  SlotInv => LocksAreJustified /\ CommitsWhatItRead /\ NoDoubleBooking
<1> SUFFICES ASSUME SlotInv
             PROVE  LocksAreJustified /\ CommitsWhatItRead /\ NoDoubleBooking
  OBVIOUS
<1>1. LocksAreJustified
  BY DEF SlotInv, LocksAreJustified, HolderOK, ReqOK, SlotOK, Secured
<1>2. ASSUME NEW r \in Requests, stage[r] = "commit"
      PROVE  LET j == job[r] IN
             /\ j.kind \notin Creates => Live(j.c)
             /\ j.kind \notin {"leave", "miss", "ghost"} => MemberFree(j.m, j.c)
             /\ j.kind = "direct" => MemberFree(j.n, j.c)
  <2>1. ReqOK(r)
    BY DEF SlotInv
  <2>2. /\ job[r].kind \in Kinds
        /\ job[r].m \in Members
        /\ job[r].c \in CallIds
        /\ job[r].kind \notin Creates => Live(job[r].c)
    BY <1>2, <2>1 DEF ReqOK, AskOK, RowOK
  <2>3. row[job[r].c][job[r].m] = "in" /\ Live(job[r].c)
        => MemberFree(job[r].m, job[r].c)
    BY <2>2 DEF SlotInv, NoDoubleBooking, MemberFree, In
  <2>4. QED
    BY <1>2, <2>1, <2>2, <2>3 DEF ReqOK, SlotOK, Secured, Kinds, Creates
<1>3. QED
  BY <1>1, <1>2 DEF CommitsWhatItRead, SlotInv

-----------------------------------------------------------------------------

\* A step of r leaves the other requests, and the locks they hold, alone.
OthersLeftAlone(r) ==
  \A s \in Requests \ {r} :
    /\ job'[s] = job[s]
    /\ stage'[s] = stage[s]
    /\ \A c \in CallIds : rowLock[c] = s => rowLock'[c] = s
    /\ \A m \in Members : slotLock[m] = s => slotLock'[m] = s
    /\ job'[r].kind \in Creates /\ job[s].kind \in Creates =>
         job'[r].c # job[s].c

\* A step that commits nothing keeps what the others rely on.
LEMMA OthersKept ==
  ASSUME SlotInv, NEW r \in Requests, OthersLeftAlone(r), UNCHANGED rows,
         NEW s \in Requests \ {r}
  PROVE  ReqOK(s)'
<1>1. ReqOK(s)
  BY DEF SlotInv
<1>2. /\ job'[s] = job[s]
      /\ stage'[s] = stage[s]
      /\ \A c \in CallIds : rowLock[c] = s => rowLock'[c] = s
      /\ \A m \in Members : slotLock[m] = s => slotLock'[m] = s
  BY DEF OthersLeftAlone
<1>3. call' = call /\ row' = row
  BY DEF rows
<1>4. AskOK(s)' /\ StageOK(s)'
  BY <1>1, <1>2 DEF ReqOK, AskOK, StageOK
<1>5. FreshOK(s)'
  BY <1>1, <1>2, <1>3 DEF ReqOK, FreshOK, OthersLeftAlone
<1>6. \A c \in CallIds : Live(c)' = Live(c)
  BY <1>3 DEF Live
<1>7. \A m \in Members : Secured(s, m) => Secured(s, m)'
  BY <1>2, <1>3 DEF Secured, MemberFree, Live, In
<1>8. stage[s] # "idle" => job[s].c \in CallIds /\ job[s].m \in Members
  BY <1>1 DEF ReqOK, AskOK
<1>9. RowOK(s)'
  BY <1>1, <1>2, <1>6, <1>8 DEF ReqOK, RowOK
<1>10. SlotOK(s)'
  <2>1. stage[s] = "slot2" => SlotOrder(job[s])[1] \in Members
    BY <1>1, <1>8 DEF ReqOK, StageOK, AskOK, SlotOrder
  <2>2. job[s].kind = "direct" /\ stage[s] # "idle" => job[s].n \in Members
    BY <1>1 DEF ReqOK, AskOK
  <2>3. SlotOrder(job[s])' = SlotOrder(job[s])
    BY <1>2 DEF SlotOrder
  <2>4. stage[s] = "slot2" => slotLock'[SlotOrder(job[s])[1]] = s
    BY <1>1, <1>2, <2>1 DEF ReqOK, SlotOK
  <2>5. stage[s] = "commit" =>
          /\ job[s].kind \in {"direct", "group", "accept"} => Secured(s, job[s].m)'
          /\ job[s].kind = "direct" => Secured(s, job[s].n)'
          /\ job[s].kind \in {"token", "join"} =>
               Secured(s, job[s].m)' \/ row[job[s].c][job[s].m] = "in"
    BY <1>1, <1>2, <1>7, <1>8, <2>2 DEF ReqOK, SlotOK
  <2>6. QED
    BY <1>1, <1>2, <1>3, <1>7, <1>8, <2>3, <2>4, <2>5 DEF ReqOK, SlotOK
<1>11. QED
  BY <1>4, <1>5, <1>9, <1>10 DEF ReqOK

\* What a quiet step has to show for the request that takes it.
LEMMA QuietStep ==
  ASSUME SlotInv, NEW r \in Requests, OthersLeftAlone(r), UNCHANGED rows,
         TypeOK', ReqOK(r)', HolderOK'
  PROVE  SlotInv'
<1>1. \A s \in Requests : ReqOK(s)'
  BY OthersKept
<1>2. UnusedOK' /\ NoDoubleBooking'
  BY DEF SlotInv, UnusedOK, NoDoubleBooking, rows, Live, In
<1>3. QED
  BY <1>1, <1>2 DEF SlotInv

\* A finished request holds nothing, asks nothing and disturbs nobody.
LEMMA FinishKeeps ==
  ASSUME SlotInv, NEW r \in Requests, Finish(r),
         call' \in [CallIds -> Call],
         row' \in [CallIds -> [Members -> RowStatus]]
  PROVE  OthersLeftAlone(r) /\ TypeOK' /\ ReqOK(r)' /\ HolderOK'
<1> USE CallSlotsAssumption
<1>1. /\ job' \in [Requests -> Job] /\ stage' \in [Requests -> Stages]
      /\ rowLock' \in [CallIds -> Requests \cup {NoReq}]
      /\ slotLock' \in [Members -> Requests \cup {NoReq}]
  BY DEF SlotInv, TypeOK, Finish, NoJob, Job, Stages
<1>2. /\ job'[r] = NoJob /\ stage'[r] = "idle"
      /\ \A s \in Requests \ {r} : job'[s] = job[s] /\ stage'[s] = stage[s]
      /\ \A c \in CallIds : rowLock'[c] = IF rowLock[c] = r THEN NoReq
                                                           ELSE rowLock[c]
      /\ \A m \in Members : slotLock'[m] = IF slotLock[m] = r THEN NoReq
                                                             ELSE slotLock[m]
  BY DEF SlotInv, TypeOK, Finish
<1>3. OthersLeftAlone(r)
  BY <1>2 DEF OthersLeftAlone, NoJob, Creates
<1>4. ReqOK(r)'
  BY <1>2 DEF ReqOK, AskOK, StageOK, FreshOK, RowOK, SlotOK, NoJob, Creates
<1>5. HolderOK'
  <2>1. \A c \in CallIds : rowLock'[c] # NoReq =>
          rowLock'[c] = rowLock[c] /\ rowLock[c] \in Requests \ {r}
    BY <1>2 DEF SlotInv, TypeOK
  <2>2. \A m \in Members : slotLock'[m] # NoReq =>
          slotLock'[m] = slotLock[m] /\ slotLock[m] \in Requests \ {r}
    BY <1>2 DEF SlotInv, TypeOK
  <2>3. QED
    BY <1>2, <2>1, <2>2 DEF SlotInv, HolderOK
<1>6. QED
  BY <1>1, <1>3, <1>4, <1>5 DEF TypeOK

\* Rolling back keeps the invariant.
LEMMA RollbackKeeps ==
  ASSUME SlotInv, NEW r \in Requests, Rollback(r)
  PROVE  SlotInv'
<1>1. call' \in [CallIds -> Call] /\ row' \in [CallIds -> [Members -> RowStatus]]
  BY DEF SlotInv, TypeOK, Rollback, rows
<1>2. QED
  BY <1>1, FinishKeeps, QuietStep DEF Rollback

-----------------------------------------------------------------------------

\* A request comes in; the id of a new call is fresh.
LEMMA StartKeeps ==
  ASSUME SlotInv, NEW r \in Requests, NEW j \in Asks, Start(r, j)
  PROVE  SlotInv'
<1>1. /\ job' = [job EXCEPT ![r] = j]
      /\ stage' = [stage EXCEPT ![r] = "connect"]
      /\ UNCHANGED <<rows, locks>>
      /\ stage[r] = "idle"
  BY DEF Start, Goto
<1>2. /\ j \in Job /\ j.kind \in Kinds /\ j.m \in Members /\ j.c \in CallIds
      /\ j.kind = "direct" => j.n \in Members
  BY DEF Asks, Job
<1>3. TypeOK'
  BY <1>1, <1>2 DEF SlotInv, TypeOK, rows, locks, Stages
<1>4. OthersLeftAlone(r)
  BY <1>1 DEF SlotInv, TypeOK, Start, OthersLeftAlone, locks
<1>5. /\ job'[r] = j
      /\ stage'[r] = "connect"
      /\ \A s \in Requests \ {r} : job'[s] = job[s] /\ stage'[s] = stage[s]
  BY <1>1 DEF SlotInv, TypeOK
<1>6. ReqOK(r)'
  <2>1. FreshOK(r)'
    BY <1>1, <1>5 DEF FreshOK, Start, rows
  <2>2. QED
    BY <1>2, <1>5, <2>1 DEF ReqOK, AskOK, StageOK, RowOK, SlotOK
<1>7. HolderOK'
  BY <1>1, <1>5 DEF SlotInv, TypeOK, HolderOK, locks
<1>8. QED
  BY <1>1, <1>3, <1>4, <1>6, <1>7, QuietStep

\* A step of r that goes on with the same job, having taken at most free locks.
LEMMA StepKeeps ==
  ASSUME SlotInv, NEW r \in Requests, NEW to \in Stages,
         stage[r] # "idle", to # "idle", Goto(r, to), UNCHANGED <<rows, job>>,
         TypeOK', StageOK(r)', RowOK(r)', SlotOK(r)', HolderOK',
         \A c \in CallIds : rowLock'[c] # rowLock[c] => rowLock[c] = NoReq,
         \A m \in Members : slotLock'[m] # slotLock[m] => slotLock[m] = NoReq
  PROVE  SlotInv'
<1>1. /\ stage'[r] = to
      /\ \A s \in Requests \ {r} : stage'[s] = stage[s]
  BY DEF SlotInv, TypeOK, Goto
<1>2. OthersLeftAlone(r)
  BY <1>1, CallSlotsAssumption DEF SlotInv, ReqOK, FreshOK, OthersLeftAlone
<1>3. AskOK(r)' /\ FreshOK(r)'
  BY <1>1 DEF SlotInv, ReqOK, AskOK, FreshOK, rows
<1>4. QED
  BY <1>2, <1>3, QuietStep DEF ReqOK

\* Connecting takes no lock.
LEMMA ConnectKeeps ==
  ASSUME SlotInv, NEW r \in Requests, Connect(r)
  PROVE  SlotInv'
<1>1. PICK to \in {"slot", "row"} :
        /\ Goto(r, to)
        /\ to = "slot" <=> job[r].kind \in Creates
  BY DEF Connect
<1>2. /\ stage[r] = "connect" /\ UNCHANGED <<rows, job, locks>>
      /\ stage'[r] = to
      /\ \A s \in Requests \ {r} : stage'[s] = stage[s]
  BY <1>1 DEF Connect, Goto, SlotInv, TypeOK
<1>3. TypeOK'
  BY <1>1, <1>2 DEF Goto, SlotInv, TypeOK, rows, locks, Stages
<1>4. StageOK(r)' /\ RowOK(r)' /\ SlotOK(r)'
  BY <1>1, <1>2 DEF StageOK, RowOK, SlotOK, Creates, Binding
<1>5. HolderOK'
  <2>1. /\ \A d \in CallIds : rowLock[d] # NoReq => rowLock[d] \in Requests \ {r}
        /\ \A m \in Members : slotLock[m] # NoReq => slotLock[m] \in Requests \ {r}
    <3>1. /\ \A d \in CallIds : rowLock[d] # NoReq =>
               rowLock[d] \in Requests /\ stage[rowLock[d]] # "connect"
          /\ \A m \in Members : slotLock[m] # NoReq =>
               slotLock[m] \in Requests /\ stage[slotLock[m]] # "connect"
      <4>1. /\ \A d \in CallIds : rowLock[d] \in Requests \cup {NoReq}
            /\ \A m \in Members : slotLock[m] \in Requests \cup {NoReq}
        BY DEF SlotInv, TypeOK
      <4>2. QED
        BY <4>1 DEF SlotInv, HolderOK
    <3>2. QED
      BY <1>2, <3>1
  <2>2. rowLock' = rowLock /\ slotLock' = slotLock /\ job' = job
    BY <1>2 DEF locks
  <2>3. QED
    BY <1>2, <2>1, <2>2 DEF SlotInv, HolderOK
<1>6. QED
  BY <1>1, <1>2, <1>3, <1>4, <1>5, StepKeeps DEF Stages, locks

\* Locking the row of a call that still allows it.
LEMMA LockRowKeeps ==
  ASSUME SlotInv, NEW r \in Requests, LockRow(r)
  PROVE  SlotInv'
<1>1. CASE Rollback(r)
  BY <1>1, RollbackKeeps
<1>2. CASE ~Rollback(r)
  <2> DEFINE c == job[r].c
             j == job[r]
  <2>1. /\ stage[r] = "row" /\ rowLock[c] = NoReq /\ RowAllows(j)
        /\ rowLock' = [rowLock EXCEPT ![c] = r]
        /\ Goto(r, AfterRow(r))
        /\ UNCHANGED <<rows, job, slotLock>>
    BY <1>2 DEF LockRow
  <2>2. /\ j.kind \in Kinds \ Creates /\ j.m \in Members /\ c \in CallIds
    BY <2>1 DEF SlotInv, ReqOK, AskOK, StageOK
  <2>3. Live(c)
    BY <2>1, <2>2 DEF RowAllows, Live, Kinds, Creates
  <2>4. PICK to \in {"slot", "borrow", "commit"} :
          /\ to = AfterRow(r)
          /\ to = "slot" => j.kind \in {"accept", "token", "join"}
          /\ to = "borrow" => j.kind \in {"join", "leave"}
          /\ to = "commit" =>
               \/ j.kind \in {"miss", "ghost", "leave"}
               \/ j.kind \in {"token", "join"} /\ row[c][j.m] = "in"
    BY <2>2 DEF AfterRow, Kinds, Creates
  <2>5. /\ stage'[r] = to
        /\ \A s \in Requests \ {r} : stage'[s] = stage[s]
        /\ rowLock'[c] = r
        /\ \A d \in CallIds \ {c} : rowLock'[d] = rowLock[d]
        /\ job' = job /\ call' = call /\ row' = row /\ slotLock' = slotLock
    BY <2>1, <2>2, <2>4 DEF Goto, SlotInv, TypeOK, rows
  <2>6. TypeOK'
    BY <2>1, <2>2, <2>4, <2>5 DEF Goto, SlotInv, TypeOK, Stages
  <2>7. StageOK(r)' /\ RowOK(r)' /\ SlotOK(r)'
    BY <2>2, <2>3, <2>4, <2>5
       DEF StageOK, RowOK, SlotOK, Live, Creates, Binding
  <2>8. HolderOK'
    <3>1. /\ \A d \in CallIds : rowLock[d] \in Requests \cup {NoReq}
          /\ \A m \in Members : slotLock[m] \in Requests \cup {NoReq}
      BY DEF SlotInv, TypeOK
    <3>2. /\ \A d \in CallIds : rowLock[d] # r
          /\ \A m \in Members : slotLock[m] # r
      BY <2>1, CallSlotsAssumption DEF SlotInv, HolderOK
    <3>3. ASSUME NEW d \in CallIds, rowLock'[d] # NoReq
          PROVE  /\ job'[rowLock'[d]].c = d
                 /\ job'[rowLock'[d]].kind \notin Creates
                 /\ stage'[rowLock'[d]] \in {"slot", "borrow", "commit"}
      BY <2>2, <2>4, <2>5, <3>1, <3>2, <3>3 DEF SlotInv, HolderOK
    <3>4. ASSUME NEW m \in Members, slotLock'[m] # NoReq
          PROVE  /\ m \in {job'[slotLock'[m]].m, job'[slotLock'[m]].n}
                 /\ stage'[slotLock'[m]] \in {"slot2", "borrow", "commit"}
                 /\ stage'[slotLock'[m]] = "borrow" =>
                      job'[slotLock'[m]].kind = "token"
      BY <2>5, <3>1, <3>2, <3>4 DEF SlotInv, HolderOK
    <3>5. QED
      BY <3>3, <3>4 DEF HolderOK
  <2>9. QED
    BY <2>1, <2>4, <2>5, <2>6, <2>7, <2>8, StepKeeps DEF Stages
<1>3. QED
  BY <1>1, <1>2

\* Locking a member who is free.
LEMMA LockSlotKeeps ==
  ASSUME SlotInv, NEW r \in Requests, LockSlot(r)
  PROVE  SlotInv'
<1>1. CASE Rollback(r)
  BY <1>1, RollbackKeeps
<1>2. CASE ~Rollback(r)
  <2> DEFINE j == job[r]
  <2>1. /\ stage[r] \in {"slot", "slot2"}
        /\ slotLock[Slot(r)] \in {NoReq, r}
        /\ AfterSlot(r) = "slot2" \/ SlotAllows(r)
        /\ slotLock' = [slotLock EXCEPT ![Slot(r)] = r]
        /\ Goto(r, AfterSlot(r))
        /\ UNCHANGED <<rows, job, rowLock>>
    BY <1>2 DEF LockSlot
  <2>2. /\ j.kind \in Binding /\ j.m \in Members /\ j.c \in CallIds
        /\ j.kind = "direct" => j.n \in Members
        /\ stage[r] = "slot2" =>
             j.kind = "direct" /\ slotLock[SlotOrder(j)[1]] = r
        /\ j.kind \notin Creates => rowLock[j.c] = r /\ Live(j.c)
    BY <2>1 DEF SlotInv, ReqOK, AskOK, StageOK, RowOK, SlotOK, Binding, Kinds
  <2>3. /\ Slot(r) \in Members
        /\ Slot(r) \in {j.m, j.n}
        /\ j.kind # "direct" => Slot(r) = j.m
        /\ stage[r] = "slot" /\ j.kind = "direct" => Slot(r) = SlotOrder(j)[1]
        /\ stage[r] = "slot2" => {Slot(r), SlotOrder(j)[1]} = {j.m, j.n}
    BY <2>1, <2>2 DEF Slot, SlotOrder
  <2>4. PICK to \in {"slot2", "borrow", "commit"} :
          /\ to = AfterSlot(r)
          /\ to = "slot2" => j.kind = "direct" /\ stage[r] = "slot"
          /\ to # "slot2" /\ j.kind = "direct" => stage[r] = "slot2"
          /\ to = "borrow" => j.kind = "token"
    BY <2>1, <2>2 DEF AfterSlot, Binding
  <2>5. /\ stage'[r] = to
        /\ \A s \in Requests \ {r} : stage'[s] = stage[s]
        /\ slotLock'[Slot(r)] = r
        /\ \A m \in Members \ {Slot(r)} : slotLock'[m] = slotLock[m]
        /\ job' = job /\ call' = call /\ row' = row /\ rowLock' = rowLock
    BY <2>1, <2>3, <2>4 DEF Goto, SlotInv, TypeOK, rows
  <2>6. TypeOK'
    BY <2>1, <2>3, <2>4, <2>5 DEF Goto, SlotInv, TypeOK, Stages
  <2>7. to # "slot2" =>
          /\ Secured(r, j.m)'
          /\ j.kind = "direct" => Secured(r, j.n)'
    <3>1. to # "slot2" => SlotAllows(r)
      BY <2>1, <2>4
    <3>2. to # "slot2" =>
            /\ slotLock'[j.m] = r
            /\ j.kind = "direct" => slotLock'[j.n] = r
      BY <2>2, <2>3, <2>4, <2>5
    <3>3. QED
      BY <2>5, <3>1, <3>2 DEF SlotAllows, Secured, MemberFree, Live, In
  <2>8. StageOK(r)' /\ RowOK(r)'
    BY <2>2, <2>4, <2>5 DEF StageOK, RowOK, Live, Creates, Binding
  <2>9. SlotOK(r)'
    BY <2>2, <2>3, <2>4, <2>5, <2>7 DEF SlotOK, SlotOrder
  <2>10. HolderOK'
    <3>1. /\ \A c \in CallIds : rowLock[c] \in Requests \cup {NoReq}
          /\ \A m \in Members : slotLock[m] \in Requests \cup {NoReq}
      BY DEF SlotInv, TypeOK
    <3>2. \A c \in CallIds : rowLock[c] = r => j.kind # "direct" /\ job[r].c = c
      BY CallSlotsAssumption DEF SlotInv, HolderOK, Creates
    <3>3. ASSUME NEW c \in CallIds, rowLock'[c] # NoReq
          PROVE  /\ job'[rowLock'[c]].c = c
                 /\ job'[rowLock'[c]].kind \notin Creates
                 /\ stage'[rowLock'[c]] \in {"slot", "borrow", "commit"}
      BY <2>4, <2>5, <3>1, <3>2, <3>3 DEF SlotInv, HolderOK
    <3>4. ASSUME NEW m \in Members, slotLock'[m] # NoReq
          PROVE  /\ m \in {job'[slotLock'[m]].m, job'[slotLock'[m]].n}
                 /\ stage'[slotLock'[m]] \in {"slot2", "borrow", "commit"}
                 /\ stage'[slotLock'[m]] = "borrow" =>
                      job'[slotLock'[m]].kind = "token"
      BY <2>3, <2>4, <2>5, <3>1, <3>4 DEF SlotInv, HolderOK
    <3>5. QED
      BY <3>3, <3>4 DEF HolderOK
  <2>11. QED
    BY <2>1, <2>4, <2>5, <2>6, <2>8, <2>9, <2>10, StepKeeps DEF Stages
<1>3. QED
  BY <1>1, <1>2

\* Looking something up over a second connection.
LEMMA BorrowKeeps ==
  ASSUME SlotInv, NEW r \in Requests, Borrow(r)
  PROVE  SlotInv'
<1>1. CASE Rollback(r)
  BY <1>1, RollbackKeeps
<1>2. CASE ~Rollback(r)
  <2> DEFINE j == job[r]
  <2>1. /\ stage[r] = "borrow"
        /\ Goto(r, IF j.kind = "join" /\ row[j.c][j.m] # "in"
                   THEN "slot" ELSE "commit")
        /\ UNCHANGED <<rows, job, locks>>
    BY <1>2 DEF Borrow
  <2>2. /\ j.kind \in {"token", "join", "leave"}
        /\ j.m \in Members /\ j.c \in CallIds
        /\ rowLock[j.c] = r /\ Live(j.c)
        /\ j.kind = "token" => Secured(r, j.m) \/ row[j.c][j.m] = "in"
    BY <2>1 DEF SlotInv, ReqOK, AskOK, StageOK, RowOK, SlotOK, Creates
  <2>3. PICK to \in {"slot", "commit"} :
          /\ Goto(r, to)
          /\ to = "slot" => j.kind = "join"
          /\ to = "commit" /\ j.kind = "join" => row[j.c][j.m] = "in"
    BY <2>1
  <2>4. /\ stage'[r] = to
        /\ \A s \in Requests \ {r} : stage'[s] = stage[s]
        /\ job' = job /\ call' = call /\ row' = row
        /\ rowLock' = rowLock /\ slotLock' = slotLock
    BY <2>1, <2>3 DEF Goto, SlotInv, TypeOK, rows, locks
  <2>5. TypeOK'
    BY <2>3, <2>4 DEF Goto, SlotInv, TypeOK, Stages
  <2>6. StageOK(r)' /\ RowOK(r)'
    BY <2>2, <2>3, <2>4 DEF StageOK, RowOK, Live, Creates, Binding
  <2>7. Secured(r, j.m)' = Secured(r, j.m)
    BY <2>4 DEF Secured, MemberFree, Live, In
  <2>8. SlotOK(r)'
    BY <2>2, <2>3, <2>4, <2>7 DEF SlotOK
  <2>9. HolderOK'
    <3>1. /\ \A c \in CallIds : rowLock[c] \in Requests \cup {NoReq}
          /\ \A m \in Members : slotLock[m] \in Requests \cup {NoReq}
      BY DEF SlotInv, TypeOK
    <3>2. \A m \in Members : slotLock[m] = r => j.kind = "token"
      BY <2>1, CallSlotsAssumption DEF SlotInv, HolderOK
    <3>3. QED
      BY <2>3, <2>4, <3>1, <3>2 DEF SlotInv, HolderOK
  <2>10. QED
    BY <2>3, <2>4, <2>1, <2>5, <2>6, <2>8, <2>9, StepKeeps DEF Stages
<1>3. QED
  BY <1>1, <1>2

-----------------------------------------------------------------------------

\* What a commit of r does to who is in a call: on its call c only, it lets
\* members in whom r has secured, and drops nobody, or it lets nobody in.
Effect(r, c) ==
  /\ call' \in [CallIds -> Call]
  /\ row' \in [CallIds -> [Members -> RowStatus]]
  /\ call'[c].status # "unused"
  /\ \A d \in CallIds \ {c} : call'[d] = call[d] /\ row'[d] = row[d]
  /\ \/ \A m \in Members : Bound(m, c)' => Bound(m, c)
     \/ \A m \in Members : /\ Bound(m, c) => Bound(m, c)'
                           /\ Bound(m, c)' => Bound(m, c) \/ Secured(r, m)

\* Setting the status of one call.
LEMMA StatusSet ==
  ASSUME call \in [CallIds -> Call], NEW c \in CallIds,
         NEW s \in {"active", "over"},
         call' = [call EXCEPT ![c].status = s]
  PROVE  /\ call' \in [CallIds -> Call]
         /\ call'[c].status = s
         /\ \A d \in CallIds \ {c} : call'[d] = call[d]
<1>1. call[c] \in Call
  OBVIOUS
<1>2. /\ [call[c] EXCEPT !.status = s] \in Call
      /\ [call[c] EXCEPT !.status = s].status = s
  BY <1>1 DEF Call
<1>3. call' = [call EXCEPT ![c] = [call[c] EXCEPT !.status = s]]
  OBVIOUS
<1>4. QED
  BY <1>2, <1>3

\* Setting the status of one member in one call.
LEMMA RowSet ==
  ASSUME row \in [CallIds -> [Members -> RowStatus]], NEW c \in CallIds,
         NEW m \in Members, NEW s \in RowStatus,
         row' = [row EXCEPT ![c][m] = s]
  PROVE  /\ row' \in [CallIds -> [Members -> RowStatus]]
         /\ \A d \in CallIds \ {c} : row'[d] = row[d]
         /\ \A n \in Members : row'[c][n] = IF n = m THEN s ELSE row[c][n]
<1>1. [row[c] EXCEPT ![m] = s] \in [Members -> RowStatus]
  OBVIOUS
<1>2. row' = [row EXCEPT ![c] = [row[c] EXCEPT ![m] = s]]
  OBVIOUS
<1>3. QED
  BY <1>1, <1>2

\* Every handler commits such an effect.
LEMMA CommitEffect ==
  ASSUME SlotInv, NEW r \in Requests, Commit(r),
         NEW c \in CallIds, job[r].c = c
  PROVE  Effect(r, c)
<1> DEFINE j == job[r]
<1>1. /\ stage[r] = "commit"
      /\ j.kind \in Kinds /\ j.m \in Members /\ c \in CallIds
      /\ j.kind = "direct" => j.n \in Members
      /\ j.kind \in Creates => call[c].status = "unused"
      /\ j.kind \notin Creates => Live(c)
      /\ j.kind \in {"direct", "group", "accept"} => Secured(r, j.m)
      /\ j.kind = "direct" => Secured(r, j.n)
      /\ j.kind \in {"token", "join"} => Secured(r, j.m) \/ row[c][j.m] = "in"
  BY DEF SlotInv, ReqOK, AskOK, FreshOK, RowOK, SlotOK, Commit, Creates
<1>2. /\ call \in [CallIds -> Call]
      /\ row \in [CallIds -> [Members -> RowStatus]]
  BY DEF SlotInv, TypeOK
<1>3. CASE NewCall(r)
  <2> DEFINE n == IF j.kind = "direct" THEN j.n ELSE j.m
  <2>1. /\ n \in Members
        /\ Secured(r, j.m) /\ Secured(r, n)
        /\ \A m \in Members : ~Bound(m, c)
    BY <1>1, <1>3 DEF NewCall, Creates, Bound, Live
  <2>2. /\ call' = [call EXCEPT ![c] =
             [status |-> IF j.kind = "direct" THEN "ringing" ELSE "active",
              type |-> j.kind, chat |-> j.kind = "direct" \/ j.chat]]
        /\ row' = [row EXCEPT ![c][j.m] = "in", ![c][n] = "in"]
        /\ j.kind \in {"direct", "group"}
    BY <1>3 DEF NewCall, Creates
  <2>3. j.chat \in BOOLEAN
    BY <1>1 DEF SlotInv, TypeOK, Job
  <2>4. call' \in [CallIds -> Call]
    BY <1>1, <1>2, <2>2, <2>3 DEF Call
  <2>5. row' \in [CallIds -> [Members -> RowStatus]]
    BY <1>1, <1>2, <2>1, <2>2 DEF RowStatus
  <2>6. call'[c].status # "unused"
    BY <1>1, <1>2, <2>2
  <2>7. \A m \in Members : row'[c][m] = "in" => row[c][m] = "in" \/ m \in {j.m, n}
    BY <1>1, <1>2, <2>1, <2>2
  <2>8. \A m \in Members : ~(row[c][m] = "in")
    BY <1>1, <1>3 DEF SlotInv, UnusedOK, NewCall, In
  <2>9. \A m \in Members : Bound(m, c)' => Secured(r, m)
    <3>1. ASSUME NEW m \in Members, Bound(m, c)'
          PROVE  m \in {j.m, n}
      BY <2>7, <2>8, <3>1 DEF Bound, In
    <3>2. QED
      BY <2>1, <3>1
  <2>10. \A d \in CallIds \ {c} : call'[d] = call[d] /\ row'[d] = row[d]
    BY <1>2, <2>2
  <2>11. QED
    BY <1>1, <2>1, <2>4, <2>5, <2>6, <2>9, <2>10 DEF Effect
<1>4. CASE Answer(r) \/ Join(r)
  <2>1. /\ j.kind \in {"accept", "token", "join"}
        /\ call' = call \/ call' = [call EXCEPT ![c].status = "active"]
        /\ row' = [row EXCEPT ![c][j.m] = "in"]
    BY <1>4 DEF Answer, Join
  <2>2. Live(c)
    BY <1>1, <2>1 DEF Creates
  <2>3. /\ call' \in [CallIds -> Call]
        /\ call'[c].status \in {"ringing", "active"}
        /\ \A d \in CallIds \ {c} : call'[d] = call[d]
    BY <1>1, <1>2, <2>1, <2>2, StatusSet DEF Live
  <2>4. /\ row' \in [CallIds -> [Members -> RowStatus]]
        /\ \A d \in CallIds \ {c} : row'[d] = row[d]
        /\ \A m \in Members : row'[c][m] = IF m = j.m THEN "in" ELSE row[c][m]
    BY <1>1, <1>2, <2>1, RowSet DEF RowStatus
  <2>5. \A m \in Members : /\ Bound(m, c) => Bound(m, c)'
                           /\ Bound(m, c)' => Bound(m, c) \/ Secured(r, m)
    <3>1. Live(c)'
      BY <2>3 DEF Live
    <3>2. \A m \in Members : m \in In(c)' <=> m = j.m \/ m \in In(c)
      BY <2>4 DEF In
    <3>3. Secured(r, j.m) \/ j.m \in In(c)
      BY <1>1, <2>1 DEF In
    <3>4. QED
      BY <2>2, <3>1, <3>2, <3>3 DEF Bound
  <2>6. QED
    BY <1>1, <2>3, <2>4, <2>5 DEF Effect
<1>5. CASE Leave(r) \/ Miss(r)
  <2>1. /\ call' = call \/ call' = [call EXCEPT ![c].status = "over"]
        /\ \/ row' = row
           \/ row' = [row EXCEPT ![c][j.m] = IF @ = "absent" THEN @ ELSE "out"]
        /\ j.kind \in {"leave", "ghost", "miss"}
    BY <1>5 DEF Leave, Miss
  <2>2. Live(c)
    BY <1>1, <2>1 DEF Creates
  <2>3. /\ call' \in [CallIds -> Call]
        /\ call'[c].status # "unused"
        /\ \A d \in CallIds \ {c} : call'[d] = call[d]
        /\ Live(c)' => Live(c)
    <3>1. call'[c].status # "unused"
      BY <1>1, <1>2, <2>1, <2>2, StatusSet DEF Live
    <3>2. QED
      BY <1>1, <1>2, <2>1, <2>2, <3>1, StatusSet
  <2>4. /\ row' \in [CallIds -> [Members -> RowStatus]]
        /\ \A d \in CallIds \ {c} : row'[d] = row[d]
        /\ \A m \in Members : row'[c][m] = "in" => row[c][m] = "in"
    <3>1. PICK s \in RowStatus \ {"in"} :
            row' = row \/ row' = [row EXCEPT ![c][j.m] = s]
      BY <2>1 DEF RowStatus
    <3>2. CASE row' = row
      BY <1>2, <3>2
    <3>3. CASE row' = [row EXCEPT ![c][j.m] = s]
      <4>1. /\ row' \in [CallIds -> [Members -> RowStatus]]
            /\ \A d \in CallIds \ {c} : row'[d] = row[d]
            /\ \A m \in Members : row'[c][m] = IF m = j.m THEN s ELSE row[c][m]
        BY <1>1, <1>2, <3>1, <3>3, RowSet
      <4>2. QED
        BY <3>1, <4>1
    <3>4. QED
      BY <3>1, <3>2, <3>3
  <2>5. \A m \in Members : Bound(m, c)' => Bound(m, c)
    <3>1. \A m \in Members : m \in In(c)' => m \in In(c)
      BY <2>4 DEF In
    <3>2. QED
      BY <2>3, <3>1 DEF Bound
  <2>6. QED
    BY <1>1, <2>3, <2>4, <2>5 DEF Effect
<1>6. QED
  BY <1>3, <1>4, <1>5 DEF Commit

\* A commit keeps what the others rely on: it works on another call than
\* theirs, and binds no member whom they have secured.
LEMMA OthersSurviveCommit ==
  ASSUME SlotInv, NEW r \in Requests, Commit(r), NEW c \in CallIds,
         job[r].c = c, Effect(r, c), NEW s \in Requests \ {r}
  PROVE  ReqOK(s)'
<1> DEFINE b == job[s].c
<1>1. ReqOK(s) /\ ReqOK(r)
  BY DEF SlotInv
<1>2. /\ job' = [job EXCEPT ![r] = NoJob]
      /\ stage' = [stage EXCEPT ![r] = "idle"]
      /\ \A d \in CallIds : rowLock[d] = s => rowLock'[d] = s
      /\ \A m \in Members : slotLock[m] = s => slotLock'[m] = s
  BY DEF Commit, Finish, SlotInv, TypeOK
<1>3. /\ job'[s] = job[s] /\ stage'[s] = stage[s]
      /\ \A t \in Requests \ {r} : job'[t] = job[t]
      /\ job'[r].kind \notin Creates
  BY <1>2 DEF SlotInv, TypeOK, NoJob, Creates
<1>4. stage[s] # "idle" => b \in CallIds /\ job[s].m \in Members
  BY <1>1 DEF ReqOK, AskOK
<1>5. job[s].kind \in Creates => stage[s] # "idle"
  BY <1>1 DEF ReqOK, AskOK, NoJob, Creates
<1>6. /\ job[r].kind \in Creates => call[c].status = "unused"
      /\ job[r].kind \notin Creates => rowLock[c] = r /\ Live(c)
  BY <1>1 DEF ReqOK, FreshOK, RowOK, Commit
<1>7. job[s].kind \in Creates => b # c
  BY <1>1, <1>6 DEF ReqOK, FreshOK, Live
<1>8. stage[s] \in {"slot", "slot2", "borrow", "commit"} => b # c
  BY <1>1, <1>6, <1>7 DEF ReqOK, RowOK, Live
<1>9. AskOK(s)' /\ StageOK(s)'
  BY <1>1, <1>3 DEF ReqOK, AskOK, StageOK
<1>10. FreshOK(s)'
  <2>1. job[s].kind \in Creates => call'[b] = call[b]
    BY <1>4, <1>5, <1>7 DEF Effect
  <2>2. QED
    BY <1>1, <1>3, <2>1 DEF ReqOK, FreshOK
<1>11. RowOK(s)'
  <2>1. stage[s] \in {"slot", "slot2", "borrow", "commit"} => call'[b] = call[b]
    BY <1>4, <1>8 DEF Effect
  <2>2. QED
    BY <1>1, <1>2, <1>3, <1>4, <2>1 DEF ReqOK, RowOK, Live
<1>12. ASSUME NEW m \in Members, Secured(s, m), b # c
       PROVE  Secured(s, m)'
  <2>1. ~Bound(m, c)
    BY <1>12 DEF Secured, MemberFree, Bound
  <2>2. ~Bound(m, c)'
    BY <1>12, <2>1 DEF Effect, Secured
  <2>3. \A d \in CallIds \ {c} : Bound(m, d)' = Bound(m, d)
    BY DEF Effect, Bound, Live, In
  <2>4. \A d \in CallIds \ {b} : ~Bound(m, d)'
    BY <1>12, <2>2, <2>3 DEF Secured, MemberFree, Bound
  <2>5. QED
    BY <1>2, <1>3, <1>12, <2>4 DEF Secured, MemberFree, Bound
<1>13. SlotOK(s)'
  <2>1. stage[s] = "slot2" => SlotOrder(job[s])[1] \in Members
    BY <1>1, <1>4 DEF ReqOK, StageOK, AskOK, SlotOrder
  <2>2. job[s].kind = "direct" /\ stage[s] # "idle" => job[s].n \in Members
    BY <1>1 DEF ReqOK, AskOK
  <2>3. SlotOrder(job[s])' = SlotOrder(job[s])
    BY <1>3 DEF SlotOrder
  <2>4. stage[s] = "slot2" => slotLock'[SlotOrder(job[s])[1]] = s
    BY <1>1, <1>2, <2>1 DEF ReqOK, SlotOK
  <2>5. stage[s] \in {"borrow", "commit"} => row'[b] = row[b]
    BY <1>4, <1>8 DEF Effect
  <2>6. stage[s] \in {"borrow", "commit"} =>
          \A m \in Members : Secured(s, m) => Secured(s, m)'
    BY <1>8, <1>12
  <2>7. stage[s] = "borrow" /\ job[s].kind = "token" =>
          Secured(s, job[s].m)' \/ row'[b][job[s].m] = "in"
    <3>1. stage[s] = "borrow" /\ job[s].kind = "token" =>
            Secured(s, job[s].m) \/ row[b][job[s].m] = "in"
      BY <1>1 DEF ReqOK, SlotOK
    <3>2. QED
      BY <1>3, <1>4, <2>5, <2>6, <3>1
  <2>8. stage[s] = "commit" =>
          /\ job[s].kind \in {"direct", "group", "accept"} => Secured(s, job[s].m)'
          /\ job[s].kind = "direct" => Secured(s, job[s].n)'
          /\ job[s].kind \in {"token", "join"} =>
               Secured(s, job[s].m)' \/ row'[b][job[s].m] = "in"
    <3>1. stage[s] = "commit" =>
            /\ job[s].kind \in {"direct", "group", "accept"} => Secured(s, job[s].m)
            /\ job[s].kind = "direct" => Secured(s, job[s].n)
            /\ job[s].kind \in {"token", "join"} =>
                 Secured(s, job[s].m) \/ row[b][job[s].m] = "in"
      BY <1>1 DEF ReqOK, SlotOK
    <3>2. QED
      BY <1>3, <1>4, <2>2, <2>5, <2>6, <3>1
  <2>9. QED
    BY <1>3, <2>3, <2>4, <2>7, <2>8 DEF SlotOK
<1>14. QED
  BY <1>9, <1>10, <1>11, <1>13 DEF ReqOK

\* Committing keeps the invariant.
LEMMA CommitKeeps ==
  ASSUME SlotInv, NEW r \in Requests, Commit(r)
  PROVE  SlotInv'
<1>1. PICK c \in CallIds : job[r].c = c
  BY DEF SlotInv, ReqOK, AskOK, Commit
<1>2. Effect(r, c)
  BY <1>1, CommitEffect
<1>3. TypeOK' /\ ReqOK(r)' /\ HolderOK'
  BY <1>2, FinishKeeps DEF Commit, Effect
<1>4. \A s \in Requests : ReqOK(s)'
  BY <1>1, <1>2, <1>3, OthersSurviveCommit
<1>5. UnusedOK'
  BY <1>2 DEF Effect, SlotInv, UnusedOK, In
<1>6. ASSUME NEW m \in Members, Bound(m, c)', NEW d \in CallIds \ {c}
      PROVE  ~Bound(m, d)'
  <2>1. Bound(m, c) \/ Secured(r, m)
    BY <1>2, <1>6 DEF Effect
  <2>2. ~Bound(m, d)
    BY <1>1, <2>1 DEF SlotInv, NoDoubleBooking, Bound, Secured, MemberFree
  <2>3. QED
    BY <1>2, <2>2 DEF Effect, Bound, Live, In
<1>7. NoDoubleBooking'
  <2>1. \A m \in Members : \A a, d \in CallIds \ {c} :
          Bound(m, a)' /\ Bound(m, d)' => a = d
    BY <1>2 DEF Effect, SlotInv, NoDoubleBooking, Bound, Live, In
  <2>2. \A m \in Members : \A a, d \in CallIds :
          Bound(m, a)' /\ Bound(m, d)' => a = d
    BY <1>6, <2>1
  <2>3. QED
    BY <2>2 DEF NoDoubleBooking, Bound
<1>8. QED
  BY <1>3, <1>4, <1>5, <1>7 DEF SlotInv

\* The invariant holds at the start and is kept by every step.
LEMMA SlotInvCorrect == Spec => []SlotInv
<1>1. Init => SlotInv
  <2> SUFFICES ASSUME Init PROVE SlotInv
    OBVIOUS
  <2>1. TypeOK
    BY DEF Init, TypeOK, Call, RowStatus, Job, NoJob, Stages
  <2>2. \A r \in Requests : ReqOK(r)
    BY DEF Init, ReqOK, AskOK, StageOK, FreshOK, RowOK, SlotOK, NoJob, Creates
  <2>3. HolderOK /\ UnusedOK /\ NoDoubleBooking
    BY DEF Init, HolderOK, UnusedOK, NoDoubleBooking, Live, In
  <2>4. QED
    BY <2>1, <2>2, <2>3 DEF SlotInv
<1>2. SlotInv /\ [Next]_vars => SlotInv'
  <2>1. ASSUME SlotInv, NEW r \in Requests, Proceed(r) \/ Timeout(r)
        PROVE  SlotInv'
    BY <2>1, ConnectKeeps, LockRowKeeps, LockSlotKeeps, BorrowKeeps,
       CommitKeeps, RollbackKeeps DEF Proceed, Timeout
  <2>2. ASSUME SlotInv, UNCHANGED vars
        PROVE  SlotInv'
    BY <2>2
       DEF vars, SlotInv, TypeOK, ReqOK, AskOK, StageOK, FreshOK, RowOK, SlotOK,
           Secured, HolderOK, UnusedOK, NoDoubleBooking, MemberFree, Live, In
  <2>3. QED
    BY <2>1, <2>2, StartKeeps DEF Next
<1>3. QED
  BY <1>1, <1>2, PTL DEF Spec

-----------------------------------------------------------------------------

\* A lock is held by a transaction that is about that row or member, and a
\* transaction that commits a binding holds the locks of those it binds.
THEOREM LocksJustified == Spec => []LocksAreJustified
BY SlotInvCorrect, SlotInvGives, PTL

\* What a transaction has read under its locks is still true at its commit.
THEOREM CommitsTrue == Spec => []CommitsWhatItRead
BY SlotInvCorrect, SlotInvGives, PTL

\* No member is committed to two live calls, whatever the interleaving of
\* any number of transactions: assertMemberFreeInTx under the advisory lock.
THEOREM NobodyDoubleBooked == Spec => []NoDoubleBooking
BY SlotInvCorrect, SlotInvGives, PTL

-----------------------------------------------------------------------------

\* A step binds nobody, or works on one call, drops nobody from it and binds
\* members who are free of all the others.
BindsNobody == \A m \in Members : \A c \in CallIds : Bound(m, c)' => Bound(m, c)

BindsOnlyFree(c) ==
  /\ \A m \in Members : \A d \in CallIds \ {c} : Bound(m, d)' <=> Bound(m, d)
  /\ \A m \in Members : Bound(m, c) => Bound(m, c)'
  /\ \A m \in Members : Bound(m, c)' /\ ~Bound(m, c) => MemberFree(m, c)

\* Only commits bind anybody.
LEMMA StepBinds ==
  ASSUME SlotInv, [Next]_vars
  PROVE  BindsNobody \/ \E c \in CallIds : BindsOnlyFree(c)
<1>1. ASSUME UNCHANGED rows
      PROVE  BindsNobody
  BY <1>1 DEF rows, BindsNobody, Bound, Live, In
<1>2. ASSUME NEW r \in Requests, Commit(r)
      PROVE  BindsNobody \/ \E c \in CallIds : BindsOnlyFree(c)
  <2>1. PICK c \in CallIds : job[r].c = c
    BY <1>2 DEF SlotInv, ReqOK, AskOK, Commit
  <2>2. Effect(r, c)
    BY <1>2, <2>1, CommitEffect
  <2>3. \A m \in Members : \A d \in CallIds \ {c} : Bound(m, d)' <=> Bound(m, d)
    BY <2>2 DEF Effect, Bound, Live, In
  <2>4. CASE \A m \in Members : Bound(m, c)' => Bound(m, c)
    BY <2>3, <2>4 DEF BindsNobody
  <2>5. CASE \A m \in Members : /\ Bound(m, c) => Bound(m, c)'
                                /\ Bound(m, c)' => Bound(m, c) \/ Secured(r, m)
    BY <2>1, <2>3, <2>5 DEF BindsOnlyFree, Secured
  <2>6. QED
    BY <2>2, <2>4, <2>5 DEF Effect
<1>3. ASSUME NEW r \in Requests,
             \/ \E j \in Asks : Start(r, j)
             \/ Connect(r) \/ LockRow(r) \/ LockSlot(r) \/ Borrow(r)
             \/ Timeout(r)
      PROVE  UNCHANGED rows
  BY <1>3 DEF Start, Connect, LockRow, LockSlot, Borrow, Timeout, Rollback
<1>4. CASE UNCHANGED vars
  BY <1>1, <1>4 DEF vars, rows
<1>5. QED
  BY <1>1, <1>2, <1>3, <1>4 DEF Next, Proceed

\* The slot of a bound member is held for the call that binds him.
LEMMA OccupiedIsTheBinding ==
  ASSUME NoDoubleBooking, NEW m \in Members
  PROVE  /\ \A c \in CallIds : Bound(m, c) => Occupied(m) = c
         /\ (\A c \in CallIds : ~Bound(m, c)) => Occupied(m) = NoCall
BY DEF NoDoubleBooking, Occupied, Bound

\* The same of the next state.
LEMMA OccupiedIsTheBindingNext ==
  ASSUME NoDoubleBooking', NEW m \in Members
  PROVE  /\ \A c \in CallIds : Bound(m, c)' => Occupied(m)' = c
         /\ (\A c \in CallIds : ~Bound(m, c)') => Occupied(m)' = NoCall
BY DEF NoDoubleBooking, Occupied, Bound

\* A step that binds nobody releases those it drops.
LEMMA BindsNobodyReleases ==
  ASSUME NoDoubleBooking, NoDoubleBooking', BindsNobody
  PROVE  Slots!Next
<1> DEFINE S == {m \in Members : \A c \in CallIds : ~Bound(m, c)'}
<1>1. ASSUME NEW m \in S
      PROVE  Occupied(m)' = NoCall
  BY OccupiedIsTheBindingNext
<1>2. ASSUME NEW m \in Members \ S
      PROVE  Occupied(m)' = Occupied(m)
  <2>1. PICK c \in CallIds : Bound(m, c)'
    OBVIOUS
  <2>2. Bound(m, c)
    BY <2>1 DEF BindsNobody
  <2>3. QED
    BY <2>1, <2>2, OccupiedIsTheBinding, OccupiedIsTheBindingNext
<1>3. Slots!Release(S)
  BY <1>1, <1>2 DEF Slots!Release
<1>4. QED
  BY <1>3 DEF Slots!Next

\* A step that binds free members to c lets them enter c together.
LEMMA BindsOnlyFreeEnters ==
  ASSUME NoDoubleBooking, NoDoubleBooking', NEW c \in CallIds, BindsOnlyFree(c)
  PROVE  Slots!Next
<1> DEFINE S == {m \in Members : Bound(m, c)' /\ ~Bound(m, c)}
<1>1. ASSUME NEW m \in S
      PROVE  Occupied(m) = NoCall /\ Occupied(m)' = c
  <2>1. \A d \in CallIds : ~Bound(m, d)
    BY DEF BindsOnlyFree, MemberFree, Bound
  <2>2. QED
    BY <2>1, OccupiedIsTheBinding, OccupiedIsTheBindingNext
<1>2. ASSUME NEW m \in Members \ S
      PROVE  Occupied(m)' = Occupied(m)
  <2>1. \A d \in CallIds : Bound(m, d)' <=> Bound(m, d)
    BY DEF BindsOnlyFree
  <2>2. QED
    BY <2>1, OccupiedIsTheBinding, OccupiedIsTheBindingNext
<1>3. Slots!Enter(S, c)
  BY <1>1, <1>2 DEF Slots!Enter
<1>4. QED
  BY <1>3 DEF Slots!Next

\* The locking implements the abstract slots: what the transactions commit,
\* one after the other, never moves a member from one live call into another.
THEOREM LocksImplementSlots == Spec => OneSlotEach
<1>1. Init => Slots!Init
  BY DEF Init, Slots!Init, Occupied, Live
<1>2. /\ SlotInv /\ NoDoubleBooking /\ NoDoubleBooking' /\ [Next]_vars
      => Slots!Next
  BY StepBinds, BindsNobodyReleases, BindsOnlyFreeEnters
<1>3. QED
  BY <1>1, <1>2, SlotInvCorrect, NobodyDoubleBooked, PTL
     DEF Spec, OneSlotEach, Slots!Spec
-----------------------------------------------------------------------------
(* The pool *)

\* Every transaction has a connection of its own, and the pool has PoolSize.
PoolOK == IsFiniteSet(Connected) /\ Cardinality(Connected) <= PoolSize

\* Only Connect takes a connection.
LEMMA OnlyConnectConnects ==
  ASSUME TypeOK, NEW r \in Requests,
         \/ \E j \in Asks : Start(r, j)
         \/ LockRow(r) \/ LockSlot(r) \/ Borrow(r) \/ Commit(r) \/ Timeout(r)
  PROVE  Connected' \subseteq Connected
<1>1. PICK to \in Stages :
        /\ stage' = [stage EXCEPT ![r] = to]
        /\ to \in {"idle", "connect"} \/ stage[r] \in {"row", "slot", "slot2", "borrow"}
  <2>1. CASE \E j \in Asks : Start(r, j)
    BY <2>1 DEF Start, Goto, Stages
  <2>2. CASE Commit(r) \/ Timeout(r)
    BY <2>2 DEF Commit, Timeout, Rollback, Finish, Stages
  <2>3. CASE LockRow(r) \/ LockSlot(r) \/ Borrow(r)
    <3>1. stage[r] \in {"row", "slot", "slot2", "borrow"}
      BY <2>3 DEF LockRow, LockSlot, Borrow
    <3>2. \E to \in Stages : stage' = [stage EXCEPT ![r] = to]
      <4>1. AfterRow(r) \in Stages /\ AfterSlot(r) \in Stages
        BY DEF AfterRow, AfterSlot, Stages
      <4>2. CASE LockRow(r)
        BY <4>1, <4>2 DEF LockRow, Rollback, Finish, Goto, Stages
      <4>3. CASE LockSlot(r)
        BY <4>1, <4>3 DEF LockSlot, Rollback, Finish, Goto, Stages
      <4>4. CASE Borrow(r)
        BY <4>4 DEF Borrow, Rollback, Finish, Goto, Stages
      <4>5. QED
        BY <2>3, <4>2, <4>3, <4>4
    <3>3. QED
      BY <3>1, <3>2
  <2>4. QED
    BY <2>1, <2>2, <2>3
<1>2. \A s \in Requests : stage'[s] = IF s = r THEN to ELSE stage[s]
  BY <1>1 DEF TypeOK
<1>3. QED
  BY <1>1, <1>2 DEF Connected

\* Connect takes one, and only if there is one.
LEMMA ConnectTakesOne ==
  ASSUME TypeOK, NEW r \in Requests, Connect(r)
  PROVE  PoolHasOne /\ Connected' = Connected \cup {r}
<1>1. PICK to \in {"slot", "row"} : stage' = [stage EXCEPT ![r] = to]
  BY DEF Connect, Goto
<1>2. \A s \in Requests : stage'[s] = IF s = r THEN to ELSE stage[s]
  BY <1>1 DEF TypeOK
<1>3. QED
  BY <1>2 DEF Connected, Connect

\* A step keeps the pool within its size.
LEMMA PoolKept == TypeOK /\ PoolOK /\ [Next]_vars => PoolOK'
<1> SUFFICES ASSUME TypeOK, PoolOK, [Next]_vars
             PROVE  PoolOK'
  OBVIOUS
<1>1. Cardinality(Connected) \in Nat
  BY FS_CardinalityType DEF PoolOK
<1>2. ASSUME Connected' \subseteq Connected
      PROVE  PoolOK'
  <2>1. IsFiniteSet(Connected') /\ Cardinality(Connected') <= Cardinality(Connected)
    BY <1>2, FS_Subset DEF PoolOK
  <2>2. Cardinality(Connected') \in Nat
    BY <2>1, FS_CardinalityType
  <2>3. QED
    BY <1>1, <2>1, <2>2, CallSlotsAssumption DEF PoolOK
<1>3. ASSUME NEW r \in Requests, Connect(r)
      PROVE  PoolOK'
  <2>1. PoolHasOne /\ Connected' = Connected \cup {r}
    BY <1>3, ConnectTakesOne
  <2>2. /\ IsFiniteSet(Connected \cup {r})
        /\ Cardinality(Connected \cup {r}) \in {Cardinality(Connected), Cardinality(Connected) + 1}
    BY FS_AddElement DEF PoolOK
  <2>3. QED
    BY <1>1, <2>1, <2>2, CallSlotsAssumption DEF PoolOK, PoolHasOne
<1>4. ASSUME NEW r \in Requests, (\E j \in Asks : Start(r, j)) \/ Proceed(r) \/ Timeout(r)
      PROVE  PoolOK'
  BY <1>2, <1>3, <1>4, OnlyConnectConnects DEF Proceed
<1>5. CASE UNCHANGED vars
  BY <1>2, <1>5 DEF vars, Connected
<1>6. QED
  BY <1>4, <1>5 DEF Next

\* The pool is kept within its size from the start on.
LEMMA PoolHolds == Spec => []PoolOK
<1>1. Init => PoolOK
  <2> SUFFICES ASSUME Init PROVE PoolOK
    OBVIOUS
  <2>1. Connected = {}
    BY DEF Init, Connected
  <2>2. QED
    BY <2>1, FS_EmptySet, CallSlotsAssumption DEF PoolOK
<1>2. SlotInv => TypeOK
  BY DEF SlotInv
<1>3. QED
  BY <1>1, <1>2, SlotInvCorrect, PoolKept, PTL DEF Spec

\* Never more transactions than the pool has connections (DB_POOL_MAX), however
\* many requests there are.
THEOREM PoolIsBounded == Spec => [](Cardinality(Connected) <= PoolSize)
<1>1. PoolOK => Cardinality(Connected) <= PoolSize
  BY DEF PoolOK
<1>2. QED
  BY <1>1, PoolHolds, PTL

-----------------------------------------------------------------------------
(* No circle of waiting transactions *)

\* Of finitely many things numbered by f, one has the highest number: those
\* numbered higher than it are the fewest.
LEMMA OneIsHighest ==
  ASSUME NEW D, IsFiniteSet(D), D # {}, NEW f, \A d \in D : f[d] \in Nat
  PROVE  \E d \in D : \A e \in D : ~(f[d] < f[e])
<1> DEFINE Above(d) == {e \in D : f[d] < f[e]}
           T == {Above(d) : d \in D}
           R == StrictSubsetOrdering(D)
<1>1. IsWellFoundedOn(R, FiniteSubsetsOf(D))
  BY FS_StrictSubsetOrderingWellFounded
<1>2. T \subseteq FiniteSubsetsOf(D) /\ T # {}
  <2>1. \A d \in D : Above(d) \in SUBSET D
    OBVIOUS
  <2>2. FiniteSubsetsOf(D) = SUBSET D
    BY FS_FiniteSubsetsOfFinite
  <2> HIDE DEF Above
  <2>3. T \subseteq SUBSET D
    BY <2>1
  <2>4. T # {}
    <3>1. PICK d \in D : TRUE
      OBVIOUS
    <3>2. Above(d) \in T
      BY <3>1
    <3>3. QED
      BY <3>2
  <2>5. QED
    BY <2>2, <2>3, <2>4
<1>3. \E x \in T : \A y \in T : <<y, x>> \notin R
  <2> HIDE DEF T, R
  <2> QED
    BY <1>1, <1>2, WFMin
<1>4. PICK d \in D : \A e \in D : <<Above(e), Above(d)>> \notin R
  BY <1>3
<1>5. ASSUME NEW e \in D, f[d] < f[e]
      PROVE  FALSE
  <2>1. Above(e) \subseteq Above(d)
    BY <1>5
  <2>2. e \in Above(d) /\ e \notin Above(e)
    BY <1>5
  <2>3. <<Above(e), Above(d)>> \in R
    BY <2>1, <2>2 DEF StrictSubsetOrdering
  <2>4. QED
    BY <1>4, <2>3
<1>6. QED
  BY <1>5

\* If s, whom r waits for, waits itself, it waits for a slot; and if r waits
\* for a slot, s waits for a higher one.
LEMMA WaitingClimbs ==
  ASSUME SlotInv, NEW r \in Requests, NEW s \in Requests, NEW t \in Requests,
         WaitsFor(r, s), WaitsFor(s, t)
  PROVE  /\ stage[s] \in {"slot", "slot2"}
         /\ stage[r] # "row" => /\ stage[s] = "slot2"
                                /\ Slot(r) \in Nat /\ Slot(s) \in Nat
                                /\ Slot(r) < Slot(s)
<1>1. /\ stage[r] \in {"row", "slot", "slot2"}
      /\ stage[s] \in {"row", "slot", "slot2"}
  BY DEF WaitsFor
<1>2. ReqOK(r) /\ ReqOK(s) /\ r # NoReq /\ s # NoReq
  BY CallSlotsAssumption DEF SlotInv
<1>3. CASE stage[r] = "row"
  <2>1. job[r].c \in CallIds /\ rowLock[job[r].c] = s
    BY <1>2, <1>3 DEF ReqOK, AskOK, WaitsFor
  <2>2. stage[s] \in {"slot", "borrow", "commit"}
    BY <1>2, <2>1 DEF SlotInv, HolderOK
  <2>3. QED
    BY <1>1, <1>3, <2>2
<1>4. CASE stage[r] \in {"slot", "slot2"}
  <2>1. Slot(r) \in Members /\ slotLock[Slot(r)] = s
    BY <1>2, <1>4 DEF ReqOK, AskOK, StageOK, WaitsFor, Slot, SlotOrder
  <2>2. /\ Slot(r) \in {job[s].m, job[s].n}
        /\ stage[s] \in {"slot2", "borrow", "commit"}
    BY <1>2, <2>1 DEF SlotInv, HolderOK
  <2>3. stage[s] = "slot2"
    BY <1>1, <2>2
  <2>4. job[s].kind = "direct" /\ job[s].m \in Members /\ job[s].n \in Members
    BY <1>2, <2>3 DEF ReqOK, AskOK, StageOK
  <2>5. Slot(s) = SlotOrder(job[s])[2] /\ slotLock[Slot(s)] = t /\ t # s
    BY <2>3, <2>4 DEF Slot, WaitsFor
  <2>6. Slot(r) # Slot(s)
    BY <2>1, <2>5
  <2>7. job[s].m \in Nat /\ job[s].n \in Nat
    BY <2>4, CallSlotsAssumption
  <2>8. Slot(r) < Slot(s) /\ Slot(r) \in Nat /\ Slot(s) \in Nat
    BY <2>2, <2>5, <2>6, <2>7 DEF SlotOrder
  <2>9. QED
    BY <2>3, <2>8
<1>5. QED
  BY <1>1, <1>3, <1>4

\* The locks admit no circle: rows before slots, slots in ascending order.
LEMMA NoCircle == SlotInv /\ PoolOK => NoWaitCycle
<1> SUFFICES ASSUME SlotInv, PoolOK, NEW S \in (SUBSET Requests) \ {{}}
             PROVE  \E r \in S : \A s \in S : ~WaitsFor(r, s)
  BY DEF NoWaitCycle
<1> SUFFICES ASSUME \A r \in S : \E s \in S : WaitsFor(r, s)
             PROVE  FALSE
  OBVIOUS
<1> DEFINE D == {r \in S : stage[r] = "slot2"}
           f == [r \in Requests |-> Slot(r)]
<1>1. ASSUME NEW r \in S, stage[r] # "row"
      PROVE  \E s \in D : Slot(r) \in Nat /\ Slot(s) \in Nat /\ Slot(r) < Slot(s)
  <2>1. PICK s \in S : WaitsFor(r, s)
    OBVIOUS
  <2>2. PICK t \in S : WaitsFor(s, t)
    OBVIOUS
  <2>3. QED
    BY <1>1, <2>1, <2>2, WaitingClimbs
<1>2. D # {}
  <2>0. S # {}
    OBVIOUS
  <2>1. PICK r : r \in S
    BY <2>0
  <2>2. PICK s \in S : WaitsFor(r, s)
    BY <2>1
  <2>3. PICK t \in S : WaitsFor(s, t)
    OBVIOUS
  <2>4. stage[s] # "row"
    BY <2>1, <2>2, <2>3, WaitingClimbs
  <2>5. QED
    BY <1>1, <2>4
<1>3. IsFiniteSet(D)
  <2>1. D \in SUBSET Connected
    BY DEF Connected
  <2>2. QED
    BY <2>1, FS_Subset DEF PoolOK
<1>4. \A r \in D : \E s \in D : f[r] \in Nat /\ f[r] < f[s]
  <2>1. \A r \in D : stage[r] # "row"
    OBVIOUS
  <2>2. QED
    BY <1>1, <2>1
<1> HIDE DEF D, f
<1>5. \E d \in D : \A e \in D : ~(f[d] < f[e])
  BY <1>2, <1>3, <1>4, OneIsHighest
<1>6. QED
  BY <1>4, <1>5

\* The transactions never wait for each other in a circle, for any number of
\* requests, calls and members: PostgreSQL has no deadlock of them to break.
THEOREM NoDeadlockAmongLocks == Spec => []NoWaitCycle
<1>1. Spec => []PoolOK
  BY PoolHolds
<1>2. QED
  BY <1>1, SlotInvCorrect, NoCircle, PTL

=============================================================================
