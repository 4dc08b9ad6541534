------------------------------ MODULE CallSlots ------------------------------
(***************************************************************************)
(* Inside the transactions of src/services/callsService.ts: who waits for  *)
(* which lock and for which connection of the pool, and what each one has  *)
(* read when it commits.  Module Calls takes a transaction as one step;    *)
(* this one shows why it may.                                              *)
(*                                                                         *)
(* A transaction holds a connection of the pool from pool.connect() to its *)
(* end, the row of its call (SELECT ... FOR UPDATE) and the advisory lock  *)
(* of every member it puts into a call; some handlers ask the pool for a   *)
(* second connection while they hold all that (isMemberInConversation,     *)
(* getParticipantRoleInConversation).  Reads and writes under the locks    *)
(* see committed rows only, so the writes of a transaction are made where  *)
(* it commits.                                                             *)
(***************************************************************************)
EXTENDS Naturals, FiniteSets

CONSTANTS
  Members,      \* member ids: the advisory locks are taken in their order
  CallIds,
  Requests,     \* requests (and sweeps) the server may be serving at a time
  PoolSize,     \* DB_POOL_MAX
  NoReq, NoMember, NoCall

ASSUME CallSlotsAssumption ==
  /\ Members \subseteq Nat
  /\ PoolSize \in Nat \ {0}
  /\ NoReq \notin Requests
  /\ NoMember \notin Members
  /\ NoCall \notin CallIds

VARIABLES
  call,     \* the committed rows of calls
  row,      \* the committed rows of call_participants
  job,      \* job[r]: what request r asks for
  stage,    \* stage[r]: what r is about to do
  rowLock,  \* rowLock[c]: the request that holds the row of c
  slotLock  \* slotLock[m]: the request that holds the advisory lock of m

vars == <<call, row, job, stage, rowLock, slotLock>>
locks == <<rowLock, slotLock>>
rows == <<call, row>>

-----------------------------------------------------------------------------

\* "miss" stands for the handlers that finish a ringing call under its row
\* lock alone (the ring timeout, declineCall, cancelCall), "ghost" for the
\* ghost sweep.
Kinds == {"direct", "group", "accept", "token", "join", "leave", "miss", "ghost"}
Creates == {"direct", "group"}
Stages == {"idle", "connect", "row", "slot", "slot2", "borrow", "commit"}

\* "waiting" counts as active here; chat: the call belongs to a conversation,
\* and is then closed, as a direct call is.
Call == [status : {"unused", "ringing", "active", "over"},
         type : {"direct", "group"}, chat : BOOLEAN]

\* "in" stands for ringing and joined, "out" for the other statuses.
RowStatus == {"absent", "in", "out"}

Job == [kind : Kinds \cup {"none"}, m : Members \cup {NoMember},
        n : Members \cup {NoMember}, c : CallIds \cup {NoCall}, chat : BOOLEAN]

NoJob == [kind |-> "none", m |-> NoMember, n |-> NoMember, c |-> NoCall,
          chat |-> FALSE]

TypeOK ==
  /\ call \in [CallIds -> Call]
  /\ row \in [CallIds -> [Members -> RowStatus]]
  /\ job \in [Requests -> Job]
  /\ stage \in [Requests -> Stages]
  /\ rowLock \in [CallIds -> Requests \cup {NoReq}]
  /\ slotLock \in [Members -> Requests \cup {NoReq}]

Init ==
  /\ call = [c \in CallIds |->
               [status |-> "unused", type |-> "group", chat |-> FALSE]]
  /\ row = [c \in CallIds |-> [m \in Members |-> "absent"]]
  /\ job = [r \in Requests |-> NoJob]
  /\ stage = [r \in Requests |-> "idle"]
  /\ rowLock = [c \in CallIds |-> NoReq]
  /\ slotLock = [m \in Members |-> NoReq]

-----------------------------------------------------------------------------

Live(c) == call[c].status \in {"ringing", "active"}

In(c) == {m \in Members : row[c][m] = "in"}

\* The committed rows that assertMemberFreeInTx looks for.
MemberFree(m, c) == \A d \in CallIds \ {c} : ~(Live(d) /\ m \in In(d))

\* Connections in use: every transaction has one.
Connected == {r \in Requests : stage[r] \notin {"idle", "connect"}}

PoolHasOne == Cardinality(Connected) < PoolSize

\* Mutant: the caller's lock first.
AsAsked(j) == <<j.m, j.n>>

\* createDirectCall locks the two members in the order of their ids.
SlotOrder(j) == IF j.m <= j.n THEN <<j.m, j.n>> ELSE <<j.n, j.m>>

\* The member whose advisory lock r asks for.
Slot(r) ==
  LET j == job[r] IN
  IF j.kind = "direct"
  THEN SlotOrder(j)[IF stage[r] = "slot" THEN 1 ELSE 2]
  ELSE j.m

\* Mutant: pg_advisory_lock, which the end of the transaction does not release.
FinishKeepingSlots(r) ==
  /\ job' = [job EXCEPT ![r] = NoJob]
  /\ stage' = [stage EXCEPT ![r] = "idle"]
  /\ rowLock' = [c \in CallIds |-> IF rowLock[c] = r THEN NoReq ELSE rowLock[c]]
  /\ UNCHANGED slotLock

\* The end of a transaction, committed or rolled back.
Finish(r) ==
  /\ job' = [job EXCEPT ![r] = NoJob]
  /\ stage' = [stage EXCEPT ![r] = "idle"]
  /\ rowLock' = [c \in CallIds |-> IF rowLock[c] = r THEN NoReq ELSE rowLock[c]]
  /\ slotLock' = [m \in Members |-> IF slotLock[m] = r THEN NoReq
                                                        ELSE slotLock[m]]

Rollback(r) == Finish(r) /\ UNCHANGED rows

Goto(r, s) == stage' = [stage EXCEPT ![r] = s]

-----------------------------------------------------------------------------
(* A request, step by step *)

\* A new call has an id of its own (randomUUID).
Start(r, j) ==
  /\ stage[r] = "idle"
  /\ j.kind \in Creates =>
       /\ call[j.c].status = "unused"
       /\ \A s \in Requests : job[s].kind \in Creates => job[s].c # j.c
  /\ j.kind \notin Creates => call[j.c].status # "unused"
  /\ job' = [job EXCEPT ![r] = j]
  /\ Goto(r, "connect")
  /\ UNCHANGED <<rows, locks>>

\* withTransaction: pool.connect() and BEGIN.
Connect(r) ==
  /\ stage[r] = "connect"
  /\ PoolHasOne
  /\ Goto(r, IF job[r].kind \in Creates THEN "slot" ELSE "row")
  /\ UNCHANGED <<rows, job, locks>>

\* Mutant: connectionTimeoutMillis left at the driver's default, no timeout.
NoTimeout(r) == FALSE /\ UNCHANGED vars

\* connectionTimeoutMillis: the pool gives up on a request it could not
\* serve, and the transaction that asked for a second connection rolls back.
Timeout(r) ==
  /\ stage[r] \in {"connect", "borrow"}
  /\ ~PoolHasOne
  /\ Rollback(r)

\* Mutant: whoever has a row in the call is not looked for in the others.
AfterRowTrusting(r) ==
  LET j == job[r]
      was == row[j.c][j.m]
  IN CASE j.kind \in {"miss", "ghost"} -> "commit"
       [] j.kind = "accept" -> "slot"
       [] j.kind = "token"  -> IF was # "absent" THEN "commit" ELSE "slot"
       [] j.kind = "join"   -> IF call[j.c].chat THEN "borrow"
                               ELSE IF was # "absent" THEN "commit" ELSE "slot"
       [] OTHER             -> IF call[j.c].chat THEN "borrow" ELSE "commit"

\* With the row of the call locked and read.
AfterRow(r) ==
  LET j == job[r]
      was == row[j.c][j.m]
  IN CASE j.kind \in {"miss", "ghost"} -> "commit"
       [] j.kind = "accept" -> "slot"
       [] j.kind = "token"  -> IF was = "in" THEN "commit" ELSE "slot"
       [] j.kind = "join"   -> IF call[j.c].chat THEN "borrow"
                               ELSE IF was = "in" THEN "commit" ELSE "slot"
       [] OTHER             -> IF call[j.c].chat THEN "borrow" ELSE "commit"

\* What each handler asks of the call it has locked.
RowAllows(j) ==
  CASE j.kind = "miss"   -> call[j.c].status = "ringing"
    [] j.kind = "accept" -> /\ call[j.c].type = "direct"
                            /\ call[j.c].status = "ringing"
                            /\ row[j.c][j.m] # "absent"
    [] j.kind = "join"   -> call[j.c].type = "group" /\ Live(j.c)
    [] j.kind = "ghost"  -> call[j.c].status = "active"
    [] OTHER             -> Live(j.c)

LockRow(r) ==
  LET c == job[r].c IN
  /\ stage[r] = "row"
  /\ rowLock[c] = NoReq
  /\ IF RowAllows(job[r])
     THEN /\ rowLock' = [rowLock EXCEPT ![c] = r]
          /\ Goto(r, AfterRow(r))
          /\ UNCHANGED <<rows, job, slotLock>>
     ELSE Rollback(r)

\* Mutant: the callee is not looked for.
SlotAllowsCaller(r) ==
  LET j == job[r] IN
  /\ MemberFree(j.m, j.c)
  /\ j.kind = "token" /\ row[j.c][j.m] = "absent" =>
       call[j.c].type = "group" /\ call[j.c].chat

\* With the last lock it needs: is everybody it concerns free?  A first token
\* still has to ask for the membership of the chat.
SlotAllows(r) ==
  LET j == job[r] IN
  /\ MemberFree(j.m, j.c)
  /\ j.kind = "direct" => MemberFree(j.n, j.c)
  /\ j.kind = "token" /\ row[j.c][j.m] = "absent" =>
       call[j.c].type = "group" /\ call[j.c].chat

AfterSlot(r) ==
  LET j == job[r] IN
  IF j.kind = "direct" /\ stage[r] = "slot" THEN "slot2"
  ELSE IF j.kind = "token" /\ row[j.c][j.m] = "absent" THEN "borrow"
  ELSE "commit"

\* Mutant: the members are looked for without waiting for their locks.
LockSlotAtOnce(r) ==
  /\ stage[r] \in {"slot", "slot2"}
  /\ IF AfterSlot(r) = "slot2" \/ SlotAllows(r)
     THEN /\ slotLock' = [slotLock EXCEPT ![Slot(r)] = r]
          /\ Goto(r, AfterSlot(r))
          /\ UNCHANGED <<rows, job, rowLock>>
     ELSE Rollback(r)

LockSlot(r) ==
  /\ stage[r] \in {"slot", "slot2"}
  /\ slotLock[Slot(r)] \in {NoReq, r}
  /\ IF AfterSlot(r) = "slot2" \/ SlotAllows(r)
     THEN /\ slotLock' = [slotLock EXCEPT ![Slot(r)] = r]
          /\ Goto(r, AfterSlot(r))
          /\ UNCHANGED <<rows, job, rowLock>>
     ELSE Rollback(r)

\* One query on another connection, given back at once; its answer (a member
\* of the chat or not, a moderator or not) is not modelled.
Borrow(r) ==
  LET j == job[r] IN
  /\ stage[r] = "borrow"
  /\ PoolHasOne
  /\ \/ /\ j.kind = "leave" /\ call[j.c].type = "direct" => row[j.c][j.m] # "absent"
        /\ Goto(r, IF j.kind = "join" /\ row[j.c][j.m] # "in"
                   THEN "slot" ELSE "commit")
        /\ UNCHANGED <<rows, job, locks>>
     \/ Rollback(r)

-----------------------------------------------------------------------------
(* Commits: the writes of the handlers, as far as they bind members *)

NewCall(r) ==
  LET j == job[r] IN
  /\ j.kind \in Creates
  /\ call' = [call EXCEPT ![j.c] =
       [status |-> IF j.kind = "direct" THEN "ringing" ELSE "active",
        type |-> j.kind, chat |-> j.kind = "direct" \/ j.chat]]
  /\ row' = [row EXCEPT ![j.c][j.m] = "in",
                        ![j.c][IF j.kind = "direct" THEN j.n ELSE j.m] = "in"]

Answer(r) ==
  LET j == job[r] IN
  /\ j.kind = "accept"
  /\ call' = [call EXCEPT ![j.c].status = "active"]
  /\ row' = [row EXCEPT ![j.c][j.m] = "in"]

Join(r) ==
  LET j == job[r] IN
  /\ j.kind \in {"token", "join"}
  /\ row' = [row EXCEPT ![j.c][j.m] = "in"]
  /\ UNCHANGED call

\* Whoever leaves a direct call ends it, and a moderator may end a conference
\* for all; the ghost sweep clears the row, of a direct call too.
Leave(r) ==
  LET j == job[r]
      left == [row EXCEPT ![j.c][j.m] = IF @ = "absent" THEN @ ELSE "out"]
      over == [call EXCEPT ![j.c].status = "over"]
  IN
  /\ j.kind \in {"leave", "ghost"}
  /\ \/ /\ j.kind = "leave"
        /\ call' = over
        /\ UNCHANGED row
     \/ /\ j.kind = "leave" => call[j.c].type = "group"
        /\ row' = left
        /\ call' = IF In(j.c) \subseteq {j.m} THEN over ELSE call

Miss(r) ==
  LET j == job[r] IN
  /\ j.kind = "miss"
  /\ call' = [call EXCEPT ![j.c].status = "over"]
  /\ UNCHANGED row

Commit(r) ==
  /\ stage[r] = "commit"
  /\ NewCall(r) \/ Answer(r) \/ Join(r) \/ Leave(r) \/ Miss(r)
  /\ Finish(r)

-----------------------------------------------------------------------------

Asks ==
  {j \in Job : /\ j.kind # "none" /\ j.m # NoMember /\ j.c # NoCall
               /\ (j.kind = "direct") = (j.n # NoMember)
               /\ j.n # j.m
               /\ j.chat => j.kind = "group"}

\* The next step of what r has begun; at each stage it is one of these.
Proceed(r) == Connect(r) \/ LockRow(r) \/ LockSlot(r) \/ Borrow(r) \/ Commit(r)

Next ==
  \E r \in Requests :
    (\E j \in Asks : Start(r, j)) \/ Proceed(r) \/ Timeout(r)

Spec == Init /\ [][Next]_vars

\* The server goes on with what it has begun.  The pool serves its waiting
\* requests in their order, PostgreSQL the waiters of a lock in theirs:
\* whoever waits is not overtaken for ever, hence strong fairness.
FairSpec ==
  /\ Spec
  /\ \A r \in Requests : SF_vars(Proceed(r)) /\ WF_vars(Timeout(r))

-----------------------------------------------------------------------------
(* Properties *)

\* A lock is held by a transaction that is about that call or member and has
\* come so far, and by nobody once the transaction is over; a transaction
\* that commits a binding holds the locks of all the members it binds.
LocksAreJustified ==
  /\ TypeOK
  /\ \A c \in CallIds : rowLock[c] # NoReq =>
       /\ job[rowLock[c]].c = c
       /\ stage[rowLock[c]] \in {"slot", "borrow", "commit"}
  /\ \A m \in Members : slotLock[m] # NoReq =>
       /\ m \in {job[slotLock[m]].m, job[slotLock[m]].n}
       /\ stage[slotLock[m]] \in {"slot2", "borrow", "commit"}
  /\ \A r \in Requests : stage[r] = "commit" =>
       LET j == job[r] IN
       /\ j.kind \in {"direct", "group", "accept"} => slotLock[j.m] = r
       /\ j.kind = "direct" => slotLock[j.n] = r
       /\ j.kind \in {"token", "join"} =>
            slotLock[j.m] = r \/ row[j.c][j.m] = "in"

\* No member is committed to two live calls, whatever the interleaving of the
\* transactions: each one has looked for the member's other calls under the
\* member's advisory lock.  docs/calls-livekit.md:220.
NoDoubleBooking ==
  \A m \in Members : \A c, d \in CallIds :
    Live(c) /\ Live(d) /\ m \in In(c) \cap In(d) => c = d

\* r waits for a lock that s holds.
WaitsFor(r, s) ==
  /\ r # s
  /\ \/ stage[r] = "row" /\ rowLock[job[r].c] = s
     \/ stage[r] \in {"slot", "slot2"} /\ slotLock[Slot(r)] = s

\* The transactions never wait for each other in a circle, so PostgreSQL has
\* no deadlock to break: rows are locked before slots, slots in the order of
\* the ids, and who holds a slot waits for no row.
NoWaitCycle ==
  \A S \in (SUBSET Requests) \ {{}} :
    \E r \in S : \A s \in S : ~WaitsFor(r, s)

\* What a transaction is about to commit is still true when it commits: the
\* call it has read is live and the members it binds are in no other call.
CommitsWhatItRead ==
  \A r \in Requests : stage[r] = "commit" =>
    LET j == job[r] IN
    /\ j.kind \notin Creates => Live(j.c)
    /\ j.kind \notin {"leave", "miss", "ghost"} => MemberFree(j.m, j.c)
    /\ j.kind = "direct" => MemberFree(j.n, j.c)

\* The call m is bound to.
Occupied(m) ==
  IF \E c \in CallIds : Live(c) /\ m \in In(c)
  THEN CHOOSE c \in CallIds : Live(c) /\ m \in In(c)
  ELSE NoCall

Slots == INSTANCE MemberSlots WITH
  occupant <- [m \in Members |-> Occupied(m)], Free <- NoCall

\* The locking implements the abstract promise, as module Calls does.
OneSlotEach == Slots!Spec

\* Every request is answered: a request that waits for a lock gets it, and
\* when transactions hold all the connections and wait for more, the
\* connection timeout lets them fail instead of waiting for ever.
RequestsFinish == \A r \in Requests : stage[r] # "idle" ~> stage[r] = "idle"
=============================================================================
