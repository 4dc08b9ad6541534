-------------------------- MODULE CollectionClaims --------------------------
(***************************************************************************)
(* Who collects the prayer needs of whom in one week:                      *)
(* src/services/cycleCollectionClaimsService.ts and the distribution of    *)
(* src/services/DistributionService.ts, as requests that send their        *)
(* statements one by one through the pool.                                 *)
(*                                                                         *)
(* Reading the page repairs it first: claims on members who have left the  *)
(* queue are moved to members who have no claim, between a BEGIN and a     *)
(* COMMIT that are statements like any other.  The queue (members,         *)
(* prayer_cycle_roster_custom_order) is changed elsewhere, at any moment.  *)
(***************************************************************************)
EXTENDS PooledTable, FiniteSets

CONSTANTS
  Members,       \* those who may be in the queue, in the order of the queue
  Coordinators,  \* is_collection_coordinator
  Requests,      \* HTTP requests under way at a time
  Kinds,         \* which requests are made
  MaxFaults,     \* bound: failed statements, lost or missing connections
  MaxMoves,      \* bound: members who enter or leave the queue
  Asked,         \* bound: the members whom requests name or take out of the queue
  Askers,        \* bound: the coordinators who ask for somebody
  Returning,     \* bound: the members who enter the queue
  MaxArrivals,   \* bound: requests that come in
  Given,         \* the claims of the week and the queue they find
  NoOne, NoConn, NoMember

ASSUME ClaimsAssumption ==
  /\ Members \subseteq Nat /\ IsFiniteSet(Members)
  /\ Keys = Members /\ Values = Coordinators /\ NoRow = NoOne
  /\ NoOne \notin Coordinators /\ NoConn \notin Conns /\ NoMember \notin Members
  /\ MaxFaults \in Nat /\ MaxMoves \in Nat /\ MaxArrivals \in Nat
  /\ Asked \subseteq Members /\ Returning \subseteq Members
  /\ Askers \subseteq Coordinators
  /\ Given \subseteq [claims : Contents, queue : SUBSET Members]
  /\ Kinds \subseteq {"visit", "leave", "assign", "claim", "release", "spread"}

VARIABLES
  queue,   \* who is in the queue of the cycle
  req,     \* what each request is doing
  faults,  \* how many failures there have been
  moves,   \* how often the queue has changed
  arrived  \* how many requests have come in

counters == <<faults, moves, arrived>>
vars == <<table, conn, queue, req, faults, moves, arrived>>

\* The statement a request has sent or is about to send.
Stages == {"idle", "schema", "queue", "claims", "begin", "delete", "place",
           "commit", "rollback", "member", "upsert", "look", "insert",
           "again", "drop", "savebegin", "savecommit", "write"}

\* conn: the connection the statement was sent to; who, by: the member and
\* the coordinator asked for; roster, seen: the queue and the claims as they
\* were read; todo: the members whose rows are still to be handled; taken:
\* claimedSet.  home, clean are history: the connection BEGIN went to, and
\* whether the request has had its transaction and, since it read it, the
\* table for itself.
RequestRecords ==
  [kind : Kinds \cup {"visit", "none"}, at : Stages, conn : Conns \cup {NoConn},
   who : Members \cup {NoMember}, by : Coordinators \cup {NoOne},
   roster : SUBSET Members, todo : SUBSET Members, taken : SUBSET Members,
   seen : Contents, home : Conns \cup {NoConn}, clean : BOOLEAN]

Idle == [kind |-> "none", at |-> "idle", conn |-> NoConn, who |-> NoMember,
         by |-> NoOne, roster |-> {}, todo |-> {}, taken |-> {},
         seen |-> [m \in Members |-> NoOne], home |-> NoConn, clean |-> FALSE]

\* Every variable has its type.
TypeOK ==
  /\ PoolTyped
  /\ queue \subseteq Members
  /\ req \in [Requests -> RequestRecords]
  /\ faults \in 0..MaxFaults /\ moves \in 0..MaxMoves /\ arrived \in 0..MaxArrivals

Init ==
  /\ \E given \in Given : table = given.claims /\ queue = given.queue
  /\ conn = [c \in Conns |-> Quiet]
  /\ req = [r \in Requests |-> Idle]
  /\ faults = 0 /\ moves = 0 /\ arrived = 0

-----------------------------------------------------------------------------
Least(S) == CHOOSE m \in S : \A n \in S : m <= n

\* The stale claim to be handled next: that of the member who has just left,
\* then by id.  Nobody in staleRemovals has a place in the queue, so
\* rosterIndex is -1 for all of them and plays no part.
Stale(q) == IF q.kind = "leave" /\ q.who \in q.todo THEN q.who ELSE Least(q.todo)

\* findNextUnassignedRosterMember, which starts from -1: the queue's first.
Unassigned(q) == q.roster \ q.taken

\* A statement of r on connection c has been answered, and r goes on as q.
\* Whoever had c for his transaction, or had read the table that has just
\* been changed, has been disturbed.
Answer(r, c, q) ==
  LET own == [q EXCEPT !.conn = NoConn, !.clean = @ /\ q.home \in {NoConn, c}]
  IN  \/ /\ table' = table
         /\ req' = [s \in Requests |->
                      IF s = r THEN own
                      ELSE [req[s] EXCEPT !.clean = @ /\ req[s].home # c]]
      \/ /\ table' # table
         /\ req' = [s \in Requests |->
                      IF s = r THEN own ELSE [req[s] EXCEPT !.clean = FALSE]]

\* The locks a statement asks for.  DELETE locks the rows it finds.
Claimed == {m \in Members : table[m] # NoOne}

Wants(q) ==
  CASE q.at = "schema" -> [lock |-> "owns", rows |-> {}]
    [] q.at \in {"claims", "look", "again"} -> [lock |-> "uses", rows |-> {}]
    [] q.at = "delete" -> [lock |-> "uses", rows |-> {Stale(q)} \cap Claimed]
    [] q.at = "place" -> [lock |-> "uses", rows |-> {Least(Unassigned(q))}]
    [] q.at = "write" -> [lock |-> "uses", rows |-> {Least(q.todo)}]
    [] q.at \in {"upsert", "insert"} -> [lock |-> "uses", rows |-> {q.who}]
    [] q.at = "drop" -> [lock |-> "uses", rows |-> {q.who} \cap Claimed]
    [] OTHER -> [lock |-> "none", rows |-> {}]

\* The statement of r is served: it has reached a connection, waits for no
\* lock and is not in a failed transaction.
Serves(r, stage) ==
  /\ req[r].at = stage /\ req[r].conn # NoConn
  /\ conn[req[r].conn].tx # "failed"
  /\ ~Waits(req[r].conn, Wants(req[r]))

\* After a change the handlers of PATCH read the page.
Visit(q) == [Idle EXCEPT !.kind = "visit", !.at = "schema"]

\* After a stale claim has been handled.
Handled(q) == LET left == q.todo \ {Stale(q)}
              IN  [q EXCEPT !.todo = left,
                            !.at = IF left = {} THEN "commit" ELSE "delete"]

-----------------------------------------------------------------------------
\* A request comes in.  Whoever takes a member out of the queue (updateUser)
\* goes on to reconcile the claims; others may take him out or in as well.
Arrive(r, kind, m, k) ==
  /\ req[r].at = "idle" /\ arrived < MaxArrivals /\ arrived' = arrived + 1
  /\ kind \in Kinds \ {"leave"}
  /\ m = NoMember <=> kind \in {"visit", "spread"}
  /\ k = NoOne <=> kind \in {"visit", "spread", "release"}
  /\ req' = [req EXCEPT ![r] = [Idle EXCEPT !.kind = kind, !.at = "schema",
                                            !.who = m, !.by = k]]
  /\ UNCHANGED <<table, conn, queue, faults, moves>>

Leave(r, m) ==
  /\ req[r].at = "idle" /\ arrived < MaxArrivals /\ arrived' = arrived + 1
  /\ "leave" \in Kinds /\ moves < MaxMoves /\ moves' = moves + 1
  /\ m \in queue /\ queue' = queue \ {m}
  /\ req' = [req EXCEPT ![r] = [Idle EXCEPT !.kind = "leave", !.at = "schema",
                                            !.who = m]]
  /\ UNCHANGED <<table, conn, faults>>

Enter(m) ==
  /\ moves < MaxMoves /\ moves' = moves + 1
  /\ m \notin queue /\ queue' = queue \cup {m}
  /\ UNCHANGED <<table, conn, req, faults, arrived>>

\* query(): the statement gets a connection nobody else has a statement on.
Send(r, c) ==
  /\ req[r].at # "idle" /\ req[r].conn = NoConn
  /\ \A s \in Requests : req[s].conn # c
  /\ req' = [req EXCEPT ![r].conn = c]
  /\ UNCHANGED <<table, conn, queue, counters>>

\* ensureCycleCollectionClaimsWeekScopeSchema: DDL, on every request.
Schema(r) ==
  LET q == req[r]
      next == IF q.kind \in {"visit", "leave", "spread"} THEN "queue" ELSE "member"
  IN  /\ Serves(r, "schema")
      /\ Apply(q.conn, "owns", Nothing)
      /\ Answer(r, q.conn, [q EXCEPT !.at = next])
      /\ UNCHANGED <<queue, counters>>

\* The members of the queue; a distribution goes on to write down its result.
ReadQueue(r) ==
  LET q == req[r]
  IN  /\ Serves(r, "queue")
      /\ UNCHANGED <<table, conn, queue, counters>>
      /\ Answer(r, q.conn,
                CASE q.kind # "spread" -> [q EXCEPT !.roster = queue, !.at = "claims"]
                  [] queue = {} -> Idle
                  [] OTHER -> [q EXCEPT !.todo = queue, !.at = "savebegin"])

\* The claims of the week; without a stale one there is nothing to repair.
ReadClaims(r) ==
  LET q == req[r]
      seen == View(q.conn)
      claimed == {m \in Members : seen[m] # NoOne}
  IN  /\ Serves(r, "claims")
      /\ Apply(q.conn, "uses", Nothing)
      /\ Answer(r, q.conn,
                IF claimed \subseteq q.roster
                  THEN Idle
                  ELSE [q EXCEPT !.seen = seen, !.todo = claimed \ q.roster,
                                 !.taken = claimed \cap q.roster,
                                 !.clean = conn[q.conn].tx = "none",
                                 !.at = "begin"])
      /\ UNCHANGED <<queue, counters>>

BeginShift(r) ==
  LET q == req[r]
  IN  /\ Serves(r, "begin")
      /\ Begin(q.conn)
      /\ Answer(r, q.conn, [q EXCEPT !.home = q.conn,
                                     !.clean = @ /\ conn[q.conn].tx = "none",
                                     !.at = IF q.kind = "spread" THEN "write" ELSE "delete"])
      /\ UNCHANGED <<queue, counters>>

\* DELETE of a stale claim: a row that is no longer there is no error.
DeleteStale(r) ==
  LET q == req[r]
      m == Stale(q)
  IN  /\ Serves(r, "delete")
      /\ Apply(q.conn, "uses", IF View(q.conn)[m] = NoOne THEN Nothing ELSE Row(m, NoOne))
      /\ Answer(r, q.conn, IF Unassigned(q) = {} THEN Handled(q)
                                                 ELSE [q EXCEPT !.at = "place"])
      /\ UNCHANGED <<queue, counters>>

\* Mutant: a member who has been given is not noted in claimedSet.
PlaceForgetful(r) ==
  LET q == req[r]
  IN  /\ Serves(r, "place")
      /\ Apply(q.conn, "uses", Row(Least(Unassigned(q)), q.seen[Stale(q)]))
      /\ Answer(r, q.conn, Handled(q))
      /\ UNCHANGED <<queue, counters>>

\* INSERT ... ON CONFLICT DO UPDATE: the coordinator gets the first member
\* who had nobody when the claims were read.
Place(r) ==
  LET q == req[r]
      n == Least(Unassigned(q))
  IN  /\ Serves(r, "place")
      /\ Apply(q.conn, "uses", Row(n, q.seen[Stale(q)]))
      /\ Answer(r, q.conn, [Handled(q) EXCEPT !.taken = @ \cup {n}])
      /\ UNCHANGED <<queue, counters>>

CommitShift(r) ==
  LET q == req[r]
  IN  /\ q.at = "commit" /\ q.conn # NoConn
      /\ Commit(q.conn)
      /\ Answer(r, q.conn, Idle)
      /\ UNCHANGED <<queue, counters>>

RollbackShift(r) ==
  LET q == req[r]
  IN  /\ q.at = "rollback" /\ q.conn # NoConn
      /\ Rollback(q.conn)
      /\ Answer(r, q.conn, Idle)
      /\ UNCHANGED <<queue, counters>>

\* saveAssignments: a transaction of the same kind about another table.
SaveBegin(r) ==
  LET q == req[r]
  IN  /\ Serves(r, "savebegin")
      /\ Begin(q.conn)
      /\ Answer(r, q.conn, [q EXCEPT !.at = "savecommit"])
      /\ UNCHANGED <<queue, counters>>

SaveCommit(r) ==
  LET q == req[r]
  IN  /\ q.at = "savecommit" /\ q.conn # NoConn
      /\ Commit(q.conn)
      /\ Answer(r, q.conn, [q EXCEPT !.at = "begin"])
      /\ UNCHANGED <<queue, counters>>

\* syncAssignmentsToCycleCollectionClaims: one upsert per participant; which
\* coordinator he has been given is the distribution's choice.
WriteAssignment(r, k) ==
  LET q == req[r]
      m == Least(q.todo)
  IN  /\ Serves(r, "write")
      /\ Apply(q.conn, "uses", Row(m, k))
      /\ Answer(r, q.conn, [q EXCEPT !.todo = @ \ {m},
                                     !.at = IF q.todo = {m} THEN "commit" ELSE "write"])
      /\ UNCHANGED <<queue, counters>>

\* setCycleCollectionClaim: the member must be in the queue.
CheckMember(r) ==
  LET q == req[r]
      next == CASE q.kind = "assign" -> "upsert"
                [] q.kind = "claim" -> "look"
                [] OTHER -> "drop"
  IN  /\ Serves(r, "member")
      /\ UNCHANGED <<table, conn, queue, counters>>
      /\ Answer(r, q.conn, IF q.who \in queue THEN [q EXCEPT !.at = next] ELSE Idle)

\* Mutant: the ids of the member and of the coordinator are swapped.
AssignSwapped(r) ==
  LET q == req[r]
  IN  /\ Serves(r, "upsert")
      /\ Apply(q.conn, "uses", Row(q.who, q.who))
      /\ Answer(r, q.conn, Visit(q))
      /\ UNCHANGED <<queue, counters>>

\* With a coordinator chosen from the list: whoever had the member loses him.
Assign(r) ==
  LET q == req[r]
  IN  /\ Serves(r, "upsert")
      /\ Apply(q.conn, "uses", Row(q.who, q.by))
      /\ Answer(r, q.conn, Visit(q))
      /\ UNCHANGED <<queue, counters>>

\* Without one: the member must be free; after a conflict the row is read
\* once more.
Look(r) ==
  LET q == req[r]
      owner == View(q.conn)[q.who]
  IN  /\ \E stage \in {"look", "again"} : Serves(r, stage)
      /\ Apply(q.conn, "uses", Nothing)
      /\ Answer(r, q.conn,
                CASE owner = q.by -> Visit(q)
                  [] owner = NoOne /\ q.at = "look" -> [q EXCEPT !.at = "insert"]
                  [] OTHER -> Idle)
      /\ UNCHANGED <<queue, counters>>

\* Mutant: the row is written whether it is there or not.
InsertUpsert(r) ==
  LET q == req[r]
  IN  /\ Serves(r, "insert")
      /\ Apply(q.conn, "uses", Row(q.who, q.by))
      /\ Answer(r, q.conn, Visit(q))
      /\ UNCHANGED <<queue, counters>>

\* The row is inserted; a row that is there already is an error.
Insert(r) ==
  LET q == req[r]
      free == View(q.conn)[q.who] = NoOne
  IN  /\ Serves(r, "insert")
      /\ IF free THEN Apply(q.conn, "uses", Row(q.who, q.by)) ELSE Spoil(q.conn)
      /\ Answer(r, q.conn, IF free THEN Visit(q) ELSE [q EXCEPT !.at = "again"])
      /\ UNCHANGED <<queue, counters>>

\* A manager takes a claim back, whoever's it is.
Release(r) ==
  LET q == req[r]
      there == View(q.conn)[q.who] # NoOne
  IN  /\ Serves(r, "drop")
      /\ Apply(q.conn, "uses", IF there THEN Row(q.who, NoOne) ELSE Nothing)
      /\ Answer(r, q.conn, IF there THEN Visit(q) ELSE Idle)
      /\ UNCHANGED <<queue, counters>>

-----------------------------------------------------------------------------
\* An error inside try leads to ROLLBACK, any other ends the request.
Thrown(q) == IF q.at \in {"delete", "place", "write", "commit", "savecommit"}
               THEN [q EXCEPT !.at = "rollback"] ELSE Idle

\* The statement has landed in a transaction that has failed.
Refused(r) ==
  LET q == req[r]
  IN  /\ q.conn # NoConn /\ conn[q.conn].tx = "failed"
      /\ q.at \notin {"commit", "savecommit", "rollback"}
      /\ UNCHANGED <<table, conn, queue, counters>>
      /\ Answer(r, q.conn, Thrown(q))

Fails(r) ==
  LET q == req[r]
  IN  /\ q.conn # NoConn /\ faults < MaxFaults /\ faults' = faults + 1
      /\ Spoil(q.conn)
      /\ Answer(r, q.conn, Thrown(q))
      /\ UNCHANGED <<queue, moves, arrived>>

\* Connections that wait for each other; PostgreSQL fails one statement.
Circle(C) ==
  \A c \in C : \E r \in Requests, d \in C :
    req[r].conn = c /\ WaitsFor(c, d, Wants(req[r]))

Deadlock(r) ==
  LET q == req[r]
  IN  /\ \E C \in SUBSET Conns : q.conn \in C /\ Circle(C)
      /\ Spoil(q.conn)
      /\ Answer(r, q.conn, Thrown(q))
      /\ UNCHANGED <<queue, counters>>

\* A connection is lost, or closed after idleTimeoutMillis: its transaction
\* is gone, and query() sends the statement once more.
Lose(c) ==
  /\ faults < MaxFaults /\ faults' = faults + 1
  /\ conn' = [conn EXCEPT ![c] = Quiet]
  /\ req' = [s \in Requests |->
               [req[s] EXCEPT !.conn = IF @ = c THEN NoConn ELSE @,
                              !.clean = @ /\ req[s].home # c]]
  /\ UNCHANGED <<table, queue, moves, arrived>>

\* connectionTimeoutMillis: the rest of the server, which shares the pool, has
\* kept it busy for too long.  query() does not try again.
NoConnection(r) ==
  /\ req[r].at # "idle" /\ req[r].conn = NoConn
  /\ faults < MaxFaults /\ faults' = faults + 1
  /\ req' = [req EXCEPT ![r] = Thrown(@)]
  /\ UNCHANGED <<table, conn, queue, moves, arrived>>

Statement(r) ==
  \/ Schema(r) \/ ReadQueue(r) \/ ReadClaims(r) \/ BeginShift(r) \/ DeleteStale(r)
  \/ Place(r) \/ CommitShift(r) \/ RollbackShift(r) \/ SaveBegin(r) \/ SaveCommit(r)
  \/ CheckMember(r) \/ Assign(r) \/ Look(r) \/ Insert(r) \/ Release(r)
  \/ \E k \in Coordinators : WriteAssignment(r, k)

Next ==
  \/ \E r \in Requests :
       \/ \E kind \in Kinds, m \in Asked \cup {NoMember},
             k \in Askers \cup {NoOne} : Arrive(r, kind, m, k)
       \/ \E m \in Asked : Leave(r, m)
       \/ \E c \in Conns : Send(r, c)
       \/ Statement(r) \/ Refused(r) \/ Fails(r) \/ Deadlock(r) \/ NoConnection(r)
  \/ \E m \in Returning : Enter(m)
  \/ \E c \in Conns : Lose(c)

Spec == Init /\ [][Next]_vars

-----------------------------------------------------------------------------
Load(t, k) == Cardinality({m \in Members : t[m] = k})

\* What a shift makes of the claims: nobody outside the queue keeps one,
\* nobody in it has his changed, and every coordinator has as many as before
\* unless there was nobody left to give him.
Repairs(old, new, roster) ==
  /\ \A m \in Members \ roster : new[m] = NoOne
  /\ \A m \in roster : old[m] # NoOne => new[m] = old[m]
  /\ \/ \A k \in Coordinators : Load(new, k) = Load(old, k)
     \/ \A m \in roster : new[m] # NoOne

\* A shift that had its transaction and the table for itself is a whole: it
\* has moved every stale claim when it ends with COMMIT and has changed
\* nothing when it ends with ROLLBACK (reconcileCollectionClaimsForWeekScope).
ShiftIsWhole ==
  [][\A r \in Requests :
       LET q == req[r]
       IN  q.kind # "spread" /\ q.clean /\ q.conn = q.home /\ q.at \in {"commit", "rollback"}
             /\ req'[r].at = "idle"
           => IF q.at = "commit" THEN Repairs(q.seen, table', q.roster)
                                 ELSE table' = q.seen]_vars

\* Choosing a member for oneself takes him from nobody, however stale the
\* look at the table was (setCycleCollectionClaim without a coordinator).
OwnClaimTakesNothing ==
  [][\A r \in Requests, c \in Conns, m \in Members :
       req[r].kind = "claim" /\ req[r].conn = c /\ req'[r].kind = "visit"
         => View(c)[m] \in {NoOne, View(c)'[m]}]_vars

\* The shift gives a coordinator a member who has none: it takes nobody from
\* a coordinator who has him ("на следующих без назначения").
ShiftTakesOnlyFree ==
  [][\A r \in Requests :
       req[r].at = "place" /\ req'[r].at \in {"delete", "commit"}
         => View(req[r].conn)[Least(Unassigned(req[r]))]
              \in {NoOne, req[r].seen[Stale(req[r])]}]_vars
=============================================================================
