---------------------------- MODULE ClaimsProofs ----------------------------
(***************************************************************************)
(* Proofs about CollectionClaims, for any number of members, coordinators, *)
(* requests and connections.                                               *)
(*                                                                         *)
(* A choice for oneself takes nobody's member, although the check and the  *)
(* insertion are two statements, possibly over different connections and   *)
(* possibly inside a transaction of somebody else's.  The argument is      *)
(* local: whatever has happened in between, only two statements end such a *)
(* request with success, and neither changes a row that says something     *)
(* else.  What has to be known of the rest is which statements a kind of   *)
(* request can come to (Path).                                             *)
(*                                                                         *)
(* A shift that is left alone is a whole.  The invariant is that of a loop *)
(* (Progress), said of what the shift's open transaction sees of the       *)
(* table, and holds as long as nobody has disturbed it (Whole): a          *)
(* statement of somebody else's either leaves the table and the shift's    *)
(* connection as they are or takes clean from it.                          *)
(***************************************************************************)
EXTENDS CollectionClaims, FiniteSetTheorems, TLAPS

\* What a request that has come to a statement is about.
Path(q) ==
  /\ q.at = "idle" <=> q.kind = "none"
  /\ q.at \in {"member", "upsert", "look", "insert", "again", "drop"}
       => q.who \in Members /\ q.kind \in {"assign", "claim", "release"}
  /\ q.at = "schema" /\ q.kind \notin {"visit", "leave", "spread"}
       => q.who \in Members /\ q.kind \in {"assign", "claim", "release"}
  /\ q.at \in {"schema", "member"} /\ q.kind \in {"assign", "claim"}
       => q.by \in Coordinators
  /\ q.at = "upsert" => q.kind = "assign" /\ q.by \in Coordinators
  /\ q.at \in {"look", "insert", "again"} => q.kind = "claim" /\ q.by \in Coordinators
  /\ q.at = "drop" => q.kind = "release"
  /\ q.at \in {"begin", "savebegin", "savecommit", "delete", "place", "write"}
       => q.todo # {}
  /\ q.at = "place" => Unassigned(q) # {}

Inv == TypeOK /\ \A r \in Requests : Path(req[r])

-----------------------------------------------------------------------------
\* The order of the natural numbers, as a set of pairs, is well-founded.
Below == {p \in Nat \X Nat : p[1] < p[2]}

\* No infinite descent below a natural number.
LEMMA BelowWellFounded == IsWellFoundedOn(Below, Nat)
  BY NatLessThanWellFounded DEF OpToRel, Below

\* A set of members has a least one.
LEMMA LeastIsIn == \A S \in SUBSET Members : S # {} => Least(S) \in S
<1> SUFFICES ASSUME NEW S \in SUBSET Members, S # {} PROVE Least(S) \in S
  OBVIOUS
<1>1. S \subseteq Nat
  BY ClaimsAssumption
<1>2. \E m \in S : \A n \in S : <<n, m>> \notin Below
  BY <1>1, BelowWellFounded, WFMin
<1>3. PICK m \in S : \A n \in S : <<n, m>> \notin Below
  BY <1>2
<1>4. \A n \in S : m <= n
  <2> SUFFICES ASSUME NEW n \in S PROVE m <= n
    OBVIOUS
  <2>1. m \in Nat /\ n \in Nat
    BY <1>1
  <2>2. <<n, m>> \notin Below
    BY <1>3
  <2>3. ~(n < m)
    <3>1. SUFFICES ASSUME n < m PROVE FALSE
      OBVIOUS
    <3>2. <<n, m>> \in Nat \X Nat /\ <<n, m>>[1] < <<n, m>>[2]
      BY <2>1, <3>1
    <3> QED
      BY <2>2, <3>2 DEF Below
  <2> QED
    BY <2>1, <2>3
<1> QED
  BY <1>4 DEF Least

\* A statement changes rows of the table, and keeps the pool well typed.
LEMMA OneRow == \A k \in Keys, v \in Values \cup {NoRow} : Row(k, v) \in Changes
<1> SUFFICES ASSUME NEW k \in Keys, NEW v \in Values \cup {NoRow}
             PROVE  Row(k, v) \in Changes
  OBVIOUS
<1>1. Row(k, v) \in [{k} -> Values \cup {NoRow}]
  BY DEF Row
<1>2. {k} \in SUBSET Keys
  OBVIOUS
<1> QED
  BY <1>1, <1>2 DEF Changes

\* Changing nothing is a change.
LEMMA NoRows == Nothing \in Changes
<1>1. Nothing \in [{} -> Values \cup {NoRow}]
  BY DEF Nothing
<1> QED
  BY <1>1 DEF Changes

\* A change put on the table leaves a table.
LEMMA OnTable == \A f \in Changes, g \in Contents : On(f, g) \in Contents
  BY DEF On, Changes, Contents

\* Two changes of a transaction, one after the other, are a change.
LEMMA OnChanges == \A f, g \in Changes : On(f, g) \in Changes
<1> SUFFICES ASSUME NEW f \in Changes, NEW g \in Changes PROVE On(f, g) \in Changes
  OBVIOUS
<1>1. PICK K \in SUBSET Keys : f \in [K -> Values \cup {NoRow}]
  BY DEF Changes
<1>2. PICK L \in SUBSET Keys : g \in [L -> Values \cup {NoRow}]
  BY DEF Changes
<1>3. On(f, g) \in [K \cup L -> Values \cup {NoRow}]
  BY <1>1, <1>2 DEF On
<1>4. K \cup L \in SUBSET Keys
  OBVIOUS
<1> QED
  BY <1>3, <1>4 DEF Changes

\* A connection at rest is typed, and so is one whose transaction has failed.
LEMMA QuietTyped == Quiet \in Connections /\ [Quiet EXCEPT !.tx = "failed"] \in Connections
  BY NoRows DEF Quiet, Connections

\* A write keeps the pool typed.
LEMMA ApplyTyped ==
  ASSUME PoolTyped, NEW c \in Conns, NEW lock \in {"none", "uses", "owns"},
         NEW ch \in Changes, Apply(c, lock, ch)
  PROVE  PoolTyped'
<1>1. CASE conn[c].tx = "open"
  <2>1. conn[c] \in Connections
    BY DEF PoolTyped
  <2>2. On(ch, conn[c].rows) \in Changes
    BY <2>1, OnChanges DEF Connections
  <2>3. Stronger(conn[c].lock, lock) \in {"none", "uses", "owns"}
    BY DEF Stronger
  <2>4. conn' = [conn EXCEPT ![c].rows = On(ch, @), ![c].lock = Stronger(@, lock)]
        /\ table' = table
    BY <1>1 DEF Apply
  <2>5. conn'[c] \in Connections
    BY <2>1, <2>2, <2>3, <2>4 DEF PoolTyped, Connections
  <2> QED
    BY <2>4, <2>5 DEF PoolTyped
<1>2. CASE conn[c].tx # "open"
  BY <1>2, OnTable DEF Apply, PoolTyped
<1> QED
  BY <1>1, <1>2

\* BEGIN, COMMIT, ROLLBACK and the end of a connection keep the pool typed.
LEMMA EndTyped ==
  ASSUME PoolTyped, NEW c \in Conns,
         Begin(c) \/ Commit(c) \/ Rollback(c) \/ Spoil(c)
  PROVE  PoolTyped'
<1>0. conn[c] \in Connections
  BY DEF PoolTyped
<1>1. CASE Begin(c)
  BY <1>0, <1>1 DEF Begin, PoolTyped, Connections
<1>2. CASE Commit(c)
  <2>1. conn[c].rows \in Changes
    BY <1>0 DEF Connections
  <2>2. table' \in Contents
    BY <1>2, <2>1, OnTable DEF Commit, PoolTyped
  <2> QED
    BY <1>2, <2>2, QuietTyped DEF Commit, PoolTyped
<1>3. CASE Rollback(c)
  BY <1>3, QuietTyped DEF Rollback, PoolTyped
<1>4. CASE Spoil(c)
  BY <1>0, <1>4, QuietTyped DEF Spoil, PoolTyped
<1> QED
  BY <1>1, <1>2, <1>3, <1>4

-----------------------------------------------------------------------------
\* What a request does next depends on these fields only.
Same(p, q) ==
  /\ p.kind = q.kind /\ p.at = q.at /\ p.who = q.who /\ p.by = q.by
  /\ p.roster = q.roster /\ p.todo = q.todo /\ p.taken = q.taken

\* Requests that agree on where they are and what they read are on the same path.
LEMMA SamePath == \A p, q : Same(p, q) /\ Path(q) => Path(p)
  BY DEF Same, Path, Unassigned

\* The idle request is typed.
LEMMA IdleTyped == Idle \in RequestRecords /\ Path(Idle)
<1>1. [m \in Members |-> NoOne] \in Contents
  BY ClaimsAssumption DEF Contents
<1>2. Idle \in RequestRecords
  BY <1>1 DEF Idle, RequestRecords, Stages
<1>3. Path(Idle)
  BY DEF Idle, Path
<1> QED
  BY <1>2, <1>3

\* A handler that goes on to read the page is typed.
LEMMA VisitTyped == \A q : Visit(q) \in RequestRecords /\ Path(Visit(q))
<1> SUFFICES ASSUME NEW q PROVE Visit(q) \in RequestRecords /\ Path(Visit(q))
  OBVIOUS
<1>1. [m \in Members |-> NoOne] \in Contents
  BY ClaimsAssumption DEF Contents
<1>2. Visit(q) \in RequestRecords
  BY <1>1 DEF Visit, Idle, RequestRecords, Stages
<1>3. Path(Visit(q))
  BY DEF Visit, Idle, Path
<1> QED
  BY <1>2, <1>3

\* Where a statement was sent and whether it was disturbed does not matter.
LEMMA Moved ==
  \A q \in RequestRecords, c \in Conns \cup {NoConn}, b \in BOOLEAN :
    /\ [q EXCEPT !.conn = c, !.clean = b] \in RequestRecords
    /\ Same([q EXCEPT !.conn = c, !.clean = b], q)
<1> SUFFICES ASSUME NEW q \in RequestRecords, NEW c \in Conns \cup {NoConn},
                    NEW b \in BOOLEAN
             PROVE  /\ [q EXCEPT !.conn = c, !.clean = b] \in RequestRecords
                    /\ Same([q EXCEPT !.conn = c, !.clean = b], q)
  OBVIOUS
<1> DEFINE p == [q EXCEPT !.conn = c]
<1>1. p \in RequestRecords /\ Same(p, q)
  BY DEF RequestRecords, Same
<1>2. [q EXCEPT !.conn = c, !.clean = b] = [p EXCEPT !.clean = b]
  BY DEF RequestRecords
<1> HIDE DEF p
<1>3. [p EXCEPT !.clean = b] \in RequestRecords /\ Same([p EXCEPT !.clean = b], p)
  BY <1>1 DEF RequestRecords, Same
<1> QED
  BY <1>1, <1>2, <1>3 DEF Same

\* Whether a request is clean says nothing of its path.
LEMMA Stained ==
  \A q \in RequestRecords, b \in BOOLEAN :
    [q EXCEPT !.clean = b] \in RequestRecords /\ Same([q EXCEPT !.clean = b], q)
  BY DEF RequestRecords, Same

\* The answer to a statement of r moves r alone.
LEMMA Answered ==
  ASSUME Inv, NEW r \in Requests, NEW c, NEW q \in RequestRecords, Answer(r, c, q)
  PROVE  /\ req' \in [Requests -> RequestRecords]
         /\ Same(req'[r], q)
         /\ \A s \in Requests \ {r} : Same(req'[s], req[s])
<1> DEFINE b == q.clean /\ q.home \in {NoConn, c}
           f(s) == req[s].clean /\ req[s].home # c
<1>0. req \in [Requests -> RequestRecords]
  BY DEF Inv, TypeOK
<1>1. b \in BOOLEAN /\ \A s : f(s) \in BOOLEAN
  OBVIOUS
<1>2. [q EXCEPT !.conn = NoConn, !.clean = @ /\ q.home \in {NoConn, c}]
        = [q EXCEPT !.conn = NoConn, !.clean = b]
  OBVIOUS
<1>3. \A s \in Requests : [req[s] EXCEPT !.clean = @ /\ req[s].home # c]
                            = [req[s] EXCEPT !.clean = f(s)]
  OBVIOUS
<1> HIDE DEF b, f
<1> DEFINE own == [q EXCEPT !.conn = NoConn, !.clean = b]
<1>4. own \in RequestRecords /\ Same(own, q)
  BY <1>1, Moved
<1>5. CASE req' = [s \in Requests |-> IF s = r THEN own
                                      ELSE [req[s] EXCEPT !.clean = f(s)]]
  <2>1. \A s \in Requests : /\ [req[s] EXCEPT !.clean = f(s)] \in RequestRecords
                            /\ Same([req[s] EXCEPT !.clean = f(s)], req[s])
    BY <1>0, <1>1, Stained
  <2> QED
    BY <1>4, <1>5, <2>1
<1>6. CASE req' = [s \in Requests |-> IF s = r THEN own
                                      ELSE [req[s] EXCEPT !.clean = FALSE]]
  <2>1. \A s \in Requests : /\ [req[s] EXCEPT !.clean = FALSE] \in RequestRecords
                            /\ Same([req[s] EXCEPT !.clean = FALSE], req[s])
    BY <1>0, Stained
  <2> QED
    BY <1>4, <1>6, <2>1
<1>7. \/ req' = [s \in Requests |-> IF s = r THEN own
                                    ELSE [req[s] EXCEPT !.clean = f(s)]]
      \/ req' = [s \in Requests |-> IF s = r THEN own
                                    ELSE [req[s] EXCEPT !.clean = FALSE]]
  BY <1>2, <1>3 DEF Answer
<1> QED
  BY <1>5, <1>6, <1>7

\* A step that answers r keeps the invariant when the pool stays well typed
\* and r goes on along its path.
LEMMA Step ==
  ASSUME Inv, NEW r \in Requests, NEW c, NEW q \in RequestRecords, Path(q),
         Answer(r, c, q), PoolTyped',
         queue' \subseteq Members,
         faults' \in 0..MaxFaults, moves' \in 0..MaxMoves, arrived' \in 0..MaxArrivals
  PROVE  Inv'
<1>1. /\ req' \in [Requests -> RequestRecords]
      /\ Same(req'[r], q)
      /\ \A s \in Requests \ {r} : Same(req'[s], req[s])
  BY Answered
<1>2. \A s \in Requests : Path(req'[s])
  BY <1>1, SamePath DEF Inv
<1>3. TypeOK'
  BY <1>1 DEF TypeOK
<1> QED
  BY <1>2, <1>3 DEF Inv, Path, Unassigned

-----------------------------------------------------------------------------
\* A served statement is on a connection.
LEMMA Served ==
  ASSUME Inv, NEW r \in Requests, req[r].conn # NoConn
  PROVE  req[r] \in RequestRecords /\ req[r].conn \in Conns /\ Path(req[r])
  BY DEF Inv, TypeOK, RequestRecords

\* The claim a shift works on is that of a member.
LEMMA StaleIsMember == \A q \in RequestRecords : q.todo # {} => Stale(q) \in Members
<1> SUFFICES ASSUME NEW q \in RequestRecords, q.todo # {} PROVE Stale(q) \in Members
  OBVIOUS
<1>1. q.todo \in SUBSET Members
  BY DEF RequestRecords
<1>2. Least(q.todo) \in q.todo
  BY <1>1, LeastIsIn
<1> QED
  BY <1>1, <1>2 DEF Stale

\* A shift done with one stale claim is typed.
LEMMA HandledTyped ==
  ASSUME NEW q \in RequestRecords, Path(q), q.at \in {"delete", "place"}
  PROVE  Handled(q) \in RequestRecords /\ Path(Handled(q))
<1> DEFINE left == q.todo \ {Stale(q)}
           at == IF left = {} THEN "commit" ELSE "delete"
<1>1. left \in SUBSET Members /\ at \in {"commit", "delete"}
  BY DEF RequestRecords
<1>2. at = "delete" => left # {}
  OBVIOUS
<1>3. Handled(q) = [q EXCEPT !.todo = left, !.at = at]
  BY DEF Handled
<1> HIDE DEF left, at
<1>4. [q EXCEPT !.todo = left, !.at = at] \in RequestRecords
  BY <1>1 DEF RequestRecords, Stages
<1>5. Path([q EXCEPT !.todo = left, !.at = at])
  BY <1>1, <1>2 DEF RequestRecords, Path
<1> QED
  BY <1>3, <1>4, <1>5

\* A request whose statement threw is typed.
LEMMA ThrownTyped ==
  ASSUME NEW q \in RequestRecords, Path(q), q.at # "idle"
  PROVE  Thrown(q) \in RequestRecords /\ Path(Thrown(q))
<1>1. CASE q.at \in {"delete", "place", "write", "commit", "savecommit"}
  <2>1. [q EXCEPT !.at = "rollback"] \in RequestRecords
    BY DEF RequestRecords, Stages
  <2>2. Path([q EXCEPT !.at = "rollback"])
    BY <1>1 DEF Path, RequestRecords
  <2> QED
    BY <1>1, <2>1, <2>2 DEF Thrown
<1>2. CASE q.at \notin {"delete", "place", "write", "commit", "savecommit"}
  BY <1>2, IdleTyped DEF Thrown
<1> QED
  BY <1>1, <1>2

\* A request that holds a connection holds one of the pool.
LEMMA BusyIsOn == \A r \in Requests : Inv /\ req[r].conn # NoConn => req[r].conn \in Conns
  BY DEF Inv, TypeOK, RequestRecords

-----------------------------------------------------------------------------
\* One lemma for each action.
LEMMA InvInit == Init => Inv
<1> SUFFICES ASSUME Init PROVE Inv
  OBVIOUS
<1>1. PICK given \in Given : table = given.claims /\ queue = given.queue
  BY DEF Init
<1>2. given \in [claims : Contents, queue : SUBSET Members]
  BY ClaimsAssumption
<1>3. PoolTyped
  BY <1>1, <1>2, QuietTyped DEF Init, PoolTyped
<1>4. req \in [Requests -> RequestRecords] /\ \A r \in Requests : Path(req[r])
  BY IdleTyped DEF Init
<1>5. faults \in 0..MaxFaults /\ moves \in 0..MaxMoves /\ arrived \in 0..MaxArrivals
  BY ClaimsAssumption DEF Init
<1> QED
  BY <1>1, <1>2, <1>3, <1>4, <1>5 DEF Inv, TypeOK

\* A call of the public page arrives.
LEMMA ArriveInv ==
  ASSUME Inv, NEW r \in Requests, NEW kind \in Kinds, NEW m \in Asked \cup {NoMember},
         NEW k \in Askers \cup {NoOne}, Arrive(r, kind, m, k)
  PROVE  Inv'
<1> DEFINE q == [Idle EXCEPT !.kind = kind, !.at = "schema", !.who = m, !.by = k]
<1>1. /\ Idle \in RequestRecords /\ m \in Members \cup {NoMember}
      /\ k \in Coordinators \cup {NoOne}
  BY IdleTyped, ClaimsAssumption
<1>2. q \in RequestRecords
  BY <1>1 DEF RequestRecords, Stages
<1>3. /\ kind \in {"visit", "assign", "claim", "release", "spread"}
      /\ m = NoMember <=> kind \in {"visit", "spread"}
      /\ k = NoOne <=> kind \in {"visit", "spread", "release"}
  BY ClaimsAssumption DEF Arrive
<1>4. q.kind = kind /\ q.at = "schema" /\ q.who = m /\ q.by = k
  BY <1>1 DEF RequestRecords
<1>5. Path(q)
  BY <1>1, <1>3, <1>4 DEF Path
<1>6. req' = [req EXCEPT ![r] = q]
  BY DEF Arrive
<1> HIDE DEF q
<1>7. TypeOK'
  BY <1>2, <1>6, ClaimsAssumption DEF Inv, TypeOK, PoolTyped, Arrive
<1>8. \A s \in Requests : Path(req'[s])
  BY <1>5, <1>6 DEF Inv, TypeOK
<1> QED
  BY <1>7, <1>8 DEF Inv, Path, Unassigned

\* A member asks to leave the collection.
LEMMA LeaveInv ==
  ASSUME Inv, NEW r \in Requests, NEW m \in Asked, Leave(r, m) PROVE Inv'
<1> DEFINE q == [Idle EXCEPT !.kind = "leave", !.at = "schema", !.who = m]
<1>1. Idle \in RequestRecords /\ m \in Members /\ "leave" \in Kinds
  BY IdleTyped, ClaimsAssumption DEF Leave
<1>2. q \in RequestRecords
  BY <1>1 DEF RequestRecords, Stages
<1>3. q.kind = "leave" /\ q.at = "schema"
  BY <1>1 DEF RequestRecords
<1>4. Path(q)
  BY <1>3 DEF Path
<1>5. req' = [req EXCEPT ![r] = q]
  BY DEF Leave
<1> HIDE DEF q
<1>6. TypeOK'
  BY <1>2, <1>5, ClaimsAssumption DEF Inv, TypeOK, PoolTyped, Leave
<1>7. \A s \in Requests : Path(req'[s])
  BY <1>4, <1>5 DEF Inv, TypeOK
<1> QED
  BY <1>6, <1>7 DEF Inv, Path, Unassigned

\* A member comes back to the queue.
LEMMA EnterInv == ASSUME Inv, NEW m \in Returning, Enter(m) PROVE Inv'
<1>1. TypeOK'
  BY ClaimsAssumption DEF Inv, TypeOK, PoolTyped, Enter
<1>2. req' = req
  BY DEF Enter
<1> QED
  BY <1>1, <1>2 DEF Inv, Path, Unassigned

\* A request whose connection changes, or whose transaction is disturbed.
LEMMA Resent ==
  \A q \in RequestRecords, c \in Conns \cup {NoConn} :
    [q EXCEPT !.conn = c] \in RequestRecords /\ Same([q EXCEPT !.conn = c], q)
  BY DEF RequestRecords, Same

\* A request is given a connection.
LEMMA SendInv ==
  ASSUME Inv, NEW r \in Requests, NEW c \in Conns, Send(r, c) PROVE Inv'
<1>1. req' = [req EXCEPT ![r] = [req[r] EXCEPT !.conn = c]]
  BY DEF Send
<1>2. req[r] \in RequestRecords
  BY DEF Inv, TypeOK
<1>3. /\ [req[r] EXCEPT !.conn = c] \in RequestRecords
      /\ Same([req[r] EXCEPT !.conn = c], req[r])
  BY <1>2, Resent
<1>4. Path([req[r] EXCEPT !.conn = c])
  BY <1>3, SamePath DEF Inv
<1>5. TypeOK'
  BY <1>1, <1>3 DEF Inv, TypeOK, PoolTyped, Send, counters
<1>6. \A s \in Requests : Path(req'[s])
  BY <1>1, <1>4 DEF Inv, TypeOK
<1> QED
  BY <1>5, <1>6 DEF Inv, Path, Unassigned

\* A connection of the pool is lost.
LEMMA LoseInv == ASSUME Inv, NEW c \in Conns, Lose(c) PROVE Inv'
<1> DEFINE to(s) == IF req[s].conn = c THEN NoConn ELSE req[s].conn
           f(s) == req[s].clean /\ req[s].home # c
<1>1. \A s \in Requests : req[s] \in RequestRecords
  BY DEF Inv, TypeOK
<1>2. \A s \in Requests : to(s) \in Conns \cup {NoConn} /\ f(s) \in BOOLEAN
  BY <1>1 DEF RequestRecords
<1>3. req' = [s \in Requests |-> [req[s] EXCEPT !.conn = to(s), !.clean = f(s)]]
  BY DEF Lose
<1> HIDE DEF to, f
<1>4. \A s \in Requests :
        /\ [req[s] EXCEPT !.conn = to(s), !.clean = f(s)] \in RequestRecords
        /\ Same([req[s] EXCEPT !.conn = to(s), !.clean = f(s)], req[s])
  BY <1>1, <1>2, Moved
<1>5. \A s \in Requests : req'[s] \in RequestRecords /\ Same(req'[s], req[s])
  BY <1>3, <1>4
<1>6. \A s \in Requests : Path(req'[s])
  BY <1>5, SamePath DEF Inv
<1>7. PoolTyped'
  BY QuietTyped DEF Inv, TypeOK, PoolTyped, Lose
<1>8. req' \in [Requests -> RequestRecords]
  BY <1>3, <1>5
<1>9. faults' \in 0..MaxFaults
  <2>1. faults \in 0..MaxFaults /\ faults < MaxFaults /\ faults' = faults + 1
    BY DEF Inv, TypeOK, Lose
  <2>2. MaxFaults \in Nat
    BY ClaimsAssumption
  <2> QED
    BY <2>1, <2>2
<1>10. queue' = queue /\ moves' = moves /\ arrived' = arrived
  BY DEF Lose
<1>11. TypeOK'
  BY <1>7, <1>8, <1>9, <1>10 DEF Inv, TypeOK
<1> QED
  BY <1>6, <1>11 DEF Inv, Path, Unassigned

\* The statements.  Where nothing is committed and no counter moves, it is
\* left to show what the request goes on as and what the pool has become.
LEMMA Stayed ==
  ASSUME Inv, UNCHANGED <<queue, counters>>
  PROVE  /\ queue' \subseteq Members
         /\ faults' \in 0..MaxFaults /\ moves' \in 0..MaxMoves /\ arrived' \in 0..MaxArrivals
  BY DEF Inv, TypeOK, counters

\* The statements that see to the tables.
LEMMA SchemaInv == ASSUME Inv, NEW r \in Requests, Schema(r) PROVE Inv'
<1> DEFINE q == req[r]
           next == IF q.kind \in {"visit", "leave", "spread"} THEN "queue" ELSE "member"
<1>1. q \in RequestRecords /\ q.conn \in Conns /\ Path(q) /\ q.at = "schema"
  BY Served DEF Schema, Serves
<1>2. PoolTyped'
  BY <1>1, NoRows, ApplyTyped DEF Schema, Inv, TypeOK
<1>3. [q EXCEPT !.at = next] \in RequestRecords
  BY <1>1 DEF RequestRecords, Stages
<1>4. Path([q EXCEPT !.at = next])
  BY <1>1 DEF Path, RequestRecords
<1>5. Answer(r, q.conn, [q EXCEPT !.at = next]) /\ UNCHANGED <<queue, counters>>
  BY DEF Schema
<1> QED
  BY <1>2, <1>3, <1>4, <1>5, Stayed, Step

\* The queue is read.
LEMMA ReadQueueInv == ASSUME Inv, NEW r \in Requests, ReadQueue(r) PROVE Inv'
<1> DEFINE q == req[r]
           a == [q EXCEPT !.roster = queue, !.at = "claims"]
           b == [q EXCEPT !.todo = queue, !.at = "savebegin"]
<1>1. q \in RequestRecords /\ q.conn \in Conns /\ Path(q) /\ q.at = "queue"
  BY Served DEF ReadQueue, Serves
<1>2. PoolTyped'
  BY DEF ReadQueue, Inv, TypeOK, PoolTyped
<1>3. queue \in SUBSET Members
  BY DEF Inv, TypeOK
<1>4. a \in RequestRecords /\ b \in RequestRecords
  BY <1>1, <1>3 DEF RequestRecords, Stages
<1>5. Path(a)
  BY <1>1, <1>3 DEF Path, RequestRecords
<1>6. queue # {} => Path(b)
  BY <1>1, <1>3 DEF Path, RequestRecords
<1>7. /\ UNCHANGED <<queue, counters>>
      /\ \/ Answer(r, q.conn, a)
         \/ Answer(r, q.conn, Idle)
         \/ queue # {} /\ Answer(r, q.conn, b)
  <2>1. CASE q.kind # "spread"
    BY <2>1 DEF ReadQueue
  <2>2. CASE q.kind = "spread" /\ queue = {}
    BY <2>2 DEF ReadQueue
  <2>3. CASE q.kind = "spread" /\ queue # {}
    BY <2>3 DEF ReadQueue
  <2> QED
    BY <2>1, <2>2, <2>3 DEF ReadQueue
<1> QED
  BY <1>2, <1>4, <1>5, <1>6, <1>7, IdleTyped, Stayed, Step

\* The claims are read and compared with the queue.
LEMMA ReadClaimsInv == ASSUME Inv, NEW r \in Requests, ReadClaims(r) PROVE Inv'
<1> DEFINE q == req[r]
           seen == View(q.conn)
           claimed == {m \in Members : seen[m] # NoOne}
           taken == claimed \cap q.roster
           todo == claimed \ q.roster
           alone == conn[q.conn].tx = "none"
           a == [q EXCEPT !.seen = seen, !.todo = todo, !.taken = taken,
                          !.clean = alone, !.at = "begin"]
<1>1. q \in RequestRecords /\ q.conn \in Conns /\ Path(q) /\ q.at = "claims"
  BY Served DEF ReadClaims, Serves
<1>2. PoolTyped'
  BY <1>1, NoRows, ApplyTyped DEF ReadClaims, Inv, TypeOK
<1>3. seen \in Contents
  <2>1. conn[q.conn].rows \in Changes
    BY <1>1 DEF Inv, TypeOK, PoolTyped, Connections
  <2>2. table \in Contents
    BY DEF Inv, TypeOK, PoolTyped
  <2> QED
    BY <2>1, <2>2 DEF View, Changes, Contents
<1>4. /\ taken \in SUBSET Members /\ todo \in SUBSET Members
      /\ alone \in BOOLEAN
  OBVIOUS
<1>5. \/ Answer(r, q.conn, Idle)
      \/ todo # {} /\ Answer(r, q.conn, a)
  <2>1. CASE claimed \subseteq q.roster
    BY <2>1 DEF ReadClaims
  <2>2. CASE ~(claimed \subseteq q.roster)
    BY <2>2 DEF ReadClaims
  <2> QED
    BY <2>1, <2>2
<1>6. UNCHANGED <<queue, counters>>
  BY DEF ReadClaims
<1> HIDE DEF seen, taken, todo, alone
<1>7. a \in RequestRecords
  BY <1>1, <1>3, <1>4 DEF RequestRecords, Stages
<1>8. todo # {} => Path(a)
  BY <1>1, <1>3, <1>4 DEF Path, RequestRecords
<1> QED
  BY <1>2, <1>5, <1>6, <1>7, <1>8, IdleTyped, Stayed, Step

\* The shift, or the spreading, begins its transaction.
LEMMA BeginShiftInv == ASSUME Inv, NEW r \in Requests, BeginShift(r) PROVE Inv'
<1> DEFINE q == req[r]
           b == q.clean /\ conn[q.conn].tx = "none"
           next == IF q.kind = "spread" THEN "write" ELSE "delete"
           a == [q EXCEPT !.home = q.conn, !.clean = b, !.at = next]
<1>1. q \in RequestRecords /\ q.conn \in Conns /\ Path(q) /\ q.at = "begin"
  BY Served DEF BeginShift, Serves
<1>2. PoolTyped'
  BY <1>1, EndTyped DEF BeginShift, Inv, TypeOK
<1>3. b \in BOOLEAN /\ next \in {"write", "delete"}
  OBVIOUS
<1>4. Answer(r, q.conn, a) /\ UNCHANGED <<queue, counters>>
  BY DEF BeginShift
<1> HIDE DEF b, next
<1>5. a \in RequestRecords
  BY <1>1, <1>3 DEF RequestRecords, Stages
<1>6. Path(a)
  BY <1>1, <1>3 DEF Path, RequestRecords
<1> QED
  BY <1>2, <1>4, <1>5, <1>6, Stayed, Step

\* The shift deletes a stale claim.
LEMMA DeleteStaleInv == ASSUME Inv, NEW r \in Requests, DeleteStale(r) PROVE Inv'
<1> DEFINE q == req[r]
           m == Stale(q)
           ch == IF View(q.conn)[m] = NoOne THEN Nothing ELSE Row(m, NoOne)
           a == [q EXCEPT !.at = "place"]
<1>1. q \in RequestRecords /\ q.conn \in Conns /\ Path(q) /\ q.at = "delete"
  BY Served DEF DeleteStale, Serves
<1>2. m \in Members
  BY <1>1, StaleIsMember DEF Path
<1>3. ch \in Changes
  BY <1>2, NoRows, OneRow, ClaimsAssumption
<1>4. PoolTyped'
  <2>1. PoolTyped /\ Apply(q.conn, "uses", ch)
    BY DEF DeleteStale, Inv, TypeOK
  <2> QED
    BY <1>1, <1>3, <2>1, ApplyTyped
<1>5. /\ UNCHANGED <<queue, counters>>
      /\ \/ Answer(r, q.conn, Handled(q))
         \/ Unassigned(q) # {} /\ Answer(r, q.conn, a)
  BY DEF DeleteStale
<1>6. a \in RequestRecords
  BY <1>1 DEF RequestRecords, Stages
<1>7. Unassigned(q) # {} => Path(a)
  BY <1>1 DEF Path, RequestRecords, Unassigned
<1>8. Handled(q) \in RequestRecords /\ Path(Handled(q))
  BY <1>1, HandledTyped
<1> QED
  BY <1>4, <1>5, <1>6, <1>7, <1>8, Stayed, Step

\* The shift places the claim on a free member.
LEMMA PlaceInv == ASSUME Inv, NEW r \in Requests, Place(r) PROVE Inv'
<1> DEFINE q == req[r]
           n == Least(Unassigned(q))
           k == q.seen[Stale(q)]
           h == Handled(q)
           a == [h EXCEPT !.taken = h.taken \cup {n}]
<1>1. q \in RequestRecords /\ q.conn \in Conns /\ Path(q) /\ q.at = "place"
  BY Served DEF Place, Serves
<1>2. n \in Members
  <2>1. Unassigned(q) \in SUBSET Members /\ Unassigned(q) # {}
    BY <1>1 DEF Path, Unassigned, RequestRecords
  <2> QED
    BY <2>1, LeastIsIn
<1>3. k \in Coordinators \cup {NoOne}
  <2>1. Stale(q) \in Members
    BY <1>1, StaleIsMember DEF Path
  <2> QED
    BY <1>1, <2>1, ClaimsAssumption DEF RequestRecords, Contents
<1>4. PoolTyped'
  <2>1. Row(n, k) \in Changes
    BY <1>2, <1>3, OneRow, ClaimsAssumption
  <2>2. PoolTyped /\ Apply(q.conn, "uses", Row(n, k))
    BY DEF Place, Inv, TypeOK
  <2> QED
    BY <1>1, <2>1, <2>2, ApplyTyped
<1>5. UNCHANGED <<queue, counters>> /\ Answer(r, q.conn, a)
  BY DEF Place
<1>6. h \in RequestRecords /\ Path(h) /\ h.at \in {"commit", "delete"}
  <2>1. h \in RequestRecords /\ Path(h)
    BY <1>1, HandledTyped
  <2> QED
    BY <1>1, <2>1 DEF Handled, RequestRecords
<1> HIDE DEF n, h
<1>7. a \in RequestRecords
  BY <1>2, <1>6 DEF RequestRecords
<1>8. Path(a)
  BY <1>6 DEF Path, RequestRecords
<1> QED
  BY <1>4, <1>5, <1>7, <1>8, Stayed, Step

\* The transaction on the claims commits.
LEMMA CommitShiftInv == ASSUME Inv, NEW r \in Requests, CommitShift(r) PROVE Inv'
<1>1. req[r].conn \in Conns
  BY Served DEF CommitShift
<1>2. PoolTyped'
  BY <1>1, EndTyped DEF CommitShift, Inv, TypeOK
<1> QED
  BY <1>2, IdleTyped, Stayed, Step DEF CommitShift

\* The transaction on the claims is rolled back.
LEMMA RollbackShiftInv == ASSUME Inv, NEW r \in Requests, RollbackShift(r) PROVE Inv'
<1>1. req[r].conn \in Conns
  BY Served DEF RollbackShift
<1>2. PoolTyped'
  BY <1>1, EndTyped DEF RollbackShift, Inv, TypeOK
<1> QED
  BY <1>2, IdleTyped, Stayed, Step DEF RollbackShift

\* saveAssignments begins its transaction.
LEMMA SaveBeginInv == ASSUME Inv, NEW r \in Requests, SaveBegin(r) PROVE Inv'
<1> DEFINE q == req[r]
<1>1. q \in RequestRecords /\ q.conn \in Conns /\ Path(q) /\ q.at = "savebegin"
  BY Served DEF SaveBegin, Serves
<1>2. PoolTyped'
  BY <1>1, EndTyped DEF SaveBegin, Inv, TypeOK
<1>3. [q EXCEPT !.at = "savecommit"] \in RequestRecords
  BY <1>1 DEF RequestRecords, Stages
<1>4. Path([q EXCEPT !.at = "savecommit"])
  BY <1>1 DEF Path, RequestRecords
<1> QED
  BY <1>2, <1>3, <1>4, Stayed, Step DEF SaveBegin

\* saveAssignments commits.
LEMMA SaveCommitInv == ASSUME Inv, NEW r \in Requests, SaveCommit(r) PROVE Inv'
<1> DEFINE q == req[r]
<1>1. q \in RequestRecords /\ q.conn \in Conns /\ Path(q) /\ q.at = "savecommit"
  BY Served DEF SaveCommit
<1>2. PoolTyped'
  BY <1>1, EndTyped DEF SaveCommit, Inv, TypeOK
<1>3. [q EXCEPT !.at = "begin"] \in RequestRecords
  BY <1>1 DEF RequestRecords, Stages
<1>4. Path([q EXCEPT !.at = "begin"])
  BY <1>1 DEF Path, RequestRecords
<1> QED
  BY <1>2, <1>3, <1>4, Stayed, Step DEF SaveCommit

\* Spreading writes the coordinator of one member.
LEMMA WriteAssignmentInv ==
  ASSUME Inv, NEW r \in Requests, NEW k \in Coordinators, WriteAssignment(r, k)
  PROVE  Inv'
<1> DEFINE q == req[r]
           m == Least(q.todo)
           left == q.todo \ {m}
           next == IF q.todo = {m} THEN "commit" ELSE "write"
           a == [q EXCEPT !.todo = left, !.at = next]
<1>1. q \in RequestRecords /\ q.conn \in Conns /\ Path(q) /\ q.at = "write"
  BY Served DEF WriteAssignment, Serves
<1>2. m \in q.todo /\ m \in Members
  <2>1. q.todo \in SUBSET Members /\ q.todo # {}
    BY <1>1 DEF Path, RequestRecords
  <2> QED
    BY <2>1, LeastIsIn
<1>3. PoolTyped'
  <2>1. Row(m, k) \in Changes
    BY <1>2, OneRow, ClaimsAssumption
  <2>2. PoolTyped /\ Apply(q.conn, "uses", Row(m, k))
    BY DEF WriteAssignment, Inv, TypeOK
  <2> QED
    BY <1>1, <2>1, <2>2, ApplyTyped
<1>4. UNCHANGED <<queue, counters>> /\ Answer(r, q.conn, a)
  BY DEF WriteAssignment
<1>5. /\ left \in SUBSET Members /\ next \in {"commit", "write"}
      /\ next = "write" => left # {}
  BY <1>1, <1>2 DEF RequestRecords
<1> HIDE DEF m, left, next
<1>6. a \in RequestRecords
  BY <1>1, <1>5 DEF RequestRecords, Stages
<1>7. Path(a)
  BY <1>1, <1>5 DEF Path, RequestRecords
<1> QED
  BY <1>3, <1>4, <1>6, <1>7, Stayed, Step

\* A claim or a release looks its member up.
LEMMA CheckMemberInv == ASSUME Inv, NEW r \in Requests, CheckMember(r) PROVE Inv'
<1> DEFINE q == req[r]
           to(next) == [q EXCEPT !.at = next]
<1>1. q \in RequestRecords /\ q.conn \in Conns /\ Path(q) /\ q.at = "member"
  BY Served DEF CheckMember, Serves
<1>2. PoolTyped'
  BY DEF CheckMember, Inv, TypeOK, PoolTyped
<1>3. \A next \in {"upsert", "look", "drop"} : to(next) \in RequestRecords
  BY <1>1 DEF RequestRecords, Stages
<1>4. CASE q.kind = "assign"
  <2>1. Answer(r, q.conn, to("upsert")) \/ Answer(r, q.conn, Idle)
    BY <1>4 DEF CheckMember
  <2>2. Path(to("upsert"))
    BY <1>1, <1>4 DEF Path, RequestRecords
  <2> QED
    BY <1>2, <1>3, <2>1, <2>2, IdleTyped, Stayed, Step DEF CheckMember
<1>5. CASE q.kind = "claim"
  <2>1. Answer(r, q.conn, to("look")) \/ Answer(r, q.conn, Idle)
    BY <1>5 DEF CheckMember
  <2>2. Path(to("look"))
    BY <1>1, <1>5 DEF Path, RequestRecords
  <2> QED
    BY <1>2, <1>3, <2>1, <2>2, IdleTyped, Stayed, Step DEF CheckMember
<1>6. CASE q.kind = "release"
  <2>1. Answer(r, q.conn, to("drop")) \/ Answer(r, q.conn, Idle)
    BY <1>6 DEF CheckMember
  <2>2. Path(to("drop"))
    BY <1>1, <1>6 DEF Path, RequestRecords
  <2> QED
    BY <1>2, <1>3, <2>1, <2>2, IdleTyped, Stayed, Step DEF CheckMember
<1> QED
  BY <1>1, <1>4, <1>5, <1>6 DEF Path

\* A coordinator is assigned.
LEMMA AssignInv == ASSUME Inv, NEW r \in Requests, Assign(r) PROVE Inv'
<1> DEFINE q == req[r]
<1>1. q \in RequestRecords /\ q.conn \in Conns /\ Path(q) /\ q.at = "upsert"
  BY Served DEF Assign, Serves
<1>2. Row(q.who, q.by) \in Changes
  BY <1>1, OneRow, ClaimsAssumption DEF Path
<1>3. PoolTyped'
  BY <1>1, <1>2, ApplyTyped DEF Assign, Inv, TypeOK
<1> QED
  BY <1>3, VisitTyped, Stayed, Step DEF Assign

\* A claim looks at the owner of the row.
LEMMA LookInv == ASSUME Inv, NEW r \in Requests, Look(r) PROVE Inv'
<1> DEFINE q == req[r]
           owner == View(q.conn)[q.who]
           a == [q EXCEPT !.at = "insert"]
<1>1. q \in RequestRecords /\ q.conn \in Conns /\ Path(q) /\ q.at \in {"look", "again"}
  BY Served DEF Look, Serves
<1>2. PoolTyped'
  BY <1>1, NoRows, ApplyTyped DEF Look, Inv, TypeOK
<1>3. \/ Answer(r, q.conn, Visit(q))
      \/ q.at = "look" /\ Answer(r, q.conn, a)
      \/ Answer(r, q.conn, Idle)
  <2>1. CASE owner = q.by
    BY <2>1 DEF Look
  <2>2. CASE owner # q.by /\ (owner = NoOne /\ q.at = "look")
    BY <2>2 DEF Look
  <2>3. CASE owner # q.by /\ ~(owner = NoOne /\ q.at = "look")
    BY <2>3 DEF Look
  <2> QED
    BY <2>1, <2>2, <2>3
<1>4. a \in RequestRecords
  BY <1>1 DEF RequestRecords, Stages
<1>5. q.at = "look" => Path(a)
  BY <1>1 DEF Path, RequestRecords
<1> QED
  BY <1>2, <1>3, <1>4, <1>5, IdleTyped, VisitTyped, Stayed, Step DEF Look

\* A claim inserts its row, or finds one there.
LEMMA InsertInv == ASSUME Inv, NEW r \in Requests, Insert(r) PROVE Inv'
<1> DEFINE q == req[r]
           free == View(q.conn)[q.who] = NoOne
           a == [q EXCEPT !.at = "again"]
<1>1. q \in RequestRecords /\ q.conn \in Conns /\ Path(q) /\ q.at = "insert"
  BY Served DEF Insert, Serves
<1>2. Row(q.who, q.by) \in Changes
  BY <1>1, OneRow, ClaimsAssumption DEF Path
<1>3. PoolTyped'
  <2>1. Apply(q.conn, "uses", Row(q.who, q.by)) \/ Spoil(q.conn)
    BY DEF Insert
  <2> QED
    BY <1>1, <1>2, <2>1, ApplyTyped, EndTyped DEF Inv, TypeOK
<1>4. Answer(r, q.conn, Visit(q)) \/ Answer(r, q.conn, a)
  BY DEF Insert
<1>5. a \in RequestRecords
  BY <1>1 DEF RequestRecords, Stages
<1>6. Path(a)
  BY <1>1 DEF Path, RequestRecords
<1> QED
  BY <1>3, <1>4, <1>5, <1>6, VisitTyped, Stayed, Step DEF Insert

\* A claim is released.
LEMMA ReleaseInv == ASSUME Inv, NEW r \in Requests, Release(r) PROVE Inv'
<1> DEFINE q == req[r]
           there == View(q.conn)[q.who] # NoOne
           ch == IF there THEN Row(q.who, NoOne) ELSE Nothing
<1>1. q \in RequestRecords /\ q.conn \in Conns /\ Path(q) /\ q.at = "drop"
  BY Served DEF Release, Serves
<1>2. ch \in Changes
  BY <1>1, OneRow, NoRows, ClaimsAssumption DEF Path
<1>3. Apply(q.conn, "uses", ch)
  BY DEF Release
<1> HIDE DEF ch
<1>4. PoolTyped'
  BY <1>1, <1>2, <1>3, ApplyTyped DEF Inv, TypeOK
<1>5. Answer(r, q.conn, Visit(q)) \/ Answer(r, q.conn, Idle)
  BY DEF Release
<1> QED
  BY <1>4, <1>5, IdleTyped, VisitTyped, Stayed, Step DEF Release

\* A statement on a failed transaction is refused.
LEMMA RefusedInv == ASSUME Inv, NEW r \in Requests, Refused(r) PROVE Inv'
<1> DEFINE q == req[r]
<1>1. q \in RequestRecords /\ q.conn \in Conns /\ Path(q) /\ q.conn # NoConn
  BY Served DEF Refused
<1>2. PoolTyped'
  BY DEF Refused, Inv, TypeOK, PoolTyped
<1>3. CASE q.at = "idle"
  BY <1>2, <1>3, IdleTyped, Stayed, Step DEF Refused, Thrown
<1>4. CASE q.at # "idle"
  <2>1. Thrown(q) \in RequestRecords /\ Path(Thrown(q))
    BY <1>1, <1>4, ThrownTyped
  <2> QED
    BY <1>2, <2>1, Stayed, Step DEF Refused
<1> QED
  BY <1>3, <1>4

\* What every failure of a statement does: the connection is spoiled and r is told.
LEMMA ThrownInv ==
  ASSUME Inv, NEW r \in Requests, req[r].conn # NoConn, Spoil(req[r].conn),
         Answer(r, req[r].conn, Thrown(req[r])), UNCHANGED <<queue, moves, arrived>>,
         faults' \in 0..MaxFaults
  PROVE  Inv'
<1> DEFINE q == req[r]
<1>1. q \in RequestRecords /\ q.conn \in Conns /\ Path(q)
  BY Served
<1>2. PoolTyped'
  BY <1>1, EndTyped DEF Inv, TypeOK
<1>3. Thrown(q) \in RequestRecords /\ Path(Thrown(q))
  <2>1. CASE q.at = "idle"
    BY <2>1, IdleTyped DEF Thrown
  <2>2. CASE q.at # "idle"
    BY <1>1, <2>2, ThrownTyped
  <2> QED
    BY <2>1, <2>2
<1> QED
  BY <1>2, <1>3, Step DEF Inv, TypeOK

\* A statement fails.
LEMMA FailsInv == ASSUME Inv, NEW r \in Requests, Fails(r) PROVE Inv'
<1>1. faults' \in 0..MaxFaults
  BY ClaimsAssumption DEF Inv, TypeOK, Fails
<1> QED
  BY <1>1, ThrownInv DEF Fails

\* The database ends a deadlock.
LEMMA DeadlockInv == ASSUME Inv, NEW r \in Requests, Deadlock(r) PROVE Inv'
<1>1. req[r].conn # NoConn
  BY ClaimsAssumption DEF Deadlock
<1>2. faults' \in 0..MaxFaults /\ UNCHANGED <<queue, moves, arrived>>
  BY DEF Deadlock, counters, Inv, TypeOK
<1> QED
  BY <1>1, <1>2, ThrownInv DEF Deadlock

\* A request that was to get a connection gets none.
LEMMA NoConnectionInv == ASSUME Inv, NEW r \in Requests, NoConnection(r) PROVE Inv'
<1> DEFINE t == Thrown(req[r])
<1>1. req[r] \in RequestRecords /\ Path(req[r]) /\ req[r].at # "idle"
  BY DEF Inv, TypeOK, NoConnection
<1>2. t \in RequestRecords /\ Path(t)
  BY <1>1, ThrownTyped
<1>3. req' = [req EXCEPT ![r] = t]
  BY DEF NoConnection
<1> HIDE DEF t
<1>4. faults' \in 0..MaxFaults
  BY ClaimsAssumption DEF Inv, TypeOK, NoConnection
<1>5. TypeOK'
  BY <1>2, <1>3, <1>4 DEF Inv, TypeOK, PoolTyped, NoConnection
<1>6. \A s \in Requests : Path(req'[s])
  BY <1>2, <1>3 DEF Inv, TypeOK
<1> QED
  BY <1>5, <1>6 DEF Inv, Path, Unassigned

\* Every statement of a request keeps the invariant.
LEMMA StatementInv == ASSUME Inv, NEW r \in Requests, Statement(r) PROVE Inv'
  BY SchemaInv, ReadQueueInv, ReadClaimsInv, BeginShiftInv, DeleteStaleInv, PlaceInv,
     CommitShiftInv, RollbackShiftInv, SaveBeginInv, SaveCommitInv, CheckMemberInv,
     AssignInv, LookInv, InsertInv, ReleaseInv, WriteAssignmentInv DEF Statement

LEMMA InvNext == Inv /\ [Next]_vars => Inv'
<1> SUFFICES ASSUME Inv, [Next]_vars PROVE Inv'
  OBVIOUS
<1>1. CASE UNCHANGED vars
  BY <1>1 DEF vars, Inv, TypeOK, PoolTyped, Path, Unassigned
<1>2. ASSUME NEW r \in Requests, NEW kind \in Kinds, NEW m \in Asked \cup {NoMember},
             NEW k \in Askers \cup {NoOne}, Arrive(r, kind, m, k)
      PROVE  Inv'
  BY <1>2, ArriveInv
<1>3. ASSUME NEW r \in Requests,
             \/ \E m \in Asked : Leave(r, m)
             \/ \E c \in Conns : Send(r, c)
             \/ Statement(r) \/ Refused(r) \/ Fails(r) \/ Deadlock(r) \/ NoConnection(r)
      PROVE  Inv'
  BY <1>3, LeaveInv, SendInv, StatementInv, RefusedInv, FailsInv, DeadlockInv,
     NoConnectionInv
<1>4. CASE (\E m \in Returning : Enter(m)) \/ (\E c \in Conns : Lose(c))
  BY <1>4, EnterInv, LoseInv
<1> QED
  BY <1>1, <1>2, <1>3, <1>4 DEF Next

-----------------------------------------------------------------------------
\* A statement shows in the rows it changes only.
LEMMA ApplyView ==
  ASSUME NEW c \in Conns, NEW lock, NEW ch, PoolTyped,
         Apply(c, lock, ch), NEW k \in Keys, k \notin DOMAIN ch
  PROVE  View(c)'[k] = View(c)[k]
<1>1. CASE conn[c].tx = "open"
  <2>1. conn[c] \in Connections
    BY DEF PoolTyped
  <2>2. conn' = [conn EXCEPT ![c].rows = On(ch, @), ![c].lock = Stronger(@, lock)]
        /\ table' = table
    BY <1>1 DEF Apply
  <2>3. conn'[c].rows = On(ch, conn[c].rows)
    BY <2>1, <2>2 DEF PoolTyped, Connections
  <2>4. /\ k \in DOMAIN On(ch, conn[c].rows) <=> k \in DOMAIN conn[c].rows
        /\ k \in DOMAIN conn[c].rows => On(ch, conn[c].rows)[k] = conn[c].rows[k]
    BY DEF On
  <2> QED
    BY <2>2, <2>3, <2>4 DEF View
<1>2. CASE conn[c].tx # "open"
  <2>1. table' = On(ch, table) /\ conn' = conn
    BY <1>2 DEF Apply
  <2>2. table'[k] = table[k]
    BY <2>1 DEF On, PoolTyped, Contents
  <2> QED
    BY <2>1, <2>2 DEF View
<1> QED
  BY <1>1, <1>2

\* A step of s that makes no page visit of a choice for oneself.
Other(s) ==
  /\ req[s].kind = "claim" => req'[s].kind \in {"claim", "none"}
  /\ \A t \in Requests \ {s} : req'[t].kind = req[t].kind

\* An answer turns no claim into another request, and leaves the kinds of the others.
LEMMA AnswerOther ==
  ASSUME Inv, NEW s \in Requests, NEW c, NEW q, "kind" \in DOMAIN q,
         req[s].kind = "claim" => q.kind \in {"claim", "none"}, Answer(s, c, q)
  PROVE  Other(s)
<1> DEFINE own == [q EXCEPT !.conn = NoConn, !.clean = @ /\ q.home \in {NoConn, c}]
<1>1. own.kind = q.kind
  OBVIOUS
<1>2. \A t \in Requests :
        /\ [req[t] EXCEPT !.clean = @ /\ req[t].home # c].kind = req[t].kind
        /\ [req[t] EXCEPT !.clean = FALSE].kind = req[t].kind
  BY DEF Inv, TypeOK, RequestRecords
<1> HIDE DEF own
<1>3. \/ req' = [t \in Requests |-> IF t = s THEN own
                                    ELSE [req[t] EXCEPT !.clean = @ /\ req[t].home # c]]
      \/ req' = [t \in Requests |-> IF t = s THEN own
                                    ELSE [req[t] EXCEPT !.clean = FALSE]]
  BY DEF Answer, own
<1>4. CASE req' = [t \in Requests |-> IF t = s THEN own
                                      ELSE [req[t] EXCEPT !.clean = @ /\ req[t].home # c]]
  BY <1>1, <1>2, <1>4 DEF Other
<1>5. CASE req' = [t \in Requests |-> IF t = s THEN own
                                      ELSE [req[t] EXCEPT !.clean = FALSE]]
  BY <1>1, <1>2, <1>5 DEF Other
<1> QED
  BY <1>3, <1>4, <1>5

\* The kind of a request that goes on, or ends.
LEMMA KindKept ==
  ASSUME Inv, NEW s \in Requests
  PROVE  /\ "kind" \in DOMAIN req[s]
         /\ "kind" \in DOMAIN Idle /\ Idle.kind = "none"
         /\ "kind" \in DOMAIN Handled(req[s]) /\ Handled(req[s]).kind = req[s].kind
         /\ "kind" \in DOMAIN Thrown(req[s])
         /\ Thrown(req[s]).kind \in {req[s].kind, "none"}
<1>1. req[s] \in RequestRecords
  BY DEF Inv, TypeOK
<1>2. "kind" \in DOMAIN Idle /\ Idle.kind = "none"
  BY DEF Idle
<1>3. "kind" \in DOMAIN Handled(req[s]) /\ Handled(req[s]).kind = req[s].kind
  BY <1>1 DEF Handled, RequestRecords
<1>4. /\ "kind" \in DOMAIN Thrown(req[s])
      /\ Thrown(req[s]).kind \in {req[s].kind, "none"}
  BY <1>1, <1>2 DEF Thrown, RequestRecords
<1> QED
  BY <1>1, <1>2, <1>3, <1>4 DEF RequestRecords

\* Every statement but the last two of a choice for oneself.
LEMMA OtherStatement ==
  ASSUME Inv, NEW s \in Requests, Statement(s), ~Look(s), ~Insert(s)
  PROVE  Other(s)
<1> DEFINE q == req[s]
<1>0. q \in RequestRecords /\ Path(q)
  BY DEF Inv, TypeOK
<1>1. CASE Schema(s)
  BY <1>0, <1>1, AnswerOther DEF Schema, RequestRecords
<1>2. CASE ReadQueue(s)
  <2> DEFINE a == [q EXCEPT !.roster = queue, !.at = "claims"]
             b == [q EXCEPT !.todo = queue, !.at = "savebegin"]
  <2>1. Answer(s, q.conn, a) \/ Answer(s, q.conn, Idle) \/ Answer(s, q.conn, b)
    <3>1. CASE q.kind # "spread"
      BY <1>2, <3>1 DEF ReadQueue
    <3>2. CASE q.kind = "spread" /\ queue = {}
      BY <1>2, <3>2 DEF ReadQueue
    <3>3. CASE q.kind = "spread" /\ queue # {}
      BY <1>2, <3>3 DEF ReadQueue
    <3> QED
      BY <3>1, <3>2, <3>3
  <2>2. /\ "kind" \in DOMAIN a /\ a.kind = q.kind
        /\ "kind" \in DOMAIN b /\ b.kind = q.kind
    BY <1>0 DEF RequestRecords
  <2> HIDE DEF a, b
  <2> QED
    BY <2>1, <2>2, KindKept, AnswerOther
<1>3. CASE ReadClaims(s)
  <2> DEFINE seen == View(q.conn)
             claimed == {m \in Members : seen[m] # NoOne}
             a == [q EXCEPT !.seen = seen, !.todo = claimed \ q.roster,
                            !.taken = claimed \cap q.roster,
                            !.clean = conn[q.conn].tx = "none", !.at = "begin"]
  <2>1. Answer(s, q.conn, Idle) \/ Answer(s, q.conn, a)
    BY <1>3 DEF ReadClaims
  <2>2. "kind" \in DOMAIN a /\ a.kind = q.kind
    BY <1>0 DEF RequestRecords
  <2> HIDE DEF a
  <2> QED
    BY <2>1, <2>2, KindKept, AnswerOther
<1>4. CASE BeginShift(s)
  <2> DEFINE next == IF q.kind = "spread" THEN "write" ELSE "delete"
             b == q.clean /\ conn[q.conn].tx = "none"
             a == [q EXCEPT !.home = q.conn, !.clean = b, !.at = next]
  <2>1. Answer(s, q.conn, a)
    BY <1>4 DEF BeginShift
  <2> HIDE DEF next, b
  <2>2. "kind" \in DOMAIN a /\ a.kind = q.kind
    BY <1>0 DEF RequestRecords
  <2> HIDE DEF a
  <2> QED
    BY <2>1, <2>2, AnswerOther
<1>5. CASE DeleteStale(s)
  <2>1. Answer(s, q.conn, Handled(q)) \/ Answer(s, q.conn, [q EXCEPT !.at = "place"])
    BY <1>5 DEF DeleteStale
  <2>2. "kind" \in DOMAIN [q EXCEPT !.at = "place"] /\ [q EXCEPT !.at = "place"].kind = q.kind
    BY <1>0 DEF RequestRecords
  <2> QED
    BY <2>1, <2>2, KindKept, AnswerOther
<1>6. CASE Place(s)
  <2> DEFINE h == Handled(q)
             a == [h EXCEPT !.taken = @ \cup {Least(Unassigned(q))}]
  <2>1. Answer(s, q.conn, a)
    BY <1>6 DEF Place
  <2>2. "kind" \in DOMAIN h /\ h.kind = q.kind
    BY KindKept
  <2> HIDE DEF h
  <2>3. "kind" \in DOMAIN a /\ a.kind = q.kind
    BY <2>2
  <2> HIDE DEF a
  <2> QED
    BY <2>1, <2>3, AnswerOther
<1>7. CASE CommitShift(s) \/ RollbackShift(s)
  BY <1>7, KindKept, AnswerOther DEF CommitShift, RollbackShift
<1>8. CASE SaveBegin(s) \/ SaveCommit(s)
  <2>1. \E stage \in {"savecommit", "begin"} : Answer(s, q.conn, [q EXCEPT !.at = stage])
    BY <1>8 DEF SaveBegin, SaveCommit
  <2>2. PICK stage \in {"savecommit", "begin"} : Answer(s, q.conn, [q EXCEPT !.at = stage])
    BY <2>1
  <2>3. "kind" \in DOMAIN [q EXCEPT !.at = stage] /\ [q EXCEPT !.at = stage].kind = q.kind
    BY <1>0 DEF RequestRecords
  <2> QED
    BY <2>2, <2>3, AnswerOther
<1>9. CASE CheckMember(s)
  <2>1. \/ Answer(s, q.conn, Idle)
        \/ \E stage \in Stages : Answer(s, q.conn, [q EXCEPT !.at = stage])
    <3>2. CASE q.kind = "assign"
      BY <1>9, <3>2 DEF CheckMember, Stages
    <3>3. CASE q.kind = "claim"
      BY <1>9, <3>3 DEF CheckMember, Stages
    <3>4. CASE q.kind \notin {"assign", "claim"}
      BY <1>9, <3>4 DEF CheckMember, Stages
    <3> QED
      BY <3>2, <3>3, <3>4
  <2>2. ASSUME NEW stage \in Stages, Answer(s, q.conn, [q EXCEPT !.at = stage])
        PROVE  Other(s)
    <3>1. "kind" \in DOMAIN [q EXCEPT !.at = stage] /\ [q EXCEPT !.at = stage].kind = q.kind
      BY <1>0 DEF RequestRecords
    <3> QED
      BY <2>2, <3>1, AnswerOther
  <2> QED
    BY <2>1, <2>2, KindKept, AnswerOther
<1>10. CASE Assign(s) \/ Release(s)
  <2>1. q.kind # "claim"
    BY <1>0, <1>10 DEF Assign, Release, Serves, Path
  <2>2. Answer(s, q.conn, Visit(q)) \/ Answer(s, q.conn, Idle)
    BY <1>10 DEF Assign, Release
  <2>3. "kind" \in DOMAIN Visit(q)
    BY DEF Visit, Idle
  <2> QED
    BY <2>1, <2>2, <2>3, KindKept, AnswerOther
<1>11. ASSUME NEW k \in Coordinators, WriteAssignment(s, k) PROVE Other(s)
  <2> DEFINE left == q.todo \ {Least(q.todo)}
             next == IF q.todo = {Least(q.todo)} THEN "commit" ELSE "write"
             a == [q EXCEPT !.todo = left, !.at = next]
  <2>1. Answer(s, q.conn, a)
    BY <1>11 DEF WriteAssignment
  <2> HIDE DEF left, next
  <2>2. "kind" \in DOMAIN a /\ a.kind = q.kind
    BY <1>0 DEF RequestRecords
  <2> HIDE DEF a
  <2> QED
    BY <2>1, <2>2, AnswerOther
<1> QED
  BY <1>1, <1>2, <1>3, <1>4, <1>5, <1>6, <1>7, <1>8, <1>9, <1>10, <1>11 DEF Statement

\* A step that ends a choice for oneself with success is the last statement
\* of that choice.
LEMMA OwnStep ==
  ASSUME Inv, [Next]_vars, NEW r \in Requests, req[r].kind = "claim",
         req'[r].kind = "visit"
  PROVE  Look(r) \/ Insert(r)
<1>0. /\ \A s \in Requests : Path(req[s]) /\ req[s] \in RequestRecords
      /\ req \in [Requests -> RequestRecords]
  BY DEF Inv, TypeOK
<1>1. \A s \in Requests : ~Other(s)
  BY DEF Other
<1>2. CASE UNCHANGED vars
  BY <1>2 DEF vars
<1>3. ASSUME NEW s \in Requests, NEW kind \in Kinds, NEW m \in Asked \cup {NoMember},
             NEW k \in Askers \cup {NoOne}, Arrive(s, kind, m, k)
      PROVE  FALSE
  <2>1. s # r
    BY <1>0, <1>3 DEF Arrive, Path
  <2> QED
    BY <1>0, <1>3, <2>1 DEF Arrive
<1>4. ASSUME NEW s \in Requests, NEW m \in Asked, Leave(s, m) PROVE FALSE
  <2>1. s # r
    BY <1>0, <1>4 DEF Leave, Path
  <2> QED
    BY <1>0, <1>4, <2>1 DEF Leave
<1>5. ASSUME NEW s \in Requests, NEW c \in Conns, Send(s, c) PROVE FALSE
  <2>1. req' = [req EXCEPT ![s] = [req[s] EXCEPT !.conn = c]]
    BY <1>5 DEF Send
  <2>2. [req[s] EXCEPT !.conn = c].kind = req[s].kind
    BY <1>0 DEF RequestRecords
  <2> QED
    BY <1>0, <2>1, <2>2
<1>6. ASSUME NEW s \in Requests, Statement(s), ~(Look(r) \/ Insert(r)) PROVE FALSE
  <2>1. CASE Look(s) \/ Insert(s)
    <3>1. s # r
      BY <1>6, <2>1
    <3>3. \A t \in Requests \ {s} : req'[t].kind = req[t].kind
      <4>2. PICK c, q : Answer(s, c, q)
        BY <2>1 DEF Look, Insert
      <4> SUFFICES ASSUME NEW t \in Requests \ {s} PROVE req'[t].kind = req[t].kind
        OBVIOUS
      <4>3. \/ req'[t] = [req[t] EXCEPT !.clean = @ /\ req[t].home # c]
            \/ req'[t] = [req[t] EXCEPT !.clean = FALSE]
        BY <4>2 DEF Answer
      <4> QED
        BY <1>0, <4>3 DEF RequestRecords
    <3> QED
      BY <3>1, <3>3
  <2>2. CASE ~Look(s) /\ ~Insert(s)
    BY <1>1, <1>6, <2>2, OtherStatement
  <2> QED
    BY <2>1, <2>2
<1>7. ASSUME NEW s \in Requests, Refused(s) \/ Fails(s) \/ Deadlock(s) PROVE FALSE
  <2>1. Answer(s, req[s].conn, Thrown(req[s]))
    BY <1>7 DEF Refused, Fails, Deadlock
  <2>2. Other(s)
    BY <2>1, KindKept, AnswerOther
  <2> QED
    BY <1>1, <2>2
<1>8. ASSUME NEW s \in Requests, NoConnection(s) PROVE FALSE
  <2> DEFINE t == Thrown(req[s])
  <2>1. "kind" \in DOMAIN t /\ t.kind \in {req[s].kind, "none"}
    BY KindKept
  <2>2. req' = [req EXCEPT ![s] = t]
    BY <1>8 DEF NoConnection
  <2> HIDE DEF t
  <2> QED
    BY <1>0, <2>1, <2>2
<1>9. ASSUME NEW m \in Returning, Enter(m) PROVE FALSE
  BY <1>9 DEF Enter
<1>10. ASSUME NEW c \in Conns, Lose(c) PROVE FALSE
  <2> DEFINE f(s) == IF req[s].conn = c THEN NoConn ELSE req[s].conn
             g(s) == req[s].clean /\ req[s].home # c
  <2>1. req' = [s \in Requests |-> [req[s] EXCEPT !.conn = f(s), !.clean = g(s)]]
    BY <1>10 DEF Lose
  <2> HIDE DEF f, g
  <2>2. [req[r] EXCEPT !.conn = f(r), !.clean = g(r)].kind = req[r].kind
    BY <1>0 DEF RequestRecords
  <2> QED
    BY <2>1, <2>2
<1> QED
  BY <1>2, <1>3, <1>4, <1>5, <1>6, <1>7, <1>8, <1>9, <1>10 DEF Next

\* The property for one step.
LEMMA OwnClaimStep ==
  ASSUME Inv, [Next]_vars, NEW r \in Requests, NEW c \in Conns, NEW m \in Members,
         req[r].kind = "claim", req[r].conn = c, req'[r].kind = "visit"
  PROVE  View(c)[m] \in {NoOne, View(c)'[m]}
<1>0. m \in Keys /\ PoolTyped /\ req[r] \in RequestRecords
  BY ClaimsAssumption DEF Inv, TypeOK
<1>1. CASE Look(r)
  <2>1. Apply(c, "uses", Nothing)
    BY <1>1 DEF Look
  <2>2. m \notin DOMAIN Nothing
    BY DEF Nothing
  <2> QED
    BY <1>0, <2>1, <2>2, ApplyView
<1>2. CASE Insert(r)
  <2>1. CASE View(c)[req[r].who] = NoOne
    <3>1. Apply(c, "uses", Row(req[r].who, req[r].by))
      BY <1>2, <2>1 DEF Insert
    <3>2. CASE m = req[r].who
      BY <2>1, <3>2
    <3>3. CASE m # req[r].who
      <4>1. m \notin DOMAIN Row(req[r].who, req[r].by)
        BY <3>3 DEF Row
      <4> QED
        BY <1>0, <3>1, <4>1, ApplyView
    <3> QED
      BY <3>2, <3>3
  <2>2. CASE View(c)[req[r].who] # NoOne
    <3> DEFINE a == [req[r] EXCEPT !.at = "again"]
    <3>1. Answer(r, c, a)
      BY <1>2, <2>2 DEF Insert
    <3>2. "kind" \in DOMAIN a /\ a.kind = "claim"
      BY <1>0 DEF RequestRecords
    <3> HIDE DEF a
    <3>3. Other(r)
      BY <3>1, <3>2, AnswerOther
    <3> QED
      BY <3>3 DEF Other
  <2> QED
    BY <2>1, <2>2
<1> QED
  BY <1>1, <1>2, OwnStep

-----------------------------------------------------------------------------
\* Every variable keeps its type.
THEOREM ClaimsTyped == Spec => []TypeOK
<1>1. Inv => TypeOK
  BY DEF Inv
<1> QED
  BY <1>1, InvInit, InvNext, PTL DEF Spec

\* Choosing a member for oneself takes him from nobody, however stale the
\* look at the table was and whoever's transaction the statements got into
\* (setCycleCollectionClaim).
THEOREM OwnClaimsTakeNothing == Spec => OwnClaimTakesNothing
<1>1. Inv /\ [Next]_vars
        => [\A r \in Requests, c \in Conns, m \in Members :
              req[r].kind = "claim" /\ req[r].conn = c /\ req'[r].kind = "visit"
                => View(c)[m] \in {NoOne, View(c)'[m]}]_vars
  BY OwnClaimStep
<1> QED
  BY <1>1, InvInit, InvNext, PTL DEF Spec, OwnClaimTakesNothing
-----------------------------------------------------------------------------
(* A shift that is left alone *)

\* What a transaction that has changed rows sees of the table t.
Looks(t, rows) == [k \in Keys |-> IF k \in DOMAIN rows THEN rows[k] ELSE t[k]]

\* The stale claims that are still there.
Rest(q) == IF q.at = "place" THEN q.todo \ {Stale(q)} ELSE q.todo

\* How far the loop of a shift has come, when view is what it has made of the
\* claims: those handled are gone, everybody in the queue has kept his, and
\* no coordinator has lost any but the one that is being moved, unless there
\* is nobody left to give.
Progress(q, view) ==
  /\ q.todo \subseteq Members \ q.roster
  /\ \A m \in q.todo : q.seen[m] # NoOne
  /\ \A m \in Rest(q) : view[m] = q.seen[m]
  /\ \A m \in Members \ (q.roster \cup Rest(q)) : view[m] = NoOne
  /\ \A m \in q.roster : q.seen[m] # NoOne => view[m] = q.seen[m]
  /\ q.taken = {m \in q.roster : view[m] # NoOne}
  /\ IF q.at = "place"
     THEN \A k \in Coordinators :
            Load(q.seen, k) = Load(view, k) + (IF q.seen[Stale(q)] = k THEN 1 ELSE 0)
     ELSE \/ Unassigned(q) = {}
          \/ \A k \in Coordinators : Load(view, k) = Load(q.seen, k)

\* At which statements a request has had its BEGIN.
Homed(q) ==
  /\ q.at \in {"schema", "queue", "claims", "begin", "savebegin", "savecommit"}
       => q.home = NoConn
  /\ q.at \in {"delete", "place", "write", "commit"} => q.home \in Conns
  /\ q.at = "rollback" /\ q.kind # "spread" => q.home \in Conns
  /\ q.at \in {"savebegin", "savecommit", "write"} => q.kind = "spread"

\* As long as nobody has disturbed a shift, the table is as it was read, and
\* its transaction is open and has made of it what Progress says.
Whole(q, t, cn) ==
  q.kind # "spread" /\ q.clean =>
    /\ q.at \in {"begin", "delete", "place", "commit", "rollback"} => t = q.seen
    /\ q.at = "begin" => Progress(q, q.seen)
    /\ q.at \in {"delete", "place", "commit"} =>
         cn[q.home].tx = "open" /\ Progress(q, Looks(t, cn[q.home].rows))
    /\ q.at = "commit" => q.todo = {}

Shift == \A r \in Requests : Homed(req[r]) /\ Whole(req[r], table, conn)

\* What the shift of a request depends on.
Alike(p, q) == Same(p, q) /\ p.home = q.home /\ p.seen = q.seen

\* Requests alike in what they have read and done have made the same progress.
LEMMA ProgressAlike ==
  ASSUME NEW p, NEW q, Alike(p, q), NEW view, Progress(q, view)
  PROVE  Progress(p, view)
<1>1. Stale(p) = Stale(q) /\ Unassigned(p) = Unassigned(q)
  BY DEF Alike, Same, Stale, Unassigned
<1>2. Rest(p) = Rest(q)
  BY <1>1 DEF Rest, Alike, Same
<1> QED
  BY <1>1, <1>2 DEF Progress, Alike, Same

\* A shift that has not been disturbed, in a table and on a connection that
\* have not changed.
LEMMA WholeAlike ==
  ASSUME NEW p, NEW q, Alike(p, q), p.clean => q.clean,
         NEW t, NEW u, NEW cn, NEW dn, p.clean => u = t,
         p.clean /\ q.home \in Conns => dn[q.home] = cn[q.home],
         Homed(q), Whole(q, t, cn)
  PROVE  Homed(p) /\ Whole(p, u, dn)
<1>1. Homed(p)
  BY DEF Homed, Alike, Same
<1>2. ASSUME p.kind # "spread", p.clean PROVE Whole(p, u, dn)
  <2>1. /\ u = t /\ p.at = q.at /\ p.home = q.home /\ p.seen = q.seen /\ p.todo = q.todo
        /\ q.kind # "spread" /\ q.clean
    BY <1>2 DEF Alike, Same
  <2>2. q.at = "begin" => Progress(p, p.seen)
    BY <2>1, ProgressAlike DEF Whole
  <2>3. q.at \in {"delete", "place", "commit"} =>
          dn[p.home].tx = "open" /\ Progress(p, Looks(u, dn[p.home].rows))
    <3>1. SUFFICES ASSUME q.at \in {"delete", "place", "commit"}
                   PROVE  dn[p.home].tx = "open" /\ Progress(p, Looks(u, dn[p.home].rows))
      OBVIOUS
    <3>2. dn[p.home] = cn[q.home]
      BY <1>2, <2>1, <3>1 DEF Homed
    <3>3. cn[q.home].tx = "open" /\ Progress(q, Looks(t, cn[q.home].rows))
      BY <2>1, <3>1 DEF Whole
    <3>4. Progress(p, Looks(t, cn[q.home].rows))
      BY <3>3, ProgressAlike
    <3> QED
      BY <2>1, <3>2, <3>3, <3>4
  <2> QED
    BY <2>1, <2>2, <2>3 DEF Whole
<1> QED
  BY <1>1, <1>2 DEF Whole

\* An answer leaves the shifts of the others as they are, or disturbs them.
LEMMA AnsweredShift ==
  ASSUME Inv, NEW r \in Requests, NEW c, NEW q \in RequestRecords, Answer(r, c, q)
  PROVE  /\ Alike(req'[r], q)
         /\ req'[r].clean => q.clean /\ q.home \in {NoConn, c}
         /\ \A s \in Requests \ {r} :
              /\ Alike(req'[s], req[s])
              /\ req'[s].clean => /\ req[s].clean /\ req[s].home # c
                                  /\ table' = table
<1> DEFINE b == q.clean /\ q.home \in {NoConn, c}
           own == [q EXCEPT !.conn = NoConn, !.clean = b]
<1>0. req \in [Requests -> RequestRecords]
  BY DEF Inv, TypeOK
<1>1. /\ req'[r] = own
      /\ \A s \in Requests \ {r} :
           \/ /\ table' = table
              /\ req'[s] = [req[s] EXCEPT !.clean = req[s].clean /\ req[s].home # c]
           \/ req'[s] = [req[s] EXCEPT !.clean = FALSE]
  BY DEF Answer
<1>2. Alike(own, q) /\ own.clean = b
  <2> HIDE DEF b
  <2> QED
    BY DEF Alike, Same, RequestRecords
<1>3. ASSUME NEW s \in Requests \ {r}
      PROVE  /\ Alike(req'[s], req[s])
             /\ req'[s].clean => req[s].clean /\ req[s].home # c /\ table' = table
  <2> DEFINE d == req[s].clean /\ req[s].home # c
  <2>1. PICK f \in BOOLEAN : /\ req'[s] = [req[s] EXCEPT !.clean = f]
                             /\ f => d /\ table' = table
    BY <1>1
  <2>2. req[s] \in RequestRecords
    BY <1>0
  <2> HIDE DEF d
  <2>3. Alike(req'[s], req[s]) /\ req'[s].clean = f
    BY <2>1, <2>2 DEF Alike, Same, RequestRecords
  <2> QED
    BY <2>1, <2>3 DEF d
<1> QED
  BY <1>1, <1>2, <1>3

\* A step that answers r keeps the shifts when it changes no other connection
\* and leaves the shift of r, if nobody has disturbed it, as it should be.
LEMMA ShiftStep ==
  ASSUME Inv, Shift, NEW r \in Requests, NEW c \in Conns,
         NEW q \in RequestRecords, Answer(r, c, q), Homed(q),
         \A d \in Conns \ {c} : conn'[d] = conn[d],
         q.clean /\ q.home \in {NoConn, c} => Whole(q, table', conn')
  PROVE  Shift'
<1>1. /\ Alike(req'[r], q)
      /\ req'[r].clean => q.clean /\ q.home \in {NoConn, c}
      /\ \A s \in Requests \ {r} :
           /\ Alike(req'[s], req[s])
           /\ req'[s].clean => req[s].clean /\ req[s].home # c /\ table' = table
  BY AnsweredShift
<1>2. Homed(req'[r]) /\ Whole(req'[r], table', conn')
  <2>1. CASE req'[r].clean
    BY <1>1, <2>1, WholeAlike
  <2>2. CASE ~req'[r].clean
    BY <1>1, <2>2 DEF Alike, Same, Homed, Whole
  <2> QED
    BY <2>1, <2>2
<1>3. ASSUME NEW s \in Requests \ {r}
      PROVE  Homed(req'[s]) /\ Whole(req'[s], table', conn')
  <2>1. Homed(req[s]) /\ Whole(req[s], table, conn)
    BY DEF Shift
  <2>2. req'[s].clean /\ req[s].home \in Conns => conn'[req[s].home] = conn[req[s].home]
    BY <1>1
  <2> QED
    BY <1>1, <2>1, <2>2, WholeAlike
<1>4. \A s \in Requests : Homed(req'[s]) /\ Whole(req'[s], table', conn')
  BY <1>2, <1>3
<1> QED
  BY <1>4 DEF Shift, Homed, Whole, Progress, Rest, Stale, Unassigned, Looks, Load, Least

\* The stages at which a shift may be under way.
ShiftStages == {"begin", "delete", "place", "commit", "rollback"}

\* A step of r, on its connection, after which r is in no shift keeps Shift.
LEMMA ShiftStepAway ==
  ASSUME Inv, Shift, NEW r \in Requests, NEW c \in Conns,
         NEW q \in RequestRecords, Answer(r, c, q), Homed(q),
         \A d \in Conns \ {c} : conn'[d] = conn[d],
         q.kind = "spread" \/ q.at \notin ShiftStages
  PROVE  Shift'
<1>1. Whole(q, table', conn')
  BY DEF Whole, ShiftStages
<1> QED
  BY <1>1, ShiftStep

\* A statement touches one connection.
LEMMA PoolLocal ==
  ASSUME PoolTyped, NEW c \in Conns,
         \/ \E lock, changes : Apply(c, lock, changes)
         \/ Begin(c) \/ Commit(c) \/ Rollback(c) \/ Spoil(c)
         \/ conn' = conn
  PROVE  \A d \in Conns \ {c} : conn'[d] = conn[d]
<1>1. ASSUME NEW lock, NEW changes, Apply(c, lock, changes)
      PROVE  \A d \in Conns \ {c} : conn'[d] = conn[d]
  <2>1. CASE conn[c].tx = "open"
    BY <1>1, <2>1 DEF Apply, PoolTyped
  <2>2. CASE conn[c].tx # "open"
    BY <1>1, <2>2 DEF Apply
  <2> QED
    BY <2>1, <2>2
<1>2. CASE Begin(c) \/ Commit(c) \/ Rollback(c) \/ Spoil(c) \/ conn' = conn
  BY <1>2 DEF PoolTyped, Begin, Commit, Rollback, Spoil
<1> QED
  BY <1>1, <1>2

\* The next stage of a request, where it has or needs no transaction.
LEMMA HomedSimple ==
  /\ Homed(Idle)
  /\ \A q : Homed(Visit(q))
BY DEF Homed, Idle, Visit

\* The statements that neither begin a shift nor go on with one.
LEMMA OutsideShift ==
  ASSUME Inv, Shift, NEW r \in Requests,
         \/ Schema(r) \/ ReadQueue(r) \/ SaveBegin(r) \/ SaveCommit(r)
         \/ CheckMember(r) \/ Assign(r) \/ Look(r) \/ Insert(r) \/ Release(r)
         \/ CommitShift(r) \/ RollbackShift(r)
         \/ \E k \in Coordinators : WriteAssignment(r, k)
  PROVE  Shift'
<1> DEFINE q == req[r]
           c == q.conn
<1>0. q \in RequestRecords /\ Path(q) /\ Homed(q) /\ PoolTyped
  BY DEF Inv, TypeOK, Shift
<1>1. c \in Conns
  <2>1. c # NoConn
    BY DEF Schema, ReadQueue, SaveBegin, SaveCommit, CheckMember, Assign, Look, Insert,
           Release, CommitShift, RollbackShift, WriteAssignment, Serves
  <2> QED
    BY <1>0, <2>1 DEF RequestRecords
<1>2. \A d \in Conns \ {c} : conn'[d] = conn[d]
  <2>1. \/ \E lock, changes : Apply(c, lock, changes)
        \/ Begin(c) \/ Commit(c) \/ Rollback(c) \/ Spoil(c)
        \/ conn' = conn
    BY DEF Schema, ReadQueue, SaveBegin, SaveCommit, CheckMember, Assign, Look, Insert,
           Release, CommitShift, RollbackShift, WriteAssignment
  <2> QED
    BY <1>0, <1>1, <2>1, PoolLocal
<1>3. ASSUME NEW a \in RequestRecords, Answer(r, c, a), Homed(a),
             a.kind = "spread" \/ a.at \notin ShiftStages
      PROVE  Shift'
  BY <1>1, <1>2, <1>3, ShiftStepAway
<1>4. Answer(r, c, Idle) \/ Answer(r, c, Visit(q)) => Shift'
  <2>1. Idle.at \notin ShiftStages /\ Visit(q).at \notin ShiftStages
    BY DEF Idle, Visit, ShiftStages
  <2> QED
    BY <1>3, <2>1, IdleTyped, VisitTyped, HomedSimple
<1>5. ASSUME NEW at \in Stages, Answer(r, c, [q EXCEPT !.at = at]),
             \/ at \in {"queue", "savebegin", "savecommit", "begin"} /\ q.home = NoConn
             \/ at \in {"member", "upsert", "look", "drop", "insert", "again"},
             at \in {"savebegin", "savecommit", "begin"} => q.kind = "spread"
      PROVE  Shift'
  <2> DEFINE a == [q EXCEPT !.at = at]
  <2>1. a \in RequestRecords /\ a.at = at /\ a.kind = q.kind /\ a.home = q.home
    BY <1>0 DEF RequestRecords
  <2>2. Homed(a)
    BY <1>5, <2>1 DEF Homed
  <2>3. a.kind = "spread" \/ a.at \notin ShiftStages
    BY <1>5, <2>1 DEF ShiftStages
  <2> HIDE DEF a
  <2> QED
    BY <1>3, <1>5, <2>1, <2>2, <2>3 DEF a
<1>6. CASE Schema(r)
  <2>1. q.home = NoConn /\ \E at \in {"queue", "member"} : Answer(r, c, [q EXCEPT !.at = at])
    BY <1>0, <1>6 DEF Schema, Serves, Homed
  <2> QED
    BY <1>5, <2>1 DEF Stages
<1>7. CASE ReadQueue(r)
  <2> DEFINE a == [q EXCEPT !.roster = queue, !.at = "claims"]
             b == [q EXCEPT !.todo = queue, !.at = "savebegin"]
  <2>1. q.home = NoConn
    BY <1>0, <1>7 DEF ReadQueue, Serves, Homed
  <2>2. queue \in SUBSET Members
    BY DEF Inv, TypeOK
  <2>3. /\ a \in RequestRecords /\ a.at = "claims" /\ a.home = NoConn
        /\ b \in RequestRecords /\ b.at = "savebegin" /\ b.home = NoConn /\ b.kind = q.kind
    <3>1. a \in RequestRecords /\ b \in RequestRecords
      BY <1>0, <2>2 DEF RequestRecords, Stages
    <3>2. /\ a.at = "claims" /\ a.home = q.home
          /\ b.at = "savebegin" /\ b.home = q.home /\ b.kind = q.kind
      BY <1>0 DEF RequestRecords
    <3> QED
      BY <2>1, <3>1, <3>2
  <2>4. \/ Answer(r, c, a) \/ Answer(r, c, Idle)
        \/ q.kind = "spread" /\ Answer(r, c, b)
    <3>1. CASE q.kind # "spread"
      BY <1>7, <3>1 DEF ReadQueue
    <3>2. CASE q.kind = "spread" /\ queue = {}
      BY <1>7, <3>2 DEF ReadQueue
    <3>3. CASE q.kind = "spread" /\ queue # {}
      BY <1>7, <3>3 DEF ReadQueue
    <3> QED
      BY <3>1, <3>2, <3>3
  <2> HIDE DEF a, b
  <2> QED
    BY <1>3, <1>4, <2>3, <2>4 DEF Homed, ShiftStages
<1>8. CASE SaveBegin(r) \/ SaveCommit(r)
  <2>1. q.kind = "spread" /\ q.home = NoConn
    BY <1>0, <1>8 DEF SaveBegin, SaveCommit, Serves, Homed
  <2>2. \E at \in {"savecommit", "begin"} : Answer(r, c, [q EXCEPT !.at = at])
    BY <1>8 DEF SaveBegin, SaveCommit
  <2> QED
    BY <1>5, <2>1, <2>2 DEF Stages
<1>9. CASE CheckMember(r)
  <2>1. \/ Answer(r, c, Idle)
        \/ \E at \in {"upsert", "look", "drop"} : Answer(r, c, [q EXCEPT !.at = at])
    <3>1. CASE q.kind = "assign"
      BY <1>9, <3>1 DEF CheckMember
    <3>2. CASE q.kind = "claim"
      BY <1>9, <3>2 DEF CheckMember
    <3>3. CASE q.kind \notin {"assign", "claim"}
      BY <1>9, <3>3 DEF CheckMember
    <3> QED
      BY <3>1, <3>2, <3>3
  <2> QED
    BY <1>4, <1>5, <2>1 DEF Stages
<1>10. CASE Assign(r) \/ Release(r) \/ CommitShift(r) \/ RollbackShift(r)
  BY <1>4, <1>10 DEF Assign, Release, CommitShift, RollbackShift
<1>11. CASE Look(r)
  <2> DEFINE owner == View(c)[q.who]
  <2>1. Answer(r, c, Visit(q)) \/ Answer(r, c, [q EXCEPT !.at = "insert"]) \/ Answer(r, c, Idle)
    <3>1. CASE owner = q.by
      BY <1>11, <3>1 DEF Look
    <3>2. CASE owner # q.by /\ (owner = NoOne /\ q.at = "look")
      BY <1>11, <3>2 DEF Look
    <3>3. CASE owner # q.by /\ ~(owner = NoOne /\ q.at = "look")
      BY <1>11, <3>3 DEF Look
    <3> QED
      BY <3>1, <3>2, <3>3
  <2> QED
    BY <1>4, <1>5, <2>1 DEF Stages
<1>12. CASE Insert(r)
  <2>1. Answer(r, c, Visit(q)) \/ Answer(r, c, [q EXCEPT !.at = "again"])
    BY <1>12 DEF Insert
  <2> QED
    BY <1>4, <1>5, <2>1 DEF Stages
<1>13. ASSUME NEW k \in Coordinators, WriteAssignment(r, k) PROVE Shift'
  <2> DEFINE m == Least(q.todo)
             left == q.todo \ {m}
             next == IF q.todo = {m} THEN "commit" ELSE "write"
             a == [q EXCEPT !.todo = left, !.at = next]
  <2>1. q.kind = "spread" /\ q.home \in Conns
    BY <1>0, <1>13 DEF WriteAssignment, Serves, Homed
  <2>2. Answer(r, c, a)
    BY <1>13 DEF WriteAssignment
  <2>3. left \in SUBSET Members /\ next \in {"commit", "write"}
    BY <1>0 DEF RequestRecords
  <2> HIDE DEF left, next
  <2>4. a \in RequestRecords /\ a.at = next /\ a.kind = "spread" /\ a.home = q.home
    BY <1>0, <2>1, <2>3 DEF RequestRecords, Stages
  <2>5. Homed(a)
    BY <2>1, <2>3, <2>4 DEF Homed
  <2> HIDE DEF a
  <2> QED
    BY <1>3, <2>2, <2>4, <2>5
<1> QED
  BY <1>6, <1>7, <1>8, <1>9, <1>10, <1>11, <1>12, <1>13

\* A connection has changes to show only while its transaction is open.
Emptied == \A c \in Conns : conn[c].tx # "open" => conn[c].rows = Nothing

\* Whatever happens on one connection, one with no open transaction holds no rows.
LEMMA EmptiedPool ==
  ASSUME PoolTyped, Emptied, NEW c \in Conns,
         \/ \E lock, changes : Apply(c, lock, changes)
         \/ Begin(c) \/ Commit(c) \/ Rollback(c) \/ Spoil(c)
         \/ conn' = conn
  PROVE  Emptied'
<1>1. SUFFICES conn'[c].tx # "open" => conn'[c].rows = Nothing
  BY PoolLocal DEF Emptied, Nothing
<1>2. conn[c] \in Connections
  BY DEF PoolTyped
<1>3. ASSUME NEW lock, NEW changes, Apply(c, lock, changes)
      PROVE  conn'[c].tx # "open" => conn'[c].rows = Nothing
  <2>1. CASE conn[c].tx = "open"
    BY <1>2, <1>3, <2>1 DEF Apply, PoolTyped, Connections
  <2>2. CASE conn[c].tx # "open"
    BY <1>3, <2>2 DEF Apply, Emptied
  <2> QED
    BY <2>1, <2>2
<1>4. CASE Begin(c)
  <2>1. conn'[c].rows = conn[c].rows /\ (conn[c].tx = "open" => conn'[c].tx = "open")
    BY <1>2, <1>4 DEF Begin, PoolTyped, Connections
  <2> QED
    BY <2>1 DEF Emptied
<1>5. CASE Commit(c) \/ Rollback(c)
  BY <1>5 DEF Commit, Rollback, PoolTyped, Quiet
<1>6. CASE Spoil(c)
  BY <1>2, <1>6 DEF Spoil, PoolTyped, Emptied, Quiet
<1>7. CASE conn' = conn
  BY <1>7 DEF Emptied
<1> QED
  BY <1>3, <1>4, <1>5, <1>6, <1>7

\* Every step keeps Emptied.
LEMMA EmptiedNext == Inv /\ Emptied /\ [Next]_vars => Emptied'
<1> SUFFICES ASSUME Inv, Emptied, [Next]_vars PROVE Emptied'
  OBVIOUS
<1>0. PoolTyped
  BY DEF Inv, TypeOK
<1>1. ASSUME conn' = conn PROVE Emptied'
  BY <1>1 DEF Emptied
<1>2. ASSUME NEW r \in Requests, Statement(r) \/ Refused(r) \/ Fails(r) \/ Deadlock(r)
      PROVE  Emptied'
  <2> DEFINE c == req[r].conn
  <2>1. c \in Conns
    <3>1. CASE Deadlock(r)
      BY <3>1 DEF Deadlock
    <3>2. CASE Statement(r) \/ Refused(r) \/ Fails(r)
      <4>1. c # NoConn
        BY <3>2 DEF Statement, Schema, ReadQueue, ReadClaims, BeginShift, DeleteStale, Place,
               CommitShift, RollbackShift, SaveBegin, SaveCommit, CheckMember, Assign,
               Look, Insert, Release, WriteAssignment, Serves, Refused, Fails
      <4> QED
        BY <4>1, BusyIsOn
    <3> QED
      BY <1>2, <3>1, <3>2
  <2>2. \/ \E lock, changes : Apply(c, lock, changes)
        \/ Begin(c) \/ Commit(c) \/ Rollback(c) \/ Spoil(c)
        \/ conn' = conn
    BY <1>2 DEF Statement, Schema, ReadQueue, ReadClaims, BeginShift, DeleteStale, Place,
           CommitShift, RollbackShift, SaveBegin, SaveCommit, CheckMember, Assign,
           Look, Insert, Release, WriteAssignment, Refused, Fails, Deadlock
  <2> QED
    BY <1>0, <2>1, <2>2, EmptiedPool
<1>3. ASSUME NEW c \in Conns, Lose(c) PROVE Emptied'
  BY <1>0, <1>3 DEF Lose, Emptied, PoolTyped, Quiet
<1>4. ASSUME NEW r \in Requests,
             \/ \E kind \in Kinds, m \in Asked \cup {NoMember},
                   k \in Askers \cup {NoOne} : Arrive(r, kind, m, k)
             \/ \E m \in Asked : Leave(r, m)
             \/ \E c \in Conns : Send(r, c)
             \/ NoConnection(r)
      PROVE  Emptied'
  BY <1>1, <1>4 DEF Arrive, Leave, Send, NoConnection
<1>5. CASE \E m \in Returning : Enter(m)
  BY <1>1, <1>5 DEF Enter
<1>6. CASE UNCHANGED vars
  BY <1>1, <1>6 DEF vars
<1> QED
  BY <1>2, <1>3, <1>4, <1>5, <1>6 DEF Next

-----------------------------------------------------------------------------
(* The statements of a shift *)

\* A member who is given back is one fewer with his coordinator, and with
\* nobody else.
LEMMA LoadMoves ==
  ASSUME NEW t, NEW u, NEW m \in Members, u[m] = NoOne,
         \A n \in Members \ {m} : u[n] = t[n], NEW k \in Coordinators
  PROVE  /\ Load(u, k) \in Nat
         /\ Load(t, k) = Load(u, k) + (IF t[m] = k THEN 1 ELSE 0)
<1> DEFINE T == {n \in Members : t[n] = k}
           U == {n \in Members : u[n] = k}
<1>1. m \notin U /\ k # NoOne
  BY ClaimsAssumption
<1>2. IsFiniteSet(U)
  <2>1. U \in SUBSET Members
    OBVIOUS
  <2> QED
    BY <2>1, FS_Subset, ClaimsAssumption
<1>3. CASE t[m] = k
  <2>1. T = U \cup {m}
    BY <1>3
  <2>2. Cardinality(U) \in Nat /\ Cardinality(U \cup {m}) = Cardinality(U) + 1
    BY <1>1, <1>2, FS_CardinalityType, FS_AddElement
  <2> QED
    BY <1>3, <2>1, <2>2 DEF Load
<1>4. CASE t[m] # k
  <2>1. T = U
    BY <1>1, <1>4
  <2>2. Cardinality(U) \in Nat
    BY <1>2, FS_CardinalityType
  <2> QED
    BY <1>4, <2>1, <2>2 DEF Load
<1> QED
  BY <1>3, <1>4

\* What is seen after one row has been written inside an open transaction.
LEMMA RowShows ==
  ASSUME PoolTyped, NEW c \in Conns, conn[c].tx = "open", NEW lock, NEW k, NEW v,
         Apply(c, lock, Row(k, v))
  PROVE  /\ table' = table /\ conn'[c].tx = "open"
         /\ \A x \in Keys : Looks(table', conn'[c].rows)[x]
                              = IF x = k THEN v ELSE Looks(table, conn[c].rows)[x]
<1>1. conn[c] \in Connections
  BY DEF PoolTyped
<1>2. /\ table' = table
      /\ conn' = [conn EXCEPT ![c].rows = On(Row(k, v), @), ![c].lock = Stronger(@, lock)]
  BY DEF Apply
<1>3. conn'[c].tx = "open" /\ conn'[c].rows = On(Row(k, v), conn[c].rows)
  BY <1>1, <1>2 DEF PoolTyped, Connections
<1>4. DOMAIN Row(k, v) = {k} /\ Row(k, v)[k] = v
  BY DEF Row
<1>5. ASSUME NEW x \in Keys
      PROVE  Looks(table', conn'[c].rows)[x]
               = IF x = k THEN v ELSE Looks(table, conn[c].rows)[x]
  <2>1. CASE x = k
    BY <1>3, <1>4, <2>1 DEF Looks, On
  <2>2. CASE x # k
    BY <1>2, <1>3, <1>4, <2>2 DEF Looks, On
  <2> QED
    BY <2>1, <2>2
<1> QED
  BY <1>2, <1>3, <1>5

\* Without changes of its own a transaction sees the table.
LEMMA NothingShows == \A t \in Contents : Looks(t, Nothing) = t
  BY DEF Looks, Nothing, Contents

\* The claim a shift works on is one it has to do.
LEMMA StaleIsTodo == \A q \in RequestRecords : q.todo # {} => Stale(q) \in q.todo
<1> SUFFICES ASSUME NEW q \in RequestRecords, q.todo # {} PROVE Stale(q) \in q.todo
  OBVIOUS
<1>1. q.todo \in SUBSET Members
  BY DEF RequestRecords
<1>2. Least(q.todo) \in q.todo
  BY <1>1, LeastIsIn
<1> QED
  BY <1>2 DEF Stale

\* The claims are read: nothing has been moved yet.
LEMMA ReadClaimsShift == ASSUME Inv, Shift, Emptied, NEW r \in Requests, ReadClaims(r) PROVE Shift'
<1> DEFINE q == req[r]
           c == q.conn
           seen == View(c)
           claimed == {m \in Members : seen[m] # NoOne}
           taken == claimed \cap q.roster
           todo == claimed \ q.roster
           alone == conn[c].tx = "none"
           a == [q EXCEPT !.seen = seen, !.todo = todo, !.taken = taken,
                          !.clean = alone, !.at = "begin"]
<1>1. /\ q \in RequestRecords /\ c \in Conns /\ Path(q) /\ q.at = "claims"
      /\ Homed(q) /\ PoolTyped /\ q.roster \subseteq Members
  <2>1. q \in RequestRecords /\ c \in Conns /\ Path(q) /\ q.at = "claims"
    BY Served DEF ReadClaims, Serves
  <2> QED
    BY <2>1 DEF Shift, Inv, TypeOK, RequestRecords
<1>2. Apply(c, "uses", Nothing)
  BY DEF ReadClaims
<1>3. \A d \in Conns \ {c} : conn'[d] = conn[d]
  BY <1>1, <1>2, PoolLocal
<1>4. seen \in Contents
  <2>1. conn[c].rows \in Changes
    BY <1>1 DEF PoolTyped, Connections
  <2>2. table \in Contents
    BY <1>1 DEF PoolTyped
  <2> QED
    BY <2>1, <2>2 DEF View, Changes, Contents
<1>5. \/ Answer(r, c, Idle)
      \/ Answer(r, c, a)
  BY DEF ReadClaims
<1>6. alone => table' = seen
  <2> SUFFICES ASSUME alone PROVE table' = seen
    OBVIOUS
  <2>1. table \in Contents /\ conn[c].rows = Nothing
    BY <1>1 DEF Emptied, PoolTyped
  <2>2. table' = On(Nothing, table)
    BY <1>2 DEF Apply
  <2>3. On(Nothing, table) = table
    BY <2>1 DEF On, Nothing, Contents
  <2>4. seen = table
    BY <2>1 DEF View, Nothing, Contents
  <2> QED
    BY <2>2, <2>3, <2>4
<1>7. alone \in BOOLEAN /\ todo \in SUBSET Members /\ taken \in SUBSET Members
  OBVIOUS
<1>8. /\ todo \subseteq Members \ q.roster
      /\ \A m \in todo : seen[m] # NoOne
      /\ \A m \in Members \ (q.roster \cup todo) : seen[m] = NoOne
      /\ taken = {m \in q.roster : seen[m] # NoOne}
  BY <1>1
<1> HIDE DEF seen, taken, todo, alone
<1>9. /\ a \in RequestRecords /\ a.at = "begin" /\ a.seen = seen /\ a.todo = todo
      /\ a.taken = taken /\ a.roster = q.roster /\ a.clean = alone /\ a.home = q.home
  BY <1>1, <1>4, <1>7 DEF RequestRecords, Stages
<1> HIDE DEF a
<1>10. Homed(a)
  BY <1>1, <1>9 DEF Homed
<1>11. Progress(a, a.seen)
  BY <1>8, <1>9 DEF Progress, Rest
<1>12. Whole(a, table', conn')
  BY <1>6, <1>9, <1>11 DEF Whole
<1>13. CASE Answer(r, c, Idle)
  <2>1. Idle.at \notin ShiftStages
    BY DEF Idle, ShiftStages
  <2> QED
    BY <1>1, <1>3, <1>13, <2>1, IdleTyped, HomedSimple, ShiftStepAway
<1>14. CASE Answer(r, c, a)
  BY <1>1, <1>3, <1>9, <1>10, <1>12, <1>14, ShiftStep
<1> QED
  BY <1>5, <1>13, <1>14

\* BEGIN: the transaction is open and has changed nothing.
LEMMA BeginShiftShift == ASSUME Inv, Shift, Emptied, NEW r \in Requests, BeginShift(r) PROVE Shift'
<1> DEFINE q == req[r]
           c == q.conn
           b == q.clean /\ conn[c].tx = "none"
           next == IF q.kind = "spread" THEN "write" ELSE "delete"
           a == [q EXCEPT !.home = c, !.clean = b, !.at = next]
<1>1. /\ q \in RequestRecords /\ c \in Conns /\ q.at = "begin"
      /\ Homed(q) /\ Whole(q, table, conn) /\ PoolTyped
  <2>1. q \in RequestRecords /\ c \in Conns /\ q.at = "begin"
    BY Served DEF BeginShift, Serves
  <2> QED
    BY <2>1 DEF Shift, Inv, TypeOK
<1>2. Begin(c) /\ table' = table
  BY DEF BeginShift, Begin
<1>3. \A d \in Conns \ {c} : conn'[d] = conn[d]
  BY <1>1, <1>2, PoolLocal
<1>4. b => conn'[c].tx = "open" /\ conn'[c].rows = Nothing
  BY <1>1, <1>2 DEF Begin, PoolTyped, Connections, Emptied
<1>5. b \in BOOLEAN /\ next \in {"write", "delete"} /\ (b => q.clean)
      /\ (next = "write" <=> q.kind = "spread")
  OBVIOUS
<1>6. Answer(r, c, a)
  BY DEF BeginShift
<1> HIDE DEF b, next
<1>7. /\ a \in RequestRecords /\ a.at = next /\ a.home = c /\ a.clean = b /\ a.kind = q.kind
      /\ a.seen = q.seen /\ a.roster = q.roster /\ a.todo = q.todo /\ a.taken = q.taken
  BY <1>1, <1>5 DEF RequestRecords, Stages
<1> HIDE DEF a
<1>8. Homed(a)
  BY <1>1, <1>5, <1>7 DEF Homed
<1>9. ASSUME a.kind # "spread", a.clean PROVE Whole(a, table', conn')
  <2>1. table = q.seen /\ Progress(q, q.seen)
    BY <1>1, <1>5, <1>7, <1>9 DEF Whole
  <2>2. Looks(table', conn'[c].rows) = q.seen
    BY <1>1, <1>2, <1>4, <1>7, <1>9, <2>1, NothingShows DEF PoolTyped
  <2>3. Progress(a, q.seen)
    BY <1>1, <1>5, <1>7, <2>1 DEF Progress, Rest, Unassigned
  <2> QED
    BY <1>2, <1>4, <1>5, <1>7, <1>9, <2>1, <2>2, <2>3 DEF Whole
<1>10. Whole(a, table', conn')
  BY <1>9 DEF Whole
<1> QED
  BY <1>1, <1>3, <1>6, <1>7, <1>8, <1>10, ShiftStep

\* A stale claim is deleted: what it was worth is still to be given, unless
\* there is nobody to give.
LEMMA DeletedProgress ==
  ASSUME NEW q \in RequestRecords, q.at = "delete", q.todo # {}, NEW view, NEW seen,
         Progress(q, view),
         \A x \in Members : seen[x] = IF x = Stale(q) THEN NoOne ELSE view[x]
  PROVE  /\ view[Stale(q)] # NoOne
         /\ Unassigned(q) = {} => Progress(Handled(q), seen)
         /\ Unassigned(q) # {} => Progress([q EXCEPT !.at = "place"], seen)
<1> DEFINE m == Stale(q)
           left == q.todo \ {m}
           next == IF left = {} THEN "commit" ELSE "delete"
           h == [q EXCEPT !.todo = left, !.at = next]
           a == [q EXCEPT !.at = "place"]
<1>1. m \in q.todo /\ m \in Members /\ m \notin q.roster /\ Rest(q) = q.todo
  BY StaleIsTodo DEF Progress, Rest, RequestRecords
<1>2. view[m] = q.seen[m] /\ view[m] # NoOne
  BY <1>1 DEF Progress
<1>3. /\ \A x \in left : seen[x] = q.seen[x]
      /\ \A x \in Members \ (q.roster \cup left) : seen[x] = NoOne
      /\ \A x \in q.roster : seen[x] = view[x]
  BY <1>1 DEF Progress, RequestRecords
<1>4. q.taken = {x \in q.roster : seen[x] # NoOne}
  BY <1>3 DEF Progress
<1>5. /\ h.at = next /\ h.todo = left /\ h.seen = q.seen /\ h.roster = q.roster
      /\ h.taken = q.taken
      /\ a.at = "place" /\ a.todo = q.todo /\ a.seen = q.seen /\ a.roster = q.roster
      /\ a.taken = q.taken /\ a.kind = q.kind /\ a.who = q.who
  BY DEF RequestRecords
<1>6. next # "place" /\ Handled(q) = h
  BY DEF Handled
<1>7. Stale(a) = m
  BY <1>5 DEF Stale
<1> HIDE DEF m, left, next, h, a
<1>8. left \subseteq q.todo /\ left = q.todo \ {m}
  BY DEF left
<1>9. ASSUME Unassigned(q) = {} PROVE Progress(h, seen)
  <2>1. Rest(h) = left /\ Unassigned(h) = {}
    BY <1>5, <1>6, <1>9 DEF Rest, Unassigned
  <2>2. /\ h.todo \subseteq Members \ h.roster /\ \A x \in h.todo : h.seen[x] # NoOne
        /\ \A x \in h.roster : h.seen[x] # NoOne => seen[x] = h.seen[x]
    BY <1>3, <1>5, <1>8 DEF Progress
  <2> QED
    BY <1>3, <1>4, <1>5, <1>6, <2>1, <2>2 DEF Progress
<1>10. ASSUME Unassigned(q) # {} PROVE Progress(a, seen)
  <2>1. Rest(a) = left
    BY <1>5, <1>7, <1>8 DEF Rest
  <2>2. /\ a.todo \subseteq Members \ a.roster /\ \A x \in a.todo : a.seen[x] # NoOne
        /\ \A x \in a.roster : a.seen[x] # NoOne => seen[x] = a.seen[x]
    BY <1>3, <1>5 DEF Progress
  <2>3. ASSUME NEW k \in Coordinators
        PROVE  Load(a.seen, k) = Load(seen, k) + (IF a.seen[Stale(a)] = k THEN 1 ELSE 0)
    <3>1. Load(view, k) = Load(q.seen, k)
      BY <1>10 DEF Progress
    <3>2. seen[m] = NoOne /\ \A x \in Members \ {m} : seen[x] = view[x]
      BY <1>1 DEF m
    <3>3. Load(view, k) = Load(seen, k) + (IF view[m] = k THEN 1 ELSE 0)
      BY <1>1, <3>2, LoadMoves
    <3> QED
      BY <1>2, <1>5, <1>7, <3>1, <3>3
  <2> QED
    BY <1>3, <1>4, <1>5, <2>1, <2>2, <2>3 DEF Progress
<1> QED
  BY <1>2, <1>6, <1>9, <1>10 DEF m, a

\* The coordinator is given the first member who has nobody: he has as many
\* as when the claims were read.
LEMMA PlacedProgress ==
  ASSUME NEW q \in RequestRecords, q.at = "place", q.todo # {}, Unassigned(q) # {},
         NEW view, NEW seen, Progress(q, view),
         \A x \in Members : seen[x] = IF x = Least(Unassigned(q)) THEN q.seen[Stale(q)]
                                                                  ELSE view[x]
  PROVE  Progress([Handled(q) EXCEPT !.taken = @ \cup {Least(Unassigned(q))}], seen)
<1> DEFINE m == Stale(q)
           n == Least(Unassigned(q))
           left == q.todo \ {m}
           next == IF left = {} THEN "commit" ELSE "delete"
           given == q.taken \cup {n}
           h == [q EXCEPT !.todo = left, !.at = next]
           a == [h EXCEPT !.taken = given]
<1>1. m \in q.todo /\ m \in Members /\ Rest(q) = left /\ q.seen[m] # NoOne
  BY StaleIsTodo DEF Progress, Rest, RequestRecords
<1>2. n \in q.roster /\ n \notin q.taken /\ n \in Members
  <2>1. Unassigned(q) \in SUBSET Members
    BY DEF Unassigned, RequestRecords
  <2>2. n \in Unassigned(q)
    BY <2>1, LeastIsIn
  <2> QED
    BY <2>1, <2>2 DEF Unassigned
<1>3. view[n] = NoOne /\ q.seen[n] = NoOne
  BY <1>2 DEF Progress
<1>4. \A x \in Members : x # n => seen[x] = view[x]
  OBVIOUS
<1>5. seen[n] = q.seen[m]
  BY <1>2
<1>6. next # "place" /\ next \in {"commit", "delete"}
      /\ [Handled(q) EXCEPT !.taken = @ \cup {n}] = a
  BY DEF Handled, RequestRecords
<1>7. /\ a.at = next /\ a.todo = left /\ a.seen = q.seen /\ a.roster = q.roster
      /\ a.taken = given
  BY DEF RequestRecords
<1>8. left \subseteq q.todo /\ q.todo \subseteq Members \ q.roster /\ n \notin left
      /\ q.roster \subseteq Members
  BY <1>2 DEF Progress, RequestRecords
<1> HIDE DEF m, n, left, next, h, a
<1>9. Rest(a) = left
  BY <1>6, <1>7 DEF Rest
<1>10. a.todo \subseteq Members \ a.roster /\ \A x \in a.todo : a.seen[x] # NoOne
  BY <1>7, <1>8 DEF Progress
<1>11. \A x \in left : seen[x] = a.seen[x]
  BY <1>1, <1>4, <1>7, <1>8 DEF Progress
<1>12. \A x \in Members \ (a.roster \cup left) : seen[x] = NoOne
  BY <1>1, <1>2, <1>4, <1>7 DEF Progress
<1>13. \A x \in a.roster : a.seen[x] # NoOne => seen[x] = a.seen[x]
  BY <1>3, <1>4, <1>7, <1>8 DEF Progress
<1>14. a.taken = {x \in a.roster : seen[x] # NoOne}
  <2>1. q.taken = {x \in q.roster : view[x] # NoOne}
    BY DEF Progress
  <2>2. \A x \in q.roster : seen[x] # NoOne <=> x = n \/ x \in q.taken
    BY <1>1, <1>4, <1>5, <1>8, <2>1
  <2> QED
    BY <1>2, <1>7, <2>1, <2>2
<1>15. ASSUME NEW k \in Coordinators PROVE Load(seen, k) = Load(a.seen, k)
  <2>1. Load(q.seen, k) = Load(view, k) + (IF q.seen[m] = k THEN 1 ELSE 0)
    BY DEF Progress, m
  <2>2. n \in Members /\ view[n] = NoOne /\ \A x \in Members \ {n} : view[x] = seen[x]
    BY <1>2, <1>3, <1>4
  <2>3. /\ Load(view, k) \in Nat
        /\ Load(seen, k) = Load(view, k) + (IF seen[n] = k THEN 1 ELSE 0)
    BY <2>2, LoadMoves, SMT
  <2> QED
    BY <1>5, <1>7, <2>1, <2>3
<1>16. Progress(a, seen)
  BY <1>6, <1>7, <1>9, <1>10, <1>11, <1>12, <1>13, <1>14, <1>15 DEF Progress
<1> QED
  BY <1>6, <1>16 DEF n

\* DELETE of a stale claim brings a shift that is left alone one step on.
LEMMA DeleteStaleShift == ASSUME Inv, Shift, NEW r \in Requests, DeleteStale(r) PROVE Shift'
<1> DEFINE q == req[r]
           c == q.conn
           m == Stale(q)
           ch == IF View(c)[m] = NoOne THEN Nothing ELSE Row(m, NoOne)
           h == Handled(q)
           a == [q EXCEPT !.at = "place"]
           view == Looks(table, conn[c].rows)
           seen == Looks(table', conn'[c].rows)
<1>1. /\ q \in RequestRecords /\ c \in Conns /\ Path(q) /\ q.at = "delete" /\ q.todo # {}
      /\ Homed(q) /\ Whole(q, table, conn) /\ PoolTyped
  <2>1. q \in RequestRecords /\ c \in Conns /\ Path(q) /\ q.at = "delete"
    BY Served DEF DeleteStale, Serves
  <2> QED
    BY <2>1 DEF Shift, Inv, TypeOK, Path
<1>2. Apply(c, "uses", ch)
  BY DEF DeleteStale
<1>3. \A d \in Conns \ {c} : conn'[d] = conn[d]
  BY <1>1, <1>2, PoolLocal
<1>4. /\ Unassigned(q) = {} => Answer(r, c, h)
      /\ Unassigned(q) # {} => Answer(r, c, a)
  BY DEF DeleteStale
<1>5. m \in Keys
  BY <1>1, StaleIsMember, ClaimsAssumption
<1>6. /\ h \in RequestRecords /\ h.at \in {"commit", "delete"} /\ h.home = q.home
      /\ h.clean = q.clean /\ h.kind = q.kind /\ h.seen = q.seen
      /\ h.at = "commit" => h.todo = {}
  <2>1. h \in RequestRecords
    BY <1>1, HandledTyped
  <2> QED
    BY <1>1, <2>1 DEF Handled, RequestRecords
<1>7. /\ a \in RequestRecords /\ a.at = "place" /\ a.home = q.home
      /\ a.clean = q.clean /\ a.kind = q.kind /\ a.seen = q.seen
  BY <1>1 DEF RequestRecords, Stages
<1>8. Homed(h) /\ Homed(a)
  BY <1>1, <1>6, <1>7 DEF Homed
<1>9. q.home # NoConn
  BY <1>1, ClaimsAssumption DEF Homed
<1>10. ASSUME q.clean, q.home = c, q.kind # "spread"
       PROVE  /\ table' = q.seen /\ conn'[c].tx = "open"
              /\ Unassigned(q) = {} => Progress(h, seen)
              /\ Unassigned(q) # {} => Progress(a, seen)
  <2>1. table = q.seen /\ conn[c].tx = "open" /\ Progress(q, view)
    BY <1>1, <1>10 DEF Whole
  <2>2. view[m] # NoOne
    <3>1. m \in q.todo
      BY <1>1, StaleIsTodo
    <3> QED
      BY <1>1, <2>1, <3>1 DEF Progress, Rest
  <2>3. View(c)[m] = view[m]
    BY <1>5 DEF View, Looks
  <2>4. Apply(c, "uses", Row(m, NoOne))
    BY <1>2, <2>2, <2>3
  <2> HIDE DEF m, ch, view, seen, h, a
  <2>5. /\ table' = table /\ conn'[c].tx = "open"
        /\ \A x \in Keys : seen[x] = IF x = m THEN NoOne ELSE view[x]
    BY <1>1, <2>1, <2>4, RowShows DEF view, seen
  <2>6. \A x \in Members : seen[x] = IF x = m THEN NoOne ELSE view[x]
    BY <2>5, ClaimsAssumption
  <2>7. /\ Unassigned(q) = {} => Progress(h, seen)
        /\ Unassigned(q) # {} => Progress(a, seen)
    BY <1>1, <2>1, <2>6, DeletedProgress DEF m, h, a
  <2> QED
    BY <2>1, <2>5, <2>7
<1> HIDE DEF m, ch, view, h, a
<1>11. CASE Unassigned(q) = {}
  <2>1. h.clean /\ h.home \in {NoConn, c} => Whole(h, table', conn')
    BY <1>6, <1>9, <1>10, <1>11 DEF Whole
  <2> QED
    BY <1>1, <1>3, <1>4, <1>6, <1>8, <1>11, <2>1, ShiftStep
<1>12. CASE Unassigned(q) # {}
  <2>1. a.clean /\ a.home \in {NoConn, c} => Whole(a, table', conn')
    BY <1>7, <1>9, <1>10, <1>12 DEF Whole
  <2> QED
    BY <1>1, <1>3, <1>4, <1>7, <1>8, <1>12, <2>1, ShiftStep
<1> QED
  BY <1>11, <1>12

\* So does the INSERT that gives the coordinator the next member.
LEMMA PlaceShift == ASSUME Inv, Shift, NEW r \in Requests, Place(r) PROVE Shift'
<1> DEFINE q == req[r]
           c == q.conn
           n == Least(Unassigned(q))
           k == q.seen[Stale(q)]
           h == Handled(q)
           a == [h EXCEPT !.taken = @ \cup {n}]
           view == Looks(table, conn[c].rows)
           seen == Looks(table', conn'[c].rows)
<1>1. /\ q \in RequestRecords /\ c \in Conns /\ Path(q) /\ q.at = "place" /\ q.todo # {}
      /\ Unassigned(q) # {} /\ Homed(q) /\ Whole(q, table, conn) /\ PoolTyped
  <2>1. q \in RequestRecords /\ c \in Conns /\ Path(q) /\ q.at = "place"
    BY Served DEF Place, Serves
  <2> QED
    BY <2>1 DEF Shift, Inv, TypeOK, Path
<1>2. Apply(c, "uses", Row(n, k)) /\ Answer(r, c, a)
  BY DEF Place
<1>3. \A d \in Conns \ {c} : conn'[d] = conn[d]
  BY <1>1, <1>2, PoolLocal
<1>4. n \in Members
  <2>1. Unassigned(q) \in SUBSET Members
    BY <1>1 DEF Unassigned, RequestRecords
  <2> QED
    BY <1>1, <2>1, LeastIsIn
<1>5. /\ h \in RequestRecords /\ h.at \in {"commit", "delete"} /\ h.home = q.home
      /\ h.clean = q.clean /\ h.kind = q.kind /\ h.seen = q.seen
      /\ h.at = "commit" => h.todo = {}
  <2>1. h \in RequestRecords
    BY <1>1, HandledTyped
  <2> QED
    BY <1>1, <2>1 DEF Handled, RequestRecords
<1>6. q.home # NoConn /\ q.home \in Conns
  BY <1>1, ClaimsAssumption DEF Homed
<1>7. ASSUME q.clean, q.home = c, q.kind # "spread"
      PROVE  table' = q.seen /\ conn'[c].tx = "open" /\ Progress(a, seen)
  <2>1. table = q.seen /\ conn[c].tx = "open" /\ Progress(q, view)
    BY <1>1, <1>7 DEF Whole
  <2> HIDE DEF n, k, view, seen, h, a
  <2>2. /\ table' = table /\ conn'[c].tx = "open"
        /\ \A x \in Keys : seen[x] = IF x = n THEN k ELSE view[x]
    BY <1>1, <1>2, <2>1, RowShows DEF view, seen
  <2>3. \A x \in Members : seen[x] = IF x = n THEN k ELSE view[x]
    BY <2>2, ClaimsAssumption
  <2>4. Progress(a, seen)
    BY <1>1, <2>1, <2>3, PlacedProgress DEF n, k, h, a
  <2> QED
    BY <2>1, <2>2, <2>4
<1> HIDE DEF n, k, view, h
<1>8. /\ a \in RequestRecords /\ a.at = h.at /\ a.home = h.home /\ a.clean = h.clean
      /\ a.kind = h.kind /\ a.seen = h.seen /\ a.todo = h.todo
  BY <1>4, <1>5 DEF RequestRecords
<1> HIDE DEF a
<1>9. Homed(a)
  BY <1>1, <1>5, <1>6, <1>8 DEF Homed
<1>10. a.clean /\ a.home \in {NoConn, c} => Whole(a, table', conn')
  BY <1>5, <1>6, <1>7, <1>8 DEF Whole
<1> QED
  BY <1>1, <1>2, <1>3, <1>8, <1>9, <1>10, ShiftStep

\* An error: the shift goes to its ROLLBACK, with the table as it was read,
\* and every other request that fails ends.
LEMMA ThrownStays ==
  ASSUME NEW q \in RequestRecords, Homed(q), NEW t, NEW cn, Whole(q, t, cn), NEW dn
  PROVE  Homed(Thrown(q)) /\ Whole(Thrown(q), t, dn)
<1>1. CASE q.at \in {"delete", "place", "write", "commit", "savecommit"}
  <2> DEFINE a == [q EXCEPT !.at = "rollback"]
  <2>1. /\ Thrown(q) = a /\ a.at = "rollback" /\ a.kind = q.kind /\ a.home = q.home
        /\ a.seen = q.seen /\ a.clean = q.clean
    BY <1>1 DEF Thrown, RequestRecords
  <2> HIDE DEF a
  <2>2. Homed(a)
    BY <1>1, <2>1 DEF Homed
  <2>3. a.kind # "spread" /\ a.clean => t = a.seen
    BY <1>1, <2>1 DEF Whole, Homed
  <2> QED
    BY <2>1, <2>2, <2>3 DEF Whole
<1>2. CASE q.at \notin {"delete", "place", "write", "commit", "savecommit"}
  <2>1. Thrown(q) = Idle
    BY <1>2 DEF Thrown
  <2> QED
    BY <2>1, HomedSimple DEF Idle, Whole
<1> QED
  BY <1>1, <1>2

\* A statement that is refused, that fails or that is chosen to end a circle.
LEMMA ThrownShift ==
  ASSUME Inv, Shift, NEW r \in Requests, Refused(r) \/ Fails(r) \/ Deadlock(r)
  PROVE  Shift'
<1> DEFINE q == req[r]
           c == q.conn
           t == Thrown(q)
<1>1. q \in RequestRecords /\ Path(q) /\ Homed(q) /\ Whole(q, table, conn) /\ PoolTyped
  BY DEF Shift, Inv, TypeOK
<1>2. c \in Conns
  BY <1>1 DEF RequestRecords, Refused, Fails, Deadlock
<1>3. table' = table /\ Answer(r, c, t) /\ (Spoil(c) \/ conn' = conn)
  BY DEF Refused, Fails, Deadlock, Spoil
<1>4. \A d \in Conns \ {c} : conn'[d] = conn[d]
  BY <1>1, <1>2, <1>3, PoolLocal
<1>5. t \in RequestRecords
  <2>1. CASE q.at = "idle"
    BY <2>1, IdleTyped DEF Thrown
  <2>2. CASE q.at # "idle"
    BY <1>1, <2>2, ThrownTyped
  <2> QED
    BY <2>1, <2>2
<1>6. Homed(t) /\ Whole(t, table', conn')
  BY <1>1, <1>3, ThrownStays
<1> HIDE DEF t
<1> QED
  BY <1>2, <1>3, <1>4, <1>5, <1>6, ShiftStep

\* A step that puts r into another state, or none, and touches neither the
\* table nor a connection.
LEMMA ShiftPut ==
  ASSUME Shift, table' = table, conn' = conn,
         \A s \in Requests : \/ Homed(req'[s]) /\ Whole(req'[s], table, conn)
                             \/ req'[s] = req[s]
  PROVE  Shift'
<1>1. \A s \in Requests : Homed(req'[s]) /\ Whole(req'[s], table', conn')
  BY DEF Shift
<1> QED
  BY <1>1 DEF Shift, Homed, Whole, Progress, Rest, Stale, Unassigned, Looks, Load, Least

\* What happens between the statements.
LEMMA BetweenShift ==
  ASSUME Inv, Shift, NEW r \in Requests,
         \/ \E kind \in Kinds, m \in Asked \cup {NoMember},
               k \in Askers \cup {NoOne} : Arrive(r, kind, m, k)
         \/ \E m \in Asked : Leave(r, m)
         \/ \E c \in Conns : Send(r, c)
         \/ NoConnection(r)
  PROVE  Shift'
<1> DEFINE q == req[r]
<1>0. /\ req \in [Requests -> RequestRecords] /\ q \in RequestRecords
      /\ Homed(q) /\ Whole(q, table, conn)
  BY DEF Shift, Inv, TypeOK
<1>1. table' = table /\ conn' = conn
  BY DEF Arrive, Leave, Send, NoConnection
<1>2. ASSUME NEW a, req' = [req EXCEPT ![r] = a], Homed(a), Whole(a, table, conn)
      PROVE  Shift'
  BY <1>0, <1>1, <1>2, ShiftPut
<1>3. ASSUME NEW kind, NEW m, NEW k, req' = [req EXCEPT ![r] =
               [Idle EXCEPT !.kind = kind, !.at = "schema", !.who = m, !.by = k]]
      PROVE  Shift'
  <2> DEFINE a == [Idle EXCEPT !.kind = kind, !.at = "schema", !.who = m, !.by = k]
  <2>1. a.at = "schema" /\ a.home = NoConn /\ a.clean = FALSE
    BY DEF Idle
  <2> HIDE DEF a
  <2>2. Homed(a) /\ Whole(a, table, conn)
    BY <2>1 DEF Homed, Whole
  <2> QED
    BY <1>2, <1>3, <2>2 DEF a
<1>4. ASSUME NEW m, req' = [req EXCEPT ![r] =
               [Idle EXCEPT !.kind = "leave", !.at = "schema", !.who = m]]
      PROVE  Shift'
  <2> DEFINE a == [Idle EXCEPT !.kind = "leave", !.at = "schema", !.who = m]
  <2>1. a.at = "schema" /\ a.home = NoConn /\ a.clean = FALSE
    BY DEF Idle
  <2> HIDE DEF a
  <2>2. Homed(a) /\ Whole(a, table, conn)
    BY <2>1 DEF Homed, Whole
  <2> QED
    BY <1>2, <1>4, <2>2 DEF a
<1>5. CASE \E c \in Conns : Send(r, c)
  <2>1. PICK c \in Conns : Send(r, c)
    BY <1>5
  <2> DEFINE a == [q EXCEPT !.conn = c]
  <2>2. req' = [req EXCEPT ![r] = a]
    BY <2>1 DEF Send
  <2>3. Alike(a, q) /\ a.clean = q.clean
    BY <1>0 DEF Alike, Same, RequestRecords
  <2> HIDE DEF a
  <2>4. Homed(a) /\ Whole(a, table, conn)
    BY <1>0, <2>3, WholeAlike
  <2> QED
    BY <1>2, <2>2, <2>4
<1>6. CASE NoConnection(r)
  <2>1. req' = [req EXCEPT ![r] = Thrown(q)]
    BY <1>6 DEF NoConnection
  <2>2. Homed(Thrown(q)) /\ Whole(Thrown(q), table, conn)
    BY <1>0, ThrownStays
  <2> QED
    BY <1>2, <2>1, <2>2
<1>7. CASE \E kind \in Kinds, m \in Asked \cup {NoMember},
              k \in Askers \cup {NoOne} : Arrive(r, kind, m, k)
  <2>1. PICK kind \in Kinds, m \in Asked \cup {NoMember}, k \in Askers \cup {NoOne} :
          Arrive(r, kind, m, k)
    BY <1>7
  <2>2. req' = [req EXCEPT ![r] =
                  [Idle EXCEPT !.kind = kind, !.at = "schema", !.who = m, !.by = k]]
    BY <2>1 DEF Arrive
  <2> QED
    BY <1>3, <2>2
<1>8. CASE \E m \in Asked : Leave(r, m)
  BY <1>4, <1>8 DEF Leave
<1> QED
  BY <1>5, <1>6, <1>7, <1>8

\* A connection is lost: the shift whose transaction was on it is disturbed.
LEMMA LoseShift == ASSUME Inv, Shift, NEW c \in Conns, Lose(c) PROVE Shift'
<1>0. req \in [Requests -> RequestRecords] /\ PoolTyped
  BY DEF Inv, TypeOK
<1>1. table' = table /\ \A d \in Conns \ {c} : conn'[d] = conn[d]
  BY <1>0 DEF Lose, PoolTyped
<1>2. ASSUME NEW s \in Requests PROVE Homed(req'[s]) /\ Whole(req'[s], table', conn')
  <2> DEFINE q == req[s]
             d == IF q.conn = c THEN NoConn ELSE q.conn
             b == q.clean /\ q.home # c
             a == [q EXCEPT !.conn = d, !.clean = b]
  <2>1. req'[s] = a
    BY DEF Lose
  <2>2. q \in RequestRecords /\ Homed(q) /\ Whole(q, table, conn)
    BY <1>0 DEF Shift
  <2>3. Alike(a, q) /\ a.clean = b
    <3> HIDE DEF d, b
    <3> QED
      BY <2>2 DEF Alike, Same, RequestRecords
  <2>4. a.clean => q.clean /\ q.home # c
    BY <2>3
  <2> HIDE DEF a
  <2>5. a.clean /\ q.home \in Conns => conn'[q.home] = conn[q.home]
    BY <1>1, <2>4
  <2>6. Homed(a) /\ Whole(a, table', conn')
    BY <1>1, <2>2, <2>3, <2>4, <2>5, WholeAlike
  <2> QED
    BY <2>1, <2>6
<1> QED
  BY <1>2 DEF Shift, Homed, Whole, Progress, Rest, Stale, Unassigned, Looks, Load, Least

\* No request is in a shift at the start.
LEMMA ShiftInit == Init => Shift /\ Emptied
<1> SUFFICES ASSUME Init PROVE Shift /\ Emptied
  OBVIOUS
<1>1. \A r \in Requests : req[r] = Idle
  BY DEF Init
<1>2. Idle.clean = FALSE
  BY DEF Idle
<1>3. Shift
  BY <1>1, <1>2, HomedSimple DEF Shift, Whole
<1> QED
  BY <1>3 DEF Init, Emptied, Quiet

\* Every step keeps Shift.
LEMMA ShiftNext == Inv /\ Emptied /\ Shift /\ [Next]_vars => Shift'
<1> SUFFICES ASSUME Inv, Emptied, Shift, [Next]_vars PROVE Shift'
  OBVIOUS
<1>1. ASSUME NEW r \in Requests, Statement(r) PROVE Shift'
  BY <1>1, OutsideShift, ReadClaimsShift, BeginShiftShift, DeleteStaleShift, PlaceShift
     DEF Statement
<1>2. ASSUME NEW r \in Requests, Refused(r) \/ Fails(r) \/ Deadlock(r) PROVE Shift'
  BY <1>2, ThrownShift
<1>3. ASSUME NEW r \in Requests,
             \/ \E kind \in Kinds, m \in Asked \cup {NoMember},
                   k \in Askers \cup {NoOne} : Arrive(r, kind, m, k)
             \/ \E m \in Asked : Leave(r, m)
             \/ \E c \in Conns : Send(r, c)
             \/ NoConnection(r)
      PROVE  Shift'
  BY <1>3, BetweenShift
<1>4. CASE \E c \in Conns : Lose(c)
  BY <1>4, LoseShift
<1>5. CASE (\E m \in Returning : Enter(m)) \/ UNCHANGED vars
  <2>1. table' = table /\ conn' = conn /\ req' = req
    BY <1>5 DEF Enter, vars
  <2> QED
    BY <2>1, ShiftPut
<1> QED
  BY <1>1, <1>2, <1>3, <1>4, <1>5 DEF Next

-----------------------------------------------------------------------------
\* The loop has come to its end: what it has made of the claims is a repair.
LEMMA ProgressRepairs ==
  ASSUME NEW q, q.at = "commit", q.todo = {}, q.roster \subseteq Members,
         NEW view, Progress(q, view)
  PROVE  Repairs(q.seen, view, q.roster)
<1>1. Rest(q) = {}
  BY DEF Rest
<1>2. \A m \in Members \ q.roster : view[m] = NoOne
  BY <1>1 DEF Progress
<1>3. CASE Unassigned(q) = {}
  <2>1. \A m \in q.roster : view[m] # NoOne
    BY <1>3 DEF Progress, Unassigned
  <2> QED
    BY <1>2, <2>1 DEF Repairs, Progress
<1>4. CASE \A k \in Coordinators : Load(view, k) = Load(q.seen, k)
  BY <1>2, <1>4 DEF Repairs, Progress
<1> QED
  BY <1>3, <1>4 DEF Progress

\* An answer moves nobody but the request it is for.
LEMMA AnswerOthersStay ==
  ASSUME Inv, NEW s \in Requests, NEW c, NEW q, Answer(s, c, q), NEW t \in Requests \ {s}
  PROVE  req'[t].at = req[t].at
<1>1. req[t] \in RequestRecords
  BY DEF Inv, TypeOK
<1>2. \/ req'[t] = [req[t] EXCEPT !.clean = @ /\ req[t].home # c]
      \/ req'[t] = [req[t] EXCEPT !.clean = FALSE]
  BY DEF Answer
<1> QED
  BY <1>1, <1>2 DEF RequestRecords

\* The steps of others leave a request where it is.
LEMMA OthersStay ==
  ASSUME Inv, NEW s \in Requests, NEW t \in Requests \ {s},
         Statement(s) \/ Refused(s) \/ Fails(s) \/ Deadlock(s)
  PROVE  req'[t].at = req[t].at
<1>1. \E c, q : Answer(s, c, q)
  BY DEF Statement, Schema, ReadQueue, ReadClaims, BeginShift, DeleteStale, Place,
         CommitShift, RollbackShift, SaveBegin, SaveCommit, CheckMember, Assign,
         Look, Insert, Release, WriteAssignment, Refused, Fails, Deadlock
<1> QED
  BY <1>1, AnswerOthersStay

\* What can end a request that is at the end of its transaction.
LEMMA LastSteps ==
  ASSUME Inv, [Next]_vars, NEW r \in Requests, req[r].at \in {"commit", "rollback"},
         req[r].conn \in Conns, req'[r].at = "idle"
  PROVE  \/ CommitShift(r) \/ RollbackShift(r)
         \/ Fails(r) \/ Deadlock(r)
<1>0. req \in [Requests -> RequestRecords] /\ req[r].conn # NoConn
  BY ClaimsAssumption DEF Inv, TypeOK
<1>1. ASSUME NEW s \in Requests, Statement(s) \/ Refused(s) \/ Fails(s) \/ Deadlock(s)
      PROVE  s = r
  BY <1>1, OthersStay
<1>2. Statement(r) => CommitShift(r) \/ RollbackShift(r)
  BY DEF Statement, Schema, ReadQueue, ReadClaims, BeginShift, DeleteStale, Place,
         SaveBegin, SaveCommit, CheckMember, Assign, Look, Insert, Release,
         WriteAssignment, Serves
<1>3. ~Refused(r)
  BY DEF Refused
<1>4. ASSUME NEW s \in Requests,
             \/ \E kind \in Kinds, m \in Asked \cup {NoMember},
                   k \in Askers \cup {NoOne} : Arrive(s, kind, m, k)
             \/ \E m \in Asked : Leave(s, m)
             \/ \E c \in Conns : Send(s, c)
             \/ NoConnection(s)
      PROVE  FALSE
  <2>1. s # r
    BY <1>0, <1>4 DEF Arrive, Leave, Send, NoConnection
  <2>2. \E a : req' = [req EXCEPT ![s] = a]
    BY <1>4 DEF Arrive, Leave, Send, NoConnection
  <2>3. req'[r] = req[r]
    BY <1>0, <2>1, <2>2
  <2> QED
    BY <2>3
<1>5. CASE (\E m \in Returning : Enter(m)) \/ UNCHANGED vars
  BY <1>5 DEF Enter, vars
<1>6. ASSUME NEW c \in Conns, Lose(c) PROVE FALSE
  <2> DEFINE d == IF req[r].conn = c THEN NoConn ELSE req[r].conn
             b == req[r].clean /\ req[r].home # c
  <2>1. req'[r] = [req[r] EXCEPT !.conn = d, !.clean = b]
    BY <1>6 DEF Lose
  <2> HIDE DEF d, b
  <2>2. req'[r].at = req[r].at
    BY <1>0, <2>1 DEF RequestRecords
  <2> QED
    BY <2>2
<1> QED
  BY <1>1, <1>2, <1>3, <1>4, <1>5, <1>6 DEF Next

\* A shift that has been left alone ends as a whole.
LEMMA ShiftEnds ==
  ASSUME Inv, Shift, [Next]_vars, NEW r \in Requests, req[r].kind # "spread",
         req[r].clean, req[r].conn = req[r].home, req[r].at \in {"commit", "rollback"},
         req'[r].at = "idle"
  PROVE  IF req[r].at = "commit" THEN Repairs(req[r].seen, table', req[r].roster)
                                 ELSE table' = req[r].seen
<1> DEFINE q == req[r]
           c == q.conn
<1>1. /\ q \in RequestRecords /\ c \in Conns /\ PoolTyped /\ q.roster \subseteq Members
      /\ table = q.seen
  BY DEF Inv, TypeOK, Shift, Homed, Whole, RequestRecords
<1>2. \/ CommitShift(r) \/ RollbackShift(r) \/ Fails(r) \/ Deadlock(r)
  BY <1>1, LastSteps
<1>3. CASE q.at = "commit"
  <2>1. conn[c].tx = "open" /\ q.todo = {} /\ Progress(q, Looks(table, conn[c].rows))
    BY <1>3 DEF Shift, Whole
  <2>2. ~(Fails(r) \/ Deadlock(r))
    <3>1. SUFFICES ASSUME Fails(r) \/ Deadlock(r) PROVE FALSE
      OBVIOUS
    <3> DEFINE t == [q EXCEPT !.at = "rollback"]
    <3>2. Answer(r, c, t)
      BY <1>3, <3>1 DEF Fails, Deadlock, Thrown
    <3>3. t \in RequestRecords /\ t.at = "rollback"
      BY <1>1 DEF RequestRecords, Stages
    <3> HIDE DEF t
    <3>4. Alike(req'[r], t)
      BY <3>2, <3>3, AnsweredShift
    <3> QED
      BY <3>3, <3>4 DEF Alike, Same
  <2>3. CommitShift(r)
    BY <1>2, <1>3, <2>2 DEF RollbackShift
  <2>4. table' = On(conn[c].rows, table)
    BY <2>1, <2>3 DEF CommitShift, Commit
  <2>5. conn[c].rows \in Changes /\ table \in Contents
    BY <1>1 DEF PoolTyped, Connections
  <2>6. On(conn[c].rows, table) = Looks(table, conn[c].rows)
    BY <2>5 DEF On, Looks, Changes, Contents
  <2>7. Repairs(q.seen, Looks(table, conn[c].rows), q.roster)
    BY <1>1, <1>3, <2>1, ProgressRepairs
  <2> QED
    BY <1>3, <2>4, <2>6, <2>7
<1>4. CASE q.at = "rollback"
  <2>1. table' = table
    BY <1>2, <1>4 DEF CommitShift, RollbackShift, Rollback, Fails, Deadlock, Spoil
  <2> QED
    BY <1>1, <1>4, <2>1
<1> QED
  BY <1>3, <1>4

\* A shift that had its transaction and the table for itself is a whole, for
\* any number of stale claims and wherever it fails: COMMIT has moved every
\* one of them and has cost no coordinator a member as long as there was one
\* to give, ROLLBACK has changed nothing
\* (reconcileCollectionClaimsForWeekScope).
THEOREM ShiftsAreWhole == Spec => ShiftIsWhole
<1>1. Inv /\ Shift /\ [Next]_vars
        => [\A r \in Requests :
              LET q == req[r]
              IN  q.kind # "spread" /\ q.clean /\ q.conn = q.home
                    /\ q.at \in {"commit", "rollback"} /\ req'[r].at = "idle"
                  => IF q.at = "commit" THEN Repairs(q.seen, table', q.roster)
                                        ELSE table' = q.seen]_vars
  BY ShiftEnds
<1> QED
  BY <1>1, InvInit, InvNext, ShiftInit, EmptiedNext, ShiftNext, PTL DEF Spec, ShiftIsWhole

\* ShiftTakesOnlyFree, which does not hold, for the shifts left alone.
AloneTakesOnlyFree ==
  [][\A r \in Requests :
       LET q == req[r]
       IN  q.kind # "spread" /\ q.clean /\ q.conn = q.home
             /\ q.at = "place" /\ req'[r].at \in {"delete", "commit"}
           => View(q.conn)[Least(Unassigned(q))] = NoOne]_vars

\* Only a shift that has been disturbed takes a member from a coordinator who
\* has him: its own earlier statements never make one of it
\* (reconcileCollectionClaimsForWeekScope).
THEOREM AloneShiftsTakeOnlyFree == Spec => AloneTakesOnlyFree
<1>1. ASSUME Inv, Shift, NEW r \in Requests, req[r].kind # "spread", req[r].clean,
             req[r].conn = req[r].home, req[r].at = "place"
      PROVE  View(req[r].conn)[Least(Unassigned(req[r]))] = NoOne
  <2> DEFINE q == req[r]
             n == Least(Unassigned(q))
             view == Looks(table, conn[q.conn].rows)
  <2>1. q \in RequestRecords /\ Path(q) /\ Whole(q, table, conn)
    BY <1>1 DEF Inv, TypeOK, Shift
  <2>2. Progress(q, view)
    BY <1>1, <2>1 DEF Whole
  <2>3. n \in Unassigned(q)
    <3>1. Unassigned(q) \in SUBSET Members /\ Unassigned(q) # {}
      BY <1>1, <2>1 DEF Path, Unassigned, RequestRecords
    <3> QED
      BY <3>1, LeastIsIn
  <2>4. n \in Keys /\ n \in q.roster /\ n \notin q.taken
    BY <2>1, <2>3, ClaimsAssumption DEF Unassigned, RequestRecords
  <2>5. view[n] = NoOne
    BY <2>2, <2>4 DEF Progress
  <2> QED
    BY <2>4, <2>5 DEF View, Looks
<1>2. Inv /\ Shift /\ [Next]_vars
        => [\A r \in Requests :
              LET q == req[r]
              IN  q.kind # "spread" /\ q.clean /\ q.conn = q.home
                    /\ q.at = "place" /\ req'[r].at \in {"delete", "commit"}
                  => View(q.conn)[Least(Unassigned(q))] = NoOne]_vars
  BY <1>1
<1> QED
  BY <1>2, InvInit, InvNext, ShiftInit, EmptiedNext, ShiftNext, PTL DEF Spec, AloneTakesOnlyFree

=============================================================================
