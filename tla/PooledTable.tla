---------------------------- MODULE PooledTable ----------------------------
(***************************************************************************)
(* One PostgreSQL table behind the connection pool of src/config/db.ts.    *)
(* query() takes any free connection for one statement and gives it back:  *)
(* BEGIN opens a transaction on the connection it happened to get, and     *)
(* what is sent to that connection next, by whomever, is part of it.       *)
(*                                                                         *)
(* PostgreSQL itself is external: READ COMMITTED, a row lock for every     *)
(* written row and a lock on the table until the end of the transaction.   *)
(***************************************************************************)
EXTENDS Naturals

CONSTANTS
  Keys,      \* the rows the table may have
  Values,    \* what a row may say
  NoRow,     \* the row is not there
  Conns      \* the connections of the pool (DB_POOL_MAX)

VARIABLES
  table,     \* what has been committed
  conn       \* conn[c]: the transaction connection c is in

Contents == [Keys -> Values \cup {NoRow}]
Changes == UNION {[K -> Values \cup {NoRow}] : K \in SUBSET Keys}

\* What one statement writes, and changes f on top of g.
Nothing == [k \in {} |-> NoRow]
Row(k, v) == [x \in {k} |-> v]
On(f, g) == [k \in DOMAIN f \cup DOMAIN g |-> IF k \in DOMAIN f THEN f[k] ELSE g[k]]

\* "uses": some statement of the transaction read or wrote the table.
\* "owns": one of them was DDL, which lets nobody else near the table.
Connections == [tx : {"none", "open", "failed"},
                rows : Changes,
                lock : {"none", "uses", "owns"}]

Quiet == [tx |-> "none", rows |-> Nothing, lock |-> "none"]

PoolTyped == table \in Contents /\ conn \in [Conns -> Connections]

-----------------------------------------------------------------------------
\* What a statement on c sees: the committed rows and c's own changes.
View(c) == [k \in Keys |-> IF k \in DOMAIN conn[c].rows
                             THEN conn[c].rows[k]
                             ELSE table[k]]

\* A statement on c that wants a lock on the table and locks on rows waits
\* for d.
WaitsFor(c, d, wanted) ==
  /\ d # c
  /\ \/ wanted.lock # "none" /\ conn[d].lock = "owns"
     \/ wanted.lock = "owns" /\ conn[d].lock = "uses"
     \/ wanted.rows \cap DOMAIN conn[d].rows # {}

Waits(c, wanted) == \E d \in Conns : WaitsFor(c, d, wanted)

\* The transaction of c after a statement that took a lock and made changes;
\* outside a transaction every statement is one of its own.
Stronger(a, b) == IF "owns" \in {a, b} THEN "owns"
                  ELSE IF "uses" \in {a, b} THEN "uses" ELSE "none"

Apply(c, lock, changes) ==
  IF conn[c].tx = "open"
    THEN /\ conn' = [conn EXCEPT ![c].rows = On(changes, @),
                                 ![c].lock = Stronger(@, lock)]
         /\ UNCHANGED table
    ELSE table' = On(changes, table) /\ UNCHANGED conn

\* BEGIN inside a transaction is only a warning.
Begin(c) ==
  /\ conn' = [conn EXCEPT ![c].tx = IF @ = "none" THEN "open" ELSE @]
  /\ UNCHANGED table

\* COMMIT ends the transaction of its connection, whosever it is; that of a
\* failed transaction rolls back and reports no error.
Commit(c) ==
  /\ table' = IF conn[c].tx = "open" THEN On(conn[c].rows, table) ELSE table
  /\ conn' = [conn EXCEPT ![c] = Quiet]

Rollback(c) == conn' = [conn EXCEPT ![c] = Quiet] /\ UNCHANGED table

\* A statement that fails spoils the transaction it is in: its changes and
\* locks are gone, and every further statement fails until it is ended.
Spoil(c) ==
  /\ conn' = [conn EXCEPT ![c] = IF @.tx = "none" THEN @
                                   ELSE [Quiet EXCEPT !.tx = "failed"]]
  /\ UNCHANGED table
=============================================================================
