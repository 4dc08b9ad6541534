--------------------------- MODULE RefreshRotation ---------------------------
(***************************************************************************)
(* The refresh tokens of one account: src/services/authService.ts          *)
(* (rotateAccessByRefreshToken, issueRefreshSessionForUser,                *)
(* invalidateMemberSessions, revokeRefreshToken), the Redis keys of        *)
(* authSessionRedis.ts and the cookies of the account's devices.           *)
(*                                                                         *)
(* A request is a process of an API instance; between two of its awaits    *)
(* anything else may happen.  Every statement commits on its own: there is *)
(* no transaction here.                                                    *)
(***************************************************************************)
EXTENDS Naturals, FiniteSets

CONSTANTS
  Devices,        \* browsers; the tabs of one share its cookie
  Requests,       \* HTTP requests under way at a time
  Instances,      \* API processes
  Deployments,    \* which instances run, and whether REDIS_URL is set
  MaxTokens,      \* bound: how many refresh tokens are ever issued
  MaxSlots,       \* AUTH_MAX_REFRESH_SESSIONS_PER_USER
  MaxFaults,      \* bound: failed statements and crashes
  NoToken, NoReq, NoDevice

Tokens == 1..MaxTokens

ASSUME RefreshAssumption ==
  /\ MaxTokens \in Nat \ {0} /\ MaxSlots \in Nat \ {0} /\ MaxFaults \in Nat
  /\ Deployments \subseteq [redis : BOOLEAN, at : SUBSET Instances]
  /\ NoToken \notin Tokens /\ NoReq \notin Requests /\ NoDevice \notin Devices

VARIABLES
  deployed,     \* the deployment at hand
  row,          \* auth_refresh_sessions, by token; created_at is the number
  issued,       \* the number of the newest token
  cookie,       \* cookie[d]: the refresh cookie of device d
  lock,         \* ist:auth:rf_lock:<token>: set, by whomever
  sharedGrace,  \* ist:auth:rf_grace:<token>: what the token was exchanged for
  localGrace,   \* refreshRotationGraceByHash of each instance
  toShare,      \* grace copies on their way to Redis (void remember...)
  pending,      \* pendingRefreshByHash of each instance: who computes
  req,          \* what each request is doing
  faults,       \* how many failures there have been
  made,         \* history: the tokens each token was exchanged for
  ended,        \* history: tokens ended while they were live
  closed,       \* history: those of ended no exchange was under way for
  lapsed,       \* history: tokens a copy of whose successor is no longer kept
  broken        \* history: tokens whose exchange failed half-way

db == <<row, issued>>
redis == <<lock, sharedGrace>>
memory == <<localGrace, pending>>
history == <<made, ended, closed, lapsed, broken>>
vars == <<deployed, row, issued, cookie, lock, sharedGrace, localGrace,
          toShare, pending, req, faults, made, ended, closed, lapsed, broken>>

Stages == {"idle", "shared", "local", "lock", "wait", "poll", "select",
           "reshared", "relocal", "revoke", "clear", "insert", "prune",
           "remember", "signout", "invalidate", "done"}
Kinds == {"none", "refresh", "login", "logout", "password"}

\* tok: the cookie sent; got: the token answered (NoToken: 401, or nothing to
\* answer); new: the token inserted; hold: has set the lock, and is to delete it
\* (due); error: 500.
Request == [pc : Stages, do : Kinds, dev : Devices \cup {NoDevice},
            at : Instances \cup {NoReq},
            tok : Tokens \cup {NoToken}, new : Tokens \cup {NoToken},
            got : Tokens \cup {NoToken},
            hold : {"no", "held", "due"}, error : BOOLEAN]

Fresh(stage, kind, d, s, t) ==
  [pc |-> stage, do |-> kind, dev |-> d, at |-> s, tok |-> t, new |-> NoToken,
   got |-> NoToken, hold |-> "no", error |-> FALSE]

Idle == Fresh("idle", "none", NoDevice, NoReq, NoToken)

TypeOK ==
  /\ deployed \in Deployments
  /\ row \in [Tokens -> {"none", "live", "revoked"}]
  /\ issued \in Tokens
  /\ cookie \in [Devices -> Tokens \cup {NoToken}]
  /\ lock \in [Tokens -> BOOLEAN]
  /\ sharedGrace \in [Tokens -> Tokens \cup {NoToken}]
  /\ localGrace \in [Instances -> [Tokens -> Tokens \cup {NoToken}]]
  /\ toShare \subseteq (Instances \X Tokens \X Tokens)
  /\ pending \in [Instances -> [Tokens -> Requests \cup {NoReq}]]
  /\ req \in [Requests -> Request]
  /\ faults \in 0..MaxFaults
  /\ made \in [Tokens -> SUBSET Tokens]
  /\ ended \subseteq Tokens /\ closed \subseteq Tokens
  /\ lapsed \subseteq Tokens /\ broken \subseteq Tokens

\* One device is signed in.
Init ==
  /\ deployed \in Deployments
  /\ row = [t \in Tokens |-> IF t = 1 THEN "live" ELSE "none"]
  /\ issued = 1
  /\ cookie \in {c \in [Devices -> {1, NoToken}] :
                   \E d \in Devices : c = [e \in Devices |-> IF e = d THEN 1 ELSE NoToken]}
  /\ lock = [t \in Tokens |-> FALSE]
  /\ sharedGrace = [t \in Tokens |-> NoToken]
  /\ localGrace = [s \in Instances |-> [t \in Tokens |-> NoToken]]
  /\ toShare = {}
  /\ pending = [s \in Instances |-> [t \in Tokens |-> NoReq]]
  /\ req = [r \in Requests |-> Idle]
  /\ faults = 0
  /\ made = [t \in Tokens |-> {}]
  /\ ended = {} /\ closed = {} /\ lapsed = {} /\ broken = {}

Live == {t \in Tokens : row[t] = "live"}

\* Requests that have found t live and have not yet issued its successor.
Exchanging(t) ==
  {r \in Requests : /\ req[r].do = "refresh" /\ req[r].tok = t
                    /\ req[r].pc \in {"revoke", "clear", "insert"}}

\* History of the live tokens of S ending.
End(S) ==
  /\ ended' = ended \cup S
  /\ closed' = closed \cup {t \in S : Exchanging(t) = {}}
  /\ UNCHANGED <<made, lapsed, broken>>

-----------------------------------------------------------------------------
(* What happens to requests *)

\* finally: whoever holds the lock is to delete it.
Due(h) == IF h = "held" THEN "due" ELSE h

Hold(r, stage, h) == req' = [req EXCEPT ![r].pc = stage, ![r].hold = h]

Goto(r, stage) == Hold(r, stage, req[r].hold)

AnswerAll(R, t, failed) ==
  req' = [q \in Requests |->
            IF q \in R
            THEN [req[q] EXCEPT !.pc = "done", !.got = t, !.error = failed,
                                !.hold = Due(req[q].hold)]
            ELSE req[q]]

Answer(r, t) == AnswerAll({r}, t, FALSE)

Drop(R) == req' = [q \in Requests |-> IF q \in R THEN Idle ELSE req[q]]

-----------------------------------------------------------------------------
(* Clients *)

Issuing == {r \in Requests : req[r].do \in {"refresh", "login"}}
Room == issued + Cardinality(Issuing) < MaxTokens

Begin(r, kind, stage, d, s, t) ==
  /\ req[r].pc = "idle"
  /\ req' = [req EXCEPT ![r] = Fresh(stage, kind, d, s, t)]
  /\ UNCHANGED <<deployed, db, cookie, redis, memory, toShare, faults, history>>

\* POST /refresh, by any tab of the device and any number of them.
SendRefresh(r, d, s) ==
  /\ Room /\ cookie[d] # NoToken
  /\ Begin(r, "refresh", "shared", d, s, cookie[d])

\* loginHandler, after the password was found right.
SendLogin(r, d, s) == Room /\ Begin(r, "login", "clear", d, s, NoToken)

SendLogout(r, d, s) ==
  cookie[d] # NoToken /\ Begin(r, "logout", "signout", d, s, cookie[d])

\* A changed or reset password; its response leaves the cookies alone.
SendPassword(r, s) == Begin(r, "password", "invalidate", NoDevice, s, NoToken)

\* 200 sets the cookie, 401 and sign-out clear it, 500 leaves it; a response
\* may get lost (axios' timeout, a closed tab) or come late.
Deliver(r) ==
  /\ req[r].pc = "done" /\ req[r].hold = "no"
  /\ Drop({r})
  /\ \/ UNCHANGED cookie
     \/ /\ ~req[r].error /\ req[r].do # "password"
        /\ cookie' = [cookie EXCEPT ![req[r].dev] = req[r].got]
  /\ UNCHANGED <<deployed, db, redis, memory, toShare, faults, history>>

-----------------------------------------------------------------------------
(* rotateAccessByRefreshToken, up to the rotation itself *)

\* takeRefreshRotationGraceFromRedis; a Redis that is not configured or does
\* not answer has nothing.
ReadShared(r, here, onward) ==
  /\ req[r].pc = here
  /\ \/ /\ deployed.redis /\ sharedGrace[req[r].tok] # NoToken
        /\ Answer(r, sharedGrace[req[r].tok])
     \/ Goto(r, onward)
  /\ UNCHANGED <<deployed, db, cookie, redis, memory, toShare, faults, history>>

Grace(r) == localGrace[req[r].at][req[r].tok]

ReadLocal(r) ==
  /\ req[r].pc = "local"
  /\ IF Grace(r) # NoToken THEN Answer(r, Grace(r)) ELSE Goto(r, "lock")
  /\ UNCHANGED <<deployed, db, cookie, redis, memory, toShare, faults, history>>

\* SET NX EX, with Redis there to answer.
TryLock(r) ==
  /\ req[r].pc = "lock" /\ deployed.redis
  /\ IF lock[req[r].tok]
     THEN Goto(r, "poll") /\ UNCHANGED lock
     ELSE /\ Hold(r, "select", "held")
          /\ lock' = [lock EXCEPT ![req[r].tok] = TRUE]
  /\ UNCHANGED <<deployed, db, cookie, sharedGrace, memory, toShare, faults, history>>

\* Mutant: the computation under way is not looked up.
CoalesceBlind(r) ==
  /\ req[r].pc = "lock"
  /\ Goto(r, "select")
  /\ pending' = [pending EXCEPT ![req[r].at][req[r].tok] = r]
  /\ UNCHANGED <<deployed, db, cookie, redis, localGrace, toShare, faults, history>>

\* Mutant: the map is given the token instead of the computation.
CoalesceToken(r) ==
  /\ req[r].pc = "lock"
  /\ Goto(r, "select")
  /\ pending' = [pending EXCEPT ![req[r].at][req[r].tok] = req[r].tok]
  /\ UNCHANGED <<deployed, db, cookie, redis, localGrace, toShare, faults, history>>

\* Without Redis the requests of one instance share a computation.
Coalesce(r) ==
  /\ req[r].pc = "lock"
  /\ LET s == req[r].at
         t == req[r].tok
     IN IF pending[s][t] # NoReq
        THEN Goto(r, "wait") /\ UNCHANGED pending
        ELSE Goto(r, "select") /\ pending' = [pending EXCEPT ![s][t] = r]
  /\ UNCHANGED <<deployed, db, cookie, redis, localGrace, toShare, faults, history>>

\* Two hundred looks, fifty milliseconds apart, for what the holder remembers.
Poll(r) ==
  /\ req[r].pc = "poll"
  /\ \/ Grace(r) # NoToken /\ Answer(r, Grace(r))
     \/ /\ sharedGrace[req[r].tok] # NoToken
        /\ Answer(r, sharedGrace[req[r].tok])
     \/ Grace(r) = NoToken /\ Answer(r, NoToken)
  /\ UNCHANGED <<deployed, db, cookie, redis, memory, toShare, faults, history>>

\* releaseRefreshRotationLock deletes the key, whoever has set it by then; a
\* Redis that does not answer keeps it until it expires.
Release(r) ==
  /\ req[r].hold = "due"
  /\ Hold(r, req[r].pc, "no")
  /\ \/ lock' = [lock EXCEPT ![req[r].tok] = FALSE]
     \/ UNCHANGED lock
  /\ UNCHANGED <<deployed, db, cookie, sharedGrace, memory, toShare, faults, history>>

LockExpires(t) ==
  /\ lock[t]
  /\ lock' = [lock EXCEPT ![t] = FALSE]
  /\ UNCHANGED <<deployed, db, cookie, sharedGrace, memory, toShare, req, faults, history>>

-----------------------------------------------------------------------------
(* The rotation *)

\* Mutant: those that wait are forgotten.
SettleAlone(r, t, failed) ==
  /\ AnswerAll({r}, t, failed)
  /\ pending' = [s \in Instances |-> [u \in Tokens |->
                   IF pending[s][u] = r THEN NoReq ELSE pending[s][u]]]

\* The end of r's computation, and of those that wait for it.
Settle(r, t, failed) ==
  LET waiting == {q \in Requests : /\ req[q].pc = "wait"
                                   /\ pending[req[q].at][req[q].tok] = r}
  IN /\ AnswerAll(waiting \cup {r}, t, failed)
     /\ pending' = [s \in Instances |-> [u \in Tokens |->
                      IF pending[s][u] = r THEN NoReq ELSE pending[s][u]]]

\* Mutant: the query does not ask for revoked_at IS NULL.
SelectRevoked(r) ==
  /\ req[r].pc = "select"
  /\ IF row[req[r].tok] # "none"
     THEN Hold(r, "revoke", Due(req[r].hold))
     ELSE Goto(r, IF req[r].hold = "held" THEN "reshared" ELSE "relocal")
  /\ UNCHANGED <<deployed, db, cookie, redis, memory, toShare, faults, history>>

\* A token found sets off the rotation, and finally deletes the lock: return
\* does not await.
Select(r) ==
  /\ req[r].pc = "select"
  /\ IF row[req[r].tok] = "live"
     THEN Hold(r, "revoke", Due(req[r].hold))
     ELSE Goto(r, IF req[r].hold = "held" THEN "reshared" ELSE "relocal")
  /\ UNCHANGED <<deployed, db, cookie, redis, memory, toShare, faults, history>>

\* Mutant: no second look at the copies.
RelocalBlind(r) ==
  /\ req[r].pc = "relocal"
  /\ Settle(r, NoToken, FALSE)
  /\ UNCHANGED <<deployed, db, cookie, redis, localGrace, toShare, faults, history>>

\* Revoked already: whoever did it may have left a copy.
Relocal(r) ==
  /\ req[r].pc = "relocal"
  /\ Settle(r, Grace(r), FALSE)
  /\ UNCHANGED <<deployed, db, cookie, redis, localGrace, toShare, faults, history>>

\* Mutant: the old token stays valid.
RevokeNot(r) ==
  /\ req[r].pc = "revoke"
  /\ Goto(r, "clear")
  /\ UNCHANGED <<deployed, db, cookie, redis, memory, toShare, faults, history>>

Revoke(r) ==
  /\ req[r].pc = "revoke"
  /\ row' = [row EXCEPT ![req[r].tok] = IF @ = "live" THEN "revoked" ELSE @]
  /\ Goto(r, "clear")
  /\ UNCHANGED <<deployed, issued, cookie, redis, memory, toShare, faults, history>>

\* issueRefreshSessionForUser: delete, insert, prune.
Clear(r) ==
  /\ req[r].pc = "clear"
  /\ row' = [t \in Tokens |-> IF row[t] = "revoked" THEN "none" ELSE row[t]]
  /\ Goto(r, "insert")
  /\ UNCHANGED <<deployed, issued, cookie, redis, memory, toShare, faults, history>>

Issue(r) == req' = [req EXCEPT ![r].pc = "prune", ![r].new = issued + 1]

Insert(r) ==
  /\ req[r].pc = "insert" /\ issued < MaxTokens
  /\ issued' = issued + 1
  /\ row' = [row EXCEPT ![issued + 1] = "live"]
  /\ Issue(r)
  /\ made' = IF req[r].do = "refresh"
             THEN [made EXCEPT ![req[r].tok] = @ \cup {issued + 1}]
             ELSE made
  /\ UNCHANGED <<deployed, cookie, redis, memory, toShare, faults, ended, closed, lapsed, broken>>

Newer(t) == {u \in Live : u > t}

Prune(r) ==
  LET over == {t \in Live : Cardinality(Newer(t)) >= MaxSlots}
  IN /\ req[r].pc = "prune"
     /\ row' = [t \in Tokens |-> IF t \in over THEN "none" ELSE row[t]]
     /\ End(over)
     /\ Goto(r, "remember")
     /\ UNCHANGED <<deployed, issued, cookie, redis, memory, toShare, faults>>

\* rememberRefreshRotationGrace, and the computation is over; a sign-in just
\* answers.
Remember(r) ==
  LET s == req[r].at
      t == req[r].tok
      n == req[r].new
  IN /\ req[r].pc = "remember"
     /\ IF req[r].do = "refresh"
        THEN /\ localGrace' = [localGrace EXCEPT ![s][t] = n]
             /\ toShare' = IF deployed.redis THEN toShare \cup {<<s, t, n>>} ELSE toShare
        ELSE UNCHANGED <<localGrace, toShare>>
     /\ Settle(r, n, FALSE)
     /\ UNCHANGED <<deployed, db, cookie, redis, faults, history>>

\* SETEX, for which nobody waits; it may fail.
Share(w) ==
  /\ w \in toShare
  /\ toShare' = toShare \ {w}
  /\ \/ sharedGrace' = [sharedGrace EXCEPT ![w[2]] = w[3]]
     \/ UNCHANGED sharedGrace
  /\ UNCHANGED <<deployed, db, cookie, lock, memory, req, faults, history>>

\* Sixty seconds, sixty-five in Redis, or the map is full.
GraceEnds(t) ==
  /\ \/ /\ sharedGrace[t] # NoToken
        /\ sharedGrace' = [sharedGrace EXCEPT ![t] = NoToken]
        /\ UNCHANGED localGrace
     \/ \E s \in Instances :
          /\ localGrace[s][t] # NoToken
          /\ localGrace' = [localGrace EXCEPT ![s][t] = NoToken]
          /\ UNCHANGED sharedGrace
  /\ lapsed' = lapsed \cup {t}
  /\ UNCHANGED <<deployed, db, cookie, lock, pending, toShare, req, faults,
                 made, ended, closed, broken>>

-----------------------------------------------------------------------------
(* Ends *)

\* revokeRefreshToken
SignOut(r) ==
  /\ req[r].pc = "signout"
  /\ row' = [row EXCEPT ![req[r].tok] = IF @ = "live" THEN "revoked" ELSE @]
  /\ End(Live \cap {req[r].tok})
  /\ Answer(r, NoToken)
  /\ UNCHANGED <<deployed, issued, cookie, redis, memory, toShare, faults>>

\* invalidateMemberSessions
Invalidate(r) ==
  /\ req[r].pc = "invalidate"
  /\ row' = [t \in Tokens |-> IF row[t] = "live" THEN "revoked" ELSE row[t]]
  /\ End(Live)
  /\ Answer(r, NoToken)
  /\ UNCHANGED <<deployed, issued, cookie, redis, memory, toShare, faults>>

\* expires_at passes, or cleanupExpiredSessions finds it idle for a month.
Expire(t) ==
  /\ t \in Live
  /\ row' = [row EXCEPT ![t] = "none"]
  /\ End({t})
  /\ UNCHANGED <<deployed, issued, cookie, redis, memory, toShare, req, faults>>

\* The tokens of the requests of R that are gone and have no copy of a successor.
Stranded(R) == {req[r].tok : r \in {q \in R : /\ req[q].do = "refresh"
    /\ req[q].pc \in {"clear", "insert", "prune", "remember"}}}

\* A statement fails: 500, also for those that wait.
Fail(r) ==
  /\ req[r].pc \in {"select", "revoke", "clear", "insert", "prune", "signout", "invalidate"}
  /\ faults < MaxFaults /\ faults' = faults + 1
  /\ Settle(r, NoToken, TRUE)
  /\ broken' = broken \cup Stranded({r})
  /\ UNCHANGED <<deployed, db, cookie, redis, localGrace, toShare,
                 made, ended, closed, lapsed>>

\* The process dies; its clients see a network error.
Crash(s) ==
  LET lost == {r \in Requests : req[r].at = s}
  IN /\ s \in deployed.at
     /\ faults < MaxFaults /\ faults' = faults + 1
     /\ Drop(lost)
     /\ broken' = broken \cup Stranded(lost)
     /\ lapsed' = lapsed \cup {t \in Tokens : localGrace[s][t] # NoToken}
     /\ localGrace' = [localGrace EXCEPT ![s] = [t \in Tokens |-> NoToken]]
     /\ pending' = [pending EXCEPT ![s] = [t \in Tokens |-> NoReq]]
     /\ toShare' = {w \in toShare : w[1] # s}
     /\ UNCHANGED <<deployed, db, cookie, redis, made, ended, closed>>

-----------------------------------------------------------------------------
Work(r) ==
  \/ ReadShared(r, "shared", "local") \/ ReadLocal(r)
  \/ TryLock(r) \/ Coalesce(r) \/ Poll(r) \/ Release(r)
  \/ Select(r) \/ ReadShared(r, "reshared", "relocal") \/ Relocal(r)
  \/ Revoke(r) \/ Clear(r) \/ Insert(r) \/ Prune(r) \/ Remember(r)
  \/ SignOut(r) \/ Invalidate(r)

Client(r) ==
  \E s \in deployed.at :
    \/ \E d \in Devices : \/ SendRefresh(r, d, s) \/ SendLogin(r, d, s)
                          \/ SendLogout(r, d, s)
    \/ SendPassword(r, s)

Time == \E t \in Tokens : LockExpires(t) \/ GraceEnds(t) \/ Expire(t)

Next ==
  \/ \E r \in Requests : Work(r) \/ Deliver(r) \/ Client(r) \/ Fail(r)
  \/ \E w \in toShare : Share(w)
  \/ \E s \in Instances : Crash(s)
  \/ Time

Spec == Init /\ [][Next]_vars

-----------------------------------------------------------------------------
(* Properties *)

\* One process that coalesces in its own memory.
Alone == ~deployed.redis /\ \E s \in Instances : deployed.at = {s}

\* Parallel refreshes of one cookie are one computation: no token is ever
\* exchanged twice, and two answers to one cookie agree.
OneComputation == \A t \in Tokens : Cardinality(made[t]) <= 1

OneComputationAlone == Alone => OneComputation

\* Nobody is signed out by a refresh unless the session was ended, the copy of
\* the answer ran out or was lost, or the exchange failed half-way.
Refused(r) == /\ req[r].do = "refresh" /\ req[r].pc = "done"
              /\ ~req[r].error /\ req[r].got = NoToken

RefusalIsDue == Alone => \A r \in Requests :
                           Refused(r) => req[r].tok \in ended \cup lapsed \cup broken

\* A session ended while nobody was exchanging its token goes on nowhere: no
\* request that comes later, however it gets past the lock and the copies,
\* turns the token into a new one.
EndedForGood == \A t \in closed : made[t] = {} /\ row[t] # "live"

\* Whoever waits for another request's computation waits for one that is under
\* way, in the same process and for the same cookie: it will settle.
Computing == {"select", "relocal", "revoke", "clear", "insert", "prune", "remember"}

WaitersAreServed ==
  \A q \in Requests : req[q].pc = "wait" =>
    \E r \in Requests : /\ pending[req[q].at][req[q].tok] = r
                        /\ req[r].pc \in Computing
                        /\ req[r].at = req[q].at /\ req[r].tok = req[q].tok

\* An API process alone implements SessionChain: each token is alive until it
\* is exchanged once or ended.  A token whose exchange is under way counts as
\* alive.
Chain == INSTANCE SessionChain WITH
  alive <- Live \cup {t \in Tokens : Exchanging(t) # {}},
  next <- [t \in Tokens |-> IF made[t] = {} THEN NoToken
                            ELSE CHOOSE n \in made[t] : TRUE]

OneChain == [][Alone => Chain!Next]_(Chain!vars)
=============================================================================
