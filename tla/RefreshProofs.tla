---------------------------- MODULE RefreshProofs ----------------------------
(***************************************************************************)
(* Proofs about RefreshRotation, for any number of devices, requests,      *)
(* instances, tokens and failures.                                         *)
(***************************************************************************)
EXTENDS RefreshRotation, FiniteSetTheorems, TLAPS

Known == 1..issued
KnownOrNone == Known \cup {NoToken}

\* Whatever is kept, sent or answered has been issued.
CopiesBounded ==
  /\ \A d \in Devices : cookie[d] \in KnownOrNone
  /\ \A t \in Tokens : sharedGrace[t] \in KnownOrNone
  /\ \A s \in Instances, t \in Tokens : localGrace[s][t] \in KnownOrNone
  /\ \A w \in toShare : w[3] \in Known

BoundedRequest(r) ==
  req[r].tok \in KnownOrNone /\ req[r].new \in KnownOrNone /\ req[r].got \in KnownOrNone

Bounded == CopiesBounded /\ \A r \in Requests : BoundedRequest(r)

\* What a request carries at which stage.
Busy == {"shared", "local", "lock", "wait", "poll", "select", "reshared",
         "relocal", "revoke"}
Shape ==
  \A r \in Requests :
    /\ req[r].pc \in Busy => req[r].do = "refresh"
    /\ req[r].do = "refresh" => req[r].tok \in Tokens /\ req[r].at \in Instances
    /\ req[r].pc \in Computing => req[r].do \in {"refresh", "login"}
    /\ req[r].pc # "idle" => req[r].at \in deployed.at
    /\ req[r].pc \in {"shared", "local", "lock", "wait", "poll"} => req[r].hold = "no"
    /\ req[r].pc \in {"prune", "remember"} => req[r].new \in Tokens
    /\ req[r].pc = "signout" => req[r].tok \in Tokens
    /\ req[r].pc \in {"signout", "invalidate"} => req[r].do # "refresh"

\* Request r computes the successor of t in s, without the lock.
Computes(r, s, t) ==
  /\ req[r].pc \in Computing /\ req[r].do = "refresh"
  /\ req[r].at = s /\ req[r].tok = t /\ req[r].hold = "no"

\* A pending entry is a computation under way.
PendingIsComputing ==
  \A s \in Instances, t \in Tokens, r \in Requests :
    pending[s][t] = r => Computes(r, s, t)

\* Whoever waits has an entry to wait for.
WaitersHaveEntry ==
  \A q \in Requests, s \in Instances, t \in Tokens :
    req[q].pc = "wait" /\ req[q].at = s /\ req[q].tok = t => pending[s][t] # NoReq

WaitersInv == PendingIsComputing /\ WaitersHaveEntry

\* Request r has found t live and has not issued its successor.
ExchangeStages == {"revoke", "clear", "insert"}
Exchanges(r, t) == /\ req[r].do = "refresh" /\ req[r].tok = t
                   /\ req[r].pc \in ExchangeStages

\* A token that was exchanged is not live, and one that is about to be not any
\* more; nobody exchanges one that has ended for good.
EndedInv ==
  /\ \A t \in Tokens : row[t] # "none" \/ made[t] # {} \/ t \in closed => t \in Known
  /\ \A r \in Requests, t \in Tokens : Exchanges(r, t) =>
       t \in Known /\ (req[r].pc # "revoke" => row[t] # "live")
  /\ \A t \in Tokens : made[t] # {} => row[t] # "live"
  /\ \A t \in Tokens : t \in closed =>
       made[t] = {} /\ row[t] # "live" /\ \A r \in Requests : ~Exchanges(r, t)

\* Without Redis every computation is the pending one of its process.
AloneInv == ~deployed.redis =>
  /\ \A r \in Requests : req[r].pc \notin {"poll", "reshared"} /\ req[r].hold = "no"
  /\ \A r \in Requests, s \in Instances, t \in Tokens :
       Computes(r, s, t) => pending[s][t] = r

\* A token under exchange has not been exchanged, and none has been twice.
OnceInv == Alone =>
  /\ \A t \in Tokens, r \in Requests : Exchanges(r, t) => made[t] = {}
  /\ \A t \in Tokens : \A m, n \in made[t] : m = n

\* What may be said of a token that is gone: why, or what it was exchanged for,
\* or that its exchange is under way.
Explained(t) == t \in ended \cup lapsed \cup broken
Copied(t) == \E s \in deployed.at : localGrace[s][t] # NoToken
Vouched(t) == Explained(t) \/ Copied(t)
InFlight(r, t) == /\ req[r].do = "refresh" /\ req[r].tok = t
                  /\ req[r].pc \in {"clear", "insert", "prune", "remember"}
Going(t) == \E r \in Requests : InFlight(r, t)
LooksAgain(r, t) == req[r].pc = "relocal" /\ req[r].tok = t
TurnedAway(r, t) == Refused(r) /\ req[r].tok = t

GoneInv == Alone =>
  /\ \A t \in Tokens : t \in Known /\ row[t] # "live" =>
       Vouched(t) \/ Going(t)
  /\ \A r \in Requests, t \in Tokens : LooksAgain(r, t) => Vouched(t)
  /\ \A r \in Requests, t \in Tokens : TurnedAway(r, t) => Explained(t)

-----------------------------------------------------------------------------
(* What the operators on requests do, field by field *)

\* The bounds of the tokens, as facts about numbers.
LEMMA TokensFacts ==
  /\ 1 \in Tokens /\ Tokens \subseteq Nat
  /\ NoToken \notin Tokens /\ NoReq \notin Requests /\ NoDevice \notin Devices
  /\ MaxTokens \in Nat
  /\ \A n \in Tokens : n < MaxTokens => n + 1 \in Tokens
BY RefreshAssumption DEF Tokens

Holds == {"no", "held", "due"}
Reqs == req \in [Requests -> Request]

SameBut(q) == /\ req'[q].do = req[q].do /\ req'[q].dev = req[q].dev
              /\ req'[q].at = req[q].at /\ req'[q].tok = req[q].tok

\* Hold changes the stage and the hold of one request.
LEMMA HoldFacts ==
  ASSUME Reqs, NEW r \in Requests, NEW p \in Stages, NEW h \in Holds, Hold(r, p, h)
  PROVE  /\ Reqs'
         /\ \A q \in Requests : q # r => req'[q] = req[q]
         /\ SameBut(r) /\ req'[r].pc = p /\ req'[r].hold = h
         /\ req'[r].new = req[r].new /\ req'[r].got = req[r].got
         /\ req'[r].error = req[r].error
<1>1. req[r] \in Request
  BY DEF Reqs
<1>2. /\ req'[r] = [req[r] EXCEPT !.pc = p, !.hold = h]
      /\ \A q \in Requests : q # r => req'[q] = req[q]
  BY DEF Hold, Reqs
<1>3. [req[r] EXCEPT !.pc = p, !.hold = h] \in Request
  BY <1>1 DEF Request, Holds
<1>4. Reqs'
  BY <1>2, <1>3 DEF Hold, Reqs
<1>. QED
  BY <1>1, <1>2, <1>4 DEF Request, SameBut

\* Goto changes the stage of one request.
LEMMA GotoFacts ==
  ASSUME Reqs, NEW r \in Requests, NEW p \in Stages, Goto(r, p)
  PROVE  /\ Reqs'
         /\ \A q \in Requests : q # r => req'[q] = req[q]
         /\ SameBut(r) /\ req'[r].pc = p /\ req'[r].hold = req[r].hold
         /\ req'[r].new = req[r].new /\ req'[r].got = req[r].got
         /\ req'[r].error = req[r].error
<1>1. req[r].hold \in Holds
  BY DEF Reqs, Request, Holds
<1>. QED
  BY <1>1, HoldFacts DEF Goto

\* AnswerAll ends the requests of R with one result.
LEMMA AnswerAllFacts ==
  ASSUME Reqs, NEW R \in SUBSET Requests, NEW t \in Tokens \cup {NoToken},
         NEW failed \in BOOLEAN, AnswerAll(R, t, failed)
  PROVE  /\ Reqs'
         /\ \A q \in Requests : q \notin R => req'[q] = req[q]
         /\ \A q \in R : /\ SameBut(q) /\ req'[q].pc = "done"
                         /\ req'[q].hold = Due(req[q].hold)
                         /\ req'[q].new = req[q].new /\ req'[q].got = t
                         /\ req'[q].error = failed
<1>. DEFINE Told(q) == [req[q] EXCEPT !.pc = "done", !.got = t,
                                      !.error = failed, !.hold = Due(req[q].hold)]
<1>1. \A q \in Requests : req[q] \in Request
  BY DEF Reqs
<1>2. req' = [q \in Requests |-> IF q \in R THEN Told(q) ELSE req[q]]
  BY DEF AnswerAll
<1>3. ASSUME NEW q \in R
      PROVE  /\ Told(q) \in Request
             /\ Told(q).do = req[q].do /\ Told(q).dev = req[q].dev
             /\ Told(q).at = req[q].at /\ Told(q).tok = req[q].tok
             /\ Told(q).pc = "done" /\ Told(q).hold = Due(req[q].hold)
             /\ Told(q).new = req[q].new /\ Told(q).got = t /\ Told(q).error = failed
  <2>. DEFINE x == req[q]
              h == Due(req[q].hold)
  <2>1. x \in Request /\ h \in Holds
    BY <1>1 DEF Request, Due, Holds
  <2>2. Told(q) = [x EXCEPT !.pc = "done", !.got = t, !.error = failed, !.hold = h]
    OBVIOUS
  <2>. HIDE DEF x, h, Told
  <2>3. Told(q) \in Request
    BY <2>1, <2>2 DEF Request, Holds, Stages
  <2>4. /\ Told(q).do = x.do /\ Told(q).dev = x.dev
        /\ Told(q).at = x.at /\ Told(q).tok = x.tok
        /\ Told(q).pc = "done" /\ Told(q).hold = h
        /\ Told(q).new = x.new /\ Told(q).got = t /\ Told(q).error = failed
    BY <2>1, <2>2 DEF Request
  <2>. QED
    BY <2>3, <2>4 DEF x, h
<1>. HIDE DEF Told
<1>4. Reqs'
  BY <1>1, <1>2, <1>3 DEF Reqs
<1>5. /\ \A q \in R : req'[q] = Told(q)
      /\ \A q \in Requests : q \notin R => req'[q] = req[q]
  BY <1>2
<1>. QED
  BY <1>3, <1>4, <1>5 DEF SameBut

\* Answer ends one request.
LEMMA AnswerFacts ==
  ASSUME Reqs, NEW r \in Requests, NEW t \in Tokens \cup {NoToken}, Answer(r, t)
  PROVE  /\ Reqs'
         /\ \A q \in Requests : q # r => req'[q] = req[q]
         /\ SameBut(r) /\ req'[r].pc = "done" /\ req'[r].hold = Due(req[r].hold)
         /\ req'[r].new = req[r].new /\ req'[r].got = t /\ req'[r].error = FALSE
<1>. DEFINE R == {r}
<1>1. AnswerAll(R, t, FALSE)
  BY DEF Answer
<1>2. R \in SUBSET Requests /\ r \in R /\ \A q \in Requests : q # r => q \notin R
  OBVIOUS
<1>. HIDE DEF R
<1>3. /\ Reqs'
      /\ \A q \in Requests : q \notin R => req'[q] = req[q]
      /\ \A q \in R : /\ SameBut(q) /\ req'[q].pc = "done"
                      /\ req'[q].hold = Due(req[q].hold)
                      /\ req'[q].new = req[q].new /\ req'[q].got = t
                      /\ req'[q].error = FALSE
  BY <1>1, <1>2, AnswerAllFacts
<1>. QED
  BY <1>2, <1>3

\* Drop ends requests without a trace.
LEMMA DropFacts ==
  ASSUME Reqs, NEW R \in SUBSET Requests, Drop(R)
  PROVE  /\ Reqs'
         /\ \A q \in Requests : q \notin R => req'[q] = req[q]
         /\ \A q \in R : /\ req'[q].pc = "idle" /\ req'[q].do = "none"
                         /\ req'[q].tok = NoToken /\ req'[q].new = NoToken
                         /\ req'[q].got = NoToken /\ req'[q].hold = "no"
<1>1. Idle \in Request
  BY DEF Idle, Fresh, Request, Stages, Kinds
<1>. QED
  BY <1>1 DEF Drop, Reqs, Idle, Fresh

\* Issue notes the token inserted.
LEMMA IssueFacts ==
  ASSUME Reqs, NEW r \in Requests, issued + 1 \in Tokens, Issue(r)
  PROVE  /\ Reqs'
         /\ \A q \in Requests : q # r => req'[q] = req[q]
         /\ SameBut(r) /\ req'[r].pc = "prune" /\ req'[r].hold = req[r].hold
         /\ req'[r].new = issued + 1 /\ req'[r].got = req[r].got
         /\ req'[r].error = req[r].error
<1>1. req[r] \in Request
  BY DEF Reqs
<1>2. /\ req'[r] = [req[r] EXCEPT !.pc = "prune", !.new = issued + 1]
      /\ \A q \in Requests : q # r => req'[q] = req[q]
  BY DEF Issue, Reqs
<1>3. [req[r] EXCEPT !.pc = "prune", !.new = issued + 1] \in Request
  BY <1>1 DEF Request, Stages
<1>4. Reqs'
  BY <1>2, <1>3 DEF Issue, Reqs
<1>. QED
  BY <1>1, <1>2, <1>4 DEF Request, SameBut

\* Begin starts a request.
LEMMA BeginFacts ==
  ASSUME Reqs, NEW r \in Requests, NEW kind \in Kinds, NEW stage \in Stages,
         NEW d \in Devices \cup {NoDevice}, NEW s \in Instances,
         NEW t \in Tokens \cup {NoToken}, Begin(r, kind, stage, d, s, t)
  PROVE  /\ Reqs'
         /\ \A q \in Requests : q # r => req'[q] = req[q]
         /\ req'[r].pc = stage /\ req'[r].do = kind /\ req'[r].at = s
         /\ req'[r].tok = t /\ req'[r].new = NoToken /\ req'[r].got = NoToken
         /\ req'[r].hold = "no"
<1>. DEFINE x == Fresh(stage, kind, d, s, t)
<1>1. /\ x \in Request /\ x.pc = stage /\ x.do = kind /\ x.at = s /\ x.tok = t
      /\ x.new = NoToken /\ x.got = NoToken /\ x.hold = "no"
  BY DEF Fresh, Request
<1>2. req' = [req EXCEPT ![r] = x]
  BY DEF Begin
<1>. HIDE DEF x
<1>. QED
  BY <1>1, <1>2 DEF Reqs

Waits(q, r) == req[q].pc = "wait" /\ pending[req[q].at][req[q].tok] = r
Pends == pending \in [Instances -> [Tokens -> Requests \cup {NoReq}]]

\* Settle ends a computation together with the requests that wait for it.
LEMMA SettleFacts ==
  ASSUME Reqs, Pends, NEW r \in Requests, NEW t \in Tokens \cup {NoToken},
         NEW failed \in BOOLEAN, Settle(r, t, failed)
  PROVE  /\ Reqs' /\ Pends'
         /\ \A q \in Requests :
              IF q = r \/ Waits(q, r)
              THEN /\ SameBut(q) /\ req'[q].pc = "done"
                   /\ req'[q].hold = Due(req[q].hold)
                   /\ req'[q].new = req[q].new /\ req'[q].got = t
                   /\ req'[q].error = failed
              ELSE req'[q] = req[q]
         /\ \A s \in Instances, u \in Tokens :
              pending'[s][u] = IF pending[s][u] = r THEN NoReq ELSE pending[s][u]
<1>. DEFINE W == {q \in Requests : /\ req[q].pc = "wait"
                                   /\ pending[req[q].at][req[q].tok] = r}
            R == W \cup {r}
<1>1. AnswerAll(R, t, failed)
  BY DEF Settle
<1>2. /\ R \in SUBSET Requests
      /\ \A q \in Requests : q \in R <=> q = r \/ Waits(q, r)
  BY DEF Waits
<1>3. /\ Pends'
      /\ \A s \in Instances, u \in Tokens :
              pending'[s][u] = IF pending[s][u] = r THEN NoReq ELSE pending[s][u]
  BY DEF Settle, Pends
<1>. HIDE DEF R
<1>4. /\ Reqs'
      /\ \A q \in Requests : q \notin R => req'[q] = req[q]
      /\ \A q \in R : /\ SameBut(q) /\ req'[q].pc = "done"
                      /\ req'[q].hold = Due(req[q].hold)
                      /\ req'[q].new = req[q].new /\ req'[q].got = t
                      /\ req'[q].error = failed
  BY <1>1, <1>2, AnswerAllFacts
<1>. QED
  BY <1>2, <1>3, <1>4

-----------------------------------------------------------------------------
(* Types *)

\* The initial states are well typed.
LEMMA TypeInit == Init => TypeOK
BY TokensFacts, RefreshAssumption DEF Init, TypeOK, Idle, Fresh, Request, Stages, Kinds

\* The fields of a request.
LEMMA Fields ==
  ASSUME Reqs, NEW r \in Requests
  PROVE  /\ req[r].tok \in Tokens \cup {NoToken} /\ req[r].new \in Tokens \cup {NoToken}
         /\ req[r].got \in Tokens \cup {NoToken} /\ req[r].hold \in Holds
         /\ Due(req[r].hold) \in Holds /\ req[r].pc \in Stages
         /\ req[r].at \in Instances \cup {NoReq} /\ req[r].do \in Kinds
         /\ req[r].dev \in Devices \cup {NoDevice}
BY DEF Reqs, Request, Holds, Due

\* Names of the stages.
LEMMA StageNames ==
  /\ "idle" \in Stages /\ "shared" \in Stages /\ "local" \in Stages /\ "lock" \in Stages
  /\ "wait" \in Stages /\ "poll" \in Stages /\ "select" \in Stages
  /\ "reshared" \in Stages /\ "relocal" \in Stages /\ "revoke" \in Stages
  /\ "clear" \in Stages /\ "insert" \in Stages /\ "prune" \in Stages
  /\ "remember" \in Stages /\ "signout" \in Stages /\ "invalidate" \in Stages
  /\ "done" \in Stages
  /\ "no" \in Holds /\ "held" \in Holds /\ "due" \in Holds
  /\ "refresh" \in Kinds /\ "login" \in Kinds /\ "logout" \in Kinds /\ "password" \in Kinds
BY DEF Stages, Kinds, Holds

Rest == /\ deployed \in Deployments
        /\ row \in [Tokens -> {"none", "live", "revoked"}] /\ issued \in Tokens
        /\ cookie \in [Devices -> Tokens \cup {NoToken}]
        /\ lock \in [Tokens -> BOOLEAN]
        /\ sharedGrace \in [Tokens -> Tokens \cup {NoToken}]
        /\ localGrace \in [Instances -> [Tokens -> Tokens \cup {NoToken}]]
        /\ toShare \subseteq (Instances \X Tokens \X Tokens)
        /\ faults \in 0..MaxFaults /\ made \in [Tokens -> SUBSET Tokens]
        /\ ended \subseteq Tokens /\ closed \subseteq Tokens
        /\ lapsed \subseteq Tokens /\ broken \subseteq Tokens

\* TypeOK in three parts.
LEMMA TypeParts == /\ TypeOK <=> Reqs /\ Pends /\ Rest
                   /\ TypeOK' <=> Reqs' /\ Pends' /\ Rest'
BY DEF TypeOK, Reqs, Pends, Rest

\* What a request reads from the copies has their type.
LEMMA GraceFacts ==
  ASSUME Rest, Shape, NEW r \in Requests, req[r].pc \in Busy
  PROVE  /\ sharedGrace[req[r].tok] \in Tokens \cup {NoToken}
         /\ Grace(r) \in Tokens \cup {NoToken}
         /\ req[r].tok \in Tokens /\ req[r].at \in Instances
<1>1. req[r].tok \in Tokens /\ req[r].at \in Instances
  BY DEF Shape
<1>. QED
  BY <1>1 DEF Rest, Grace

\* The tokens whose exchange is lost are tokens.
LEMMA StrandedFacts ==
  ASSUME Reqs, Shape, NEW R \in SUBSET Requests
  PROVE  Stranded(R) \in SUBSET Tokens
<1>1. \A q \in R : req[q].do = "refresh" => req[q].tok \in Tokens
  BY DEF Shape
<1>. QED
  BY <1>1 DEF Stranded

\* No step leaves the types.
LEMMA TypeStep == TypeOK /\ Shape /\ [Next]_vars => TypeOK'
<1> SUFFICES ASSUME Reqs, Pends, Rest, Shape, [Next]_vars PROVE Reqs' /\ Pends' /\ Rest'
  BY TypeParts
<1>. USE TokensFacts, RefreshAssumption, StageNames, Fields
<1>. USE DEF db, history
<1>1. ASSUME NEW r \in Requests, ReadShared(r, "shared", "local") PROVE Reqs' /\ Pends' /\ Rest'
  <2>0. /\ sharedGrace[req[r].tok] \in Tokens \cup {NoToken}
        /\ Grace(r) \in Tokens \cup {NoToken}
    BY <1>1, GraceFacts DEF ReadShared, Busy
  <2>1. Reqs' /\ Pends'
    BY <1>1, <2>0, AnswerFacts, GotoFacts DEF ReadShared, redis, memory, Pends
  <2>2. Rest'
    BY <1>1 DEF ReadShared, redis, memory, Rest
  <2>. QED
    BY <2>1, <2>2
<1>2. ASSUME NEW r \in Requests, ReadLocal(r) PROVE Reqs' /\ Pends' /\ Rest'
  <2>0. /\ sharedGrace[req[r].tok] \in Tokens \cup {NoToken}
        /\ Grace(r) \in Tokens \cup {NoToken}
    BY <1>2, GraceFacts DEF ReadLocal, Busy
  <2>1. Reqs' /\ Pends'
    BY <1>2, <2>0, AnswerFacts, GotoFacts DEF ReadLocal, redis, memory, Pends
  <2>2. Rest'
    BY <1>2 DEF ReadLocal, redis, memory, Rest
  <2>. QED
    BY <2>1, <2>2
<1>3. ASSUME NEW r \in Requests, TryLock(r) PROVE Reqs' /\ Pends' /\ Rest'
  <2>1. Reqs' /\ Pends'
    BY <1>3, HoldFacts, GotoFacts DEF TryLock, memory, Pends, Rest
  <2>2. Rest'
    BY <1>3 DEF TryLock, memory, Rest, Reqs, Pends, Shape
  <2>. QED
    BY <2>1, <2>2
<1>4. ASSUME NEW r \in Requests, Coalesce(r) PROVE Reqs' /\ Pends' /\ Rest'
  <2>1. Reqs' /\ Pends'
    BY <1>4, GotoFacts DEF Coalesce, redis, Pends, Rest
  <2>2. Rest'
    BY <1>4 DEF Coalesce, redis, Rest, Reqs, Pends, Shape
  <2>. QED
    BY <2>1, <2>2
<1>5. ASSUME NEW r \in Requests, Poll(r) PROVE Reqs' /\ Pends' /\ Rest'
  <2>0. /\ sharedGrace[req[r].tok] \in Tokens \cup {NoToken}
        /\ Grace(r) \in Tokens \cup {NoToken}
    BY <1>5, GraceFacts DEF Poll, Busy
  <2>1. Reqs' /\ Pends'
    BY <1>5, <2>0, AnswerFacts DEF Poll, redis, memory, Pends
  <2>2. Rest'
    BY <1>5 DEF Poll, redis, memory, Rest
  <2>. QED
    BY <2>1, <2>2
<1>6. ASSUME NEW r \in Requests, Release(r) PROVE Reqs' /\ Pends' /\ Rest'
  <2>1. Reqs' /\ Pends'
    BY <1>6, HoldFacts DEF Release, memory, Pends, Rest
  <2>2. Rest'
    BY <1>6 DEF Release, memory, Rest, Reqs, Pends, Shape
  <2>. QED
    BY <2>1, <2>2
<1>7. ASSUME NEW r \in Requests, Select(r) PROVE Reqs' /\ Pends' /\ Rest'
  <2>1. Reqs' /\ Pends'
    BY <1>7, HoldFacts, GotoFacts DEF Select, redis, memory, Pends, Rest
  <2>2. Rest'
    BY <1>7 DEF Select, redis, memory, Rest, Reqs, Pends, Shape
  <2>. QED
    BY <2>1, <2>2
<1>8. ASSUME NEW r \in Requests, ReadShared(r, "reshared", "relocal") PROVE Reqs' /\ Pends' /\ Rest'
  <2>0. /\ sharedGrace[req[r].tok] \in Tokens \cup {NoToken}
        /\ Grace(r) \in Tokens \cup {NoToken}
    BY <1>8, GraceFacts DEF ReadShared, Busy
  <2>1. Reqs' /\ Pends'
    BY <1>8, <2>0, AnswerFacts, GotoFacts DEF ReadShared, redis, memory, Pends
  <2>2. Rest'
    BY <1>8 DEF ReadShared, redis, memory, Rest
  <2>. QED
    BY <2>1, <2>2
<1>9. ASSUME NEW r \in Requests, Relocal(r) PROVE Reqs' /\ Pends' /\ Rest'
  <2>0. /\ sharedGrace[req[r].tok] \in Tokens \cup {NoToken}
        /\ Grace(r) \in Tokens \cup {NoToken}
    BY <1>9, GraceFacts DEF Relocal, Busy
  <2>1. Reqs' /\ Pends'
    BY <1>9, <2>0, SettleFacts DEF Relocal, redis, Pends
  <2>2. Rest'
    BY <1>9 DEF Relocal, redis, Rest
  <2>. QED
    BY <2>1, <2>2
<1>10. ASSUME NEW r \in Requests, Revoke(r) PROVE Reqs' /\ Pends' /\ Rest'
  <2>1. Reqs' /\ Pends'
    BY <1>10, GotoFacts DEF Revoke, redis, memory, Pends, Rest
  <2>2. Rest'
    BY <1>10 DEF Revoke, redis, memory, Rest, Reqs, Pends, Shape
  <2>. QED
    BY <2>1, <2>2
<1>11. ASSUME NEW r \in Requests, Clear(r) PROVE Reqs' /\ Pends' /\ Rest'
  <2>1. Reqs' /\ Pends'
    BY <1>11, GotoFacts DEF Clear, redis, memory, Pends, Rest
  <2>2. Rest'
    BY <1>11 DEF Clear, redis, memory, Rest, Reqs, Pends, Shape
  <2>. QED
    BY <2>1, <2>2
<1>12. ASSUME NEW r \in Requests, Insert(r) PROVE Reqs' /\ Pends' /\ Rest'
  <2>1. Reqs' /\ Pends'
    BY <1>12, IssueFacts DEF Insert, redis, memory, Pends, Rest
  <2>2. Rest'
    BY <1>12 DEF Insert, redis, memory, Rest, Reqs, Pends, Shape
  <2>. QED
    BY <2>1, <2>2
<1>13. ASSUME NEW r \in Requests, Prune(r) PROVE Reqs' /\ Pends' /\ Rest'
  <2>1. Reqs' /\ Pends'
    BY <1>13, GotoFacts DEF Prune, End, Live, redis, memory, Pends, Rest
  <2>2. Rest'
    BY <1>13 DEF Prune, End, Live, redis, memory, Rest, Reqs, Pends, Shape
  <2>. QED
    BY <2>1, <2>2
<1>14. ASSUME NEW r \in Requests, Remember(r) PROVE Reqs' /\ Pends' /\ Rest'
  <2>1. Reqs' /\ Pends'
    BY <1>14, SettleFacts DEF Remember, redis, Pends, Rest
  <2>2. CASE req[r].do = "refresh"
    <3>1. req[r].tok \in Tokens /\ req[r].at \in Instances /\ req[r].new \in Tokens
      BY <1>14, <2>2 DEF Remember, Shape
    <3>2. localGrace' = [localGrace EXCEPT ![req[r].at][req[r].tok] = req[r].new]
      BY <1>14, <2>2 DEF Remember
    <3>3. localGrace' \in [Instances -> [Tokens -> Tokens \cup {NoToken}]]
      BY <3>1, <3>2 DEF Rest
    <3>4. toShare' \subseteq (Instances \X Tokens \X Tokens)
      BY <1>14, <2>2, <3>1 DEF Remember, Rest
    <3>. QED
      BY <1>14, <3>3, <3>4, <2>1 DEF Remember, redis, Rest
  <2>3. CASE req[r].do # "refresh"
    BY <1>14, <2>1, <2>3 DEF Remember, redis, Rest
  <2>. QED
    BY <2>2, <2>3
<1>15. ASSUME NEW r \in Requests, SignOut(r) PROVE Reqs' /\ Pends' /\ Rest'
  <2>1. Reqs' /\ Pends'
    BY <1>15, AnswerFacts DEF SignOut, End, Live, redis, memory, Pends, Rest
  <2>2. Rest'
    BY <1>15 DEF SignOut, End, Live, redis, memory, Rest, Reqs, Pends, Shape
  <2>. QED
    BY <2>1, <2>2
<1>16. ASSUME NEW r \in Requests, Invalidate(r) PROVE Reqs' /\ Pends' /\ Rest'
  <2>1. Reqs' /\ Pends'
    BY <1>16, AnswerFacts DEF Invalidate, End, Live, redis, memory, Pends, Rest
  <2>2. Rest'
    BY <1>16 DEF Invalidate, End, Live, redis, memory, Rest, Reqs, Pends, Shape
  <2>. QED
    BY <2>1, <2>2
<1>17. ASSUME NEW r \in Requests, Deliver(r) PROVE Reqs' /\ Pends' /\ Rest'
  <2>1. Reqs' /\ Pends'
    BY <1>17, DropFacts DEF Deliver, redis, memory, Pends, Rest
  <2>2. Rest'
    BY <1>17 DEF Deliver, redis, memory, Rest, Reqs, Pends, Shape
  <2>. QED
    BY <2>1, <2>2
<1>18. ASSUME NEW r \in Requests, Client(r) PROVE Reqs' /\ Pends' /\ Rest'
  <2>. PICK s \in deployed.at : \/ \E d \in Devices : \/ SendRefresh(r, d, s) \/ SendLogin(r, d, s)
                                                     \/ SendLogout(r, d, s)
                                \/ SendPassword(r, s)
    BY <1>18 DEF Client
  <2>1. s \in Instances
    BY DEF Rest
  <2>2. PICK kind \in Kinds, stage \in Stages, d \in Devices \cup {NoDevice},
             t \in Tokens \cup {NoToken} : Begin(r, kind, stage, d, s, t)
    <3>1. ASSUME NEW d \in Devices
          PROVE  /\ d \in Devices \cup {NoDevice}
                 /\ cookie[d] \in Tokens \cup {NoToken} /\ NoToken \in Tokens \cup {NoToken}
      BY DEF Rest
    <3>. QED
      BY <3>1 DEF SendRefresh, SendLogin, SendLogout, SendPassword
  <2>3. Reqs'
    BY <2>1, <2>2, BeginFacts
  <2>4. Pends' /\ Rest'
    BY <2>2 DEF Begin, redis, memory, Pends, Rest
  <2>. QED
    BY <2>3, <2>4
<1>19. ASSUME NEW r \in Requests, Fail(r) PROVE Reqs' /\ Pends' /\ Rest'
  <2>1. Reqs' /\ Pends'
    BY <1>19, SettleFacts DEF Fail, Stranded, redis, Pends, Rest
  <2>2. {r} \in SUBSET Requests
    OBVIOUS
  <2>3. Stranded({r}) \in SUBSET Tokens
    BY <2>2, StrandedFacts
  <2>4. faults' \in 0..MaxFaults
    BY <1>19 DEF Fail, Rest
  <2>5. Rest'
    BY <1>19, <2>3, <2>4 DEF Fail, redis, Rest
  <2>. QED
    BY <2>1, <2>5
<1>20. ASSUME NEW w \in toShare, Share(w) PROVE Reqs' /\ Pends' /\ Rest'
  BY <1>20 DEF Share, memory, Reqs, Pends, Rest
<1>21. ASSUME NEW s \in Instances, Crash(s) PROVE Reqs' /\ Pends' /\ Rest'
  <2>. DEFINE lost == {r \in Requests : req[r].at = s}
  <2>1. lost \in SUBSET Requests /\ Drop(lost)
    BY <1>21 DEF Crash
  <2>2. broken' = broken \cup Stranded(lost)
    BY <1>21 DEF Crash
  <2>. HIDE DEF lost
  <2>3. Reqs' /\ Stranded(lost) \in SUBSET Tokens
    BY <2>1, DropFacts, StrandedFacts
  <2>4. Pends'
    BY <1>21 DEF Crash, Pends
  <2>5. faults' \in 0..MaxFaults
    BY <1>21 DEF Crash, Rest
  <2>6. /\ localGrace' \in [Instances -> [Tokens -> Tokens \cup {NoToken}]]
        /\ toShare' \subseteq (Instances \X Tokens \X Tokens)
        /\ lapsed' \subseteq Tokens
    BY <1>21 DEF Crash, Rest
  <2>7. Rest'
    BY <1>21, <2>2, <2>3, <2>5, <2>6 DEF Crash, redis, Rest
  <2>. QED
    BY <2>3, <2>4, <2>7
<1>22. ASSUME NEW t \in Tokens, LockExpires(t) PROVE Reqs' /\ Pends' /\ Rest'
  BY <1>22 DEF LockExpires, memory, Reqs, Pends, Rest
<1>23. ASSUME NEW t \in Tokens, GraceEnds(t) PROVE Reqs' /\ Pends' /\ Rest'
  <2>1. Reqs' /\ Pends'
    BY <1>23 DEF GraceEnds, Reqs, Pends
  <2>2. sharedGrace' \in [Tokens -> Tokens \cup {NoToken}]
    BY <1>23 DEF GraceEnds, Rest
  <2>3. localGrace' \in [Instances -> [Tokens -> Tokens \cup {NoToken}]]
    BY <1>23 DEF GraceEnds, Rest
  <2>. QED
    BY <1>23, <2>1, <2>2, <2>3 DEF GraceEnds, Rest
<1>24. ASSUME NEW t \in Tokens, Expire(t) PROVE Reqs' /\ Pends' /\ Rest'
  BY <1>24 DEF Expire, End, Live, redis, memory, Reqs, Pends, Rest
<1>25. CASE UNCHANGED vars
  BY <1>25 DEF vars, Reqs, Pends, Rest
<1>. QED
  BY <1>1, <1>2, <1>3, <1>4, <1>5, <1>6, <1>7, <1>8, <1>9, <1>10, <1>11, <1>12, <1>13, <1>14, <1>15, <1>16, <1>17, <1>18, <1>19, <1>20, <1>21, <1>22, <1>23, <1>24, <1>25 DEF Next, Work, Time

-----------------------------------------------------------------------------
(* What each action does to the requests *)

\* Request r goes to stage p with the given fields, the others stay.
Moved(r, p, h, n, t, e) ==
  /\ \A q \in Requests : q # r => req'[q] = req[q]
  /\ SameBut(r) /\ req'[r].pc = p /\ req'[r].hold = h
  /\ req'[r].new = n /\ req'[r].got = t /\ req'[r].error = e

Went(r, p) == Moved(r, p, req[r].hold, req[r].new, req[r].got, req[r].error)
Answered(r, t) == Moved(r, "done", Due(req[r].hold), req[r].new, t, FALSE)

\* Request r and those that wait for it are done.
Settled(r, t, failed) ==
  /\ \A q \in Requests :
       IF q = r \/ Waits(q, r)
       THEN /\ SameBut(q) /\ req'[q].pc = "done" /\ req'[q].hold = Due(req[q].hold)
            /\ req'[q].new = req[q].new /\ req'[q].got = t /\ req'[q].error = failed
       ELSE req'[q] = req[q]
  /\ \A s \in Instances, u \in Tokens :
       pending'[s][u] = IF pending[s][u] = r THEN NoReq ELSE pending[s][u]

\* A new request of r.
Begun(r, kind, stage, s, t) ==
  /\ \A q \in Requests : q # r => req'[q] = req[q]
  /\ req'[r].pc = stage /\ req'[r].do = kind /\ req'[r].at = s
  /\ req'[r].tok = t /\ req'[r].new = NoToken /\ req'[r].got = NoToken
  /\ req'[r].hold = "no"

\* The requests of R are gone.
Dropped(R) ==
  /\ \A q \in Requests : q \notin R => req'[q] = req[q]
  /\ \A q \in R : /\ req'[q].pc = "idle" /\ req'[q].do = "none"
                  /\ req'[q].tok = NoToken /\ req'[q].new = NoToken
                  /\ req'[q].got = NoToken /\ req'[q].hold = "no"

\* The steps of request r, by what they do to it.
LEMMA Moves ==
  ASSUME Reqs, Pends, Rest, Shape, NEW r \in Requests
  PROVE  /\ ReadShared(r, "shared", "local") =>
              Went(r, "local") \/ Answered(r, sharedGrace[req[r].tok])
         /\ ReadLocal(r) => IF Grace(r) # NoToken THEN Answered(r, Grace(r))
                            ELSE Went(r, "lock")
         /\ TryLock(r) => IF lock[req[r].tok] THEN Went(r, "poll")
                          ELSE Moved(r, "select", "held", req[r].new, req[r].got, req[r].error)
         /\ Coalesce(r) => IF pending[req[r].at][req[r].tok] # NoReq THEN Went(r, "wait")
                           ELSE Went(r, "select")
         /\ Poll(r) => \/ Answered(r, Grace(r)) \/ Answered(r, sharedGrace[req[r].tok])
                       \/ Answered(r, NoToken)
         /\ Release(r) => Moved(r, req[r].pc, "no", req[r].new, req[r].got, req[r].error)
         /\ Select(r) =>
              IF row[req[r].tok] = "live"
              THEN Moved(r, "revoke", Due(req[r].hold), req[r].new, req[r].got, req[r].error)
              ELSE Went(r, IF req[r].hold = "held" THEN "reshared" ELSE "relocal")
         /\ ReadShared(r, "reshared", "relocal") =>
              Went(r, "relocal") \/ Answered(r, sharedGrace[req[r].tok])
         /\ Relocal(r) => Settled(r, Grace(r), FALSE)
         /\ Revoke(r) => Went(r, "clear")
         /\ Clear(r) => Went(r, "insert")
         /\ Insert(r) => Moved(r, "prune", req[r].hold, issued + 1, req[r].got, req[r].error)
         /\ Prune(r) => Went(r, "remember")
         /\ Remember(r) => Settled(r, req[r].new, FALSE)
         /\ SignOut(r) => Answered(r, NoToken)
         /\ Invalidate(r) => Answered(r, NoToken)
         /\ Deliver(r) => Dropped({r})
         /\ Fail(r) => Settled(r, NoToken, TRUE)
<1>. USE TokensFacts, RefreshAssumption, StageNames, Fields
<1>1. ASSUME NEW p \in Stages, Goto(r, p) PROVE Went(r, p)
  BY <1>1, GotoFacts DEF Went, Moved
<1>2. ASSUME NEW p \in Stages, NEW h \in Holds, Hold(r, p, h)
      PROVE  Moved(r, p, h, req[r].new, req[r].got, req[r].error)
  BY <1>2, HoldFacts DEF Moved
<1>3. ASSUME NEW t \in Tokens \cup {NoToken}, Answer(r, t) PROVE Answered(r, t)
  BY <1>3, AnswerFacts DEF Answered, Moved
<1>4. ASSUME NEW t \in Tokens \cup {NoToken}, NEW e \in BOOLEAN, Settle(r, t, e)
      PROVE  Settled(r, t, e)
  <2>. HIDE DEF Reqs, Pends, Waits, SameBut
  <2>. USE <1>4
  <2>1. \A q \in Requests :
           IF q = r \/ Waits(q, r)
           THEN /\ SameBut(q) /\ req'[q].pc = "done" /\ req'[q].hold = Due(req[q].hold)
                /\ req'[q].new = req[q].new /\ req'[q].got = t /\ req'[q].error = e
           ELSE req'[q] = req[q]
    BY SettleFacts
  <2>2. \A s \in Instances, u \in Tokens :
           pending'[s][u] = IF pending[s][u] = r THEN NoReq ELSE pending[s][u]
    BY SettleFacts
  <2>. QED
    BY <2>1, <2>2 DEF Settled
<1>5. /\ sharedGrace[req[r].tok] \in Tokens \cup {NoToken} \/ req[r].pc \notin Busy
      /\ Grace(r) \in Tokens \cup {NoToken} \/ req[r].pc \notin Busy
  BY GraceFacts
<1>6. /\ ReadShared(r, "shared", "local") =>
              Went(r, "local") \/ Answered(r, sharedGrace[req[r].tok])
      /\ ReadShared(r, "reshared", "relocal") =>
              Went(r, "relocal") \/ Answered(r, sharedGrace[req[r].tok])
  BY <1>1, <1>3, <1>5 DEF ReadShared, Busy
<1>7. ReadLocal(r) => IF Grace(r) # NoToken THEN Answered(r, Grace(r)) ELSE Went(r, "lock")
  BY <1>1, <1>3, <1>5 DEF ReadLocal, Busy
<1>8. Poll(r) => \/ Answered(r, Grace(r)) \/ Answered(r, sharedGrace[req[r].tok])
                 \/ Answered(r, NoToken)
  BY <1>3, <1>5 DEF Poll, Busy
<1>9. Relocal(r) => Settled(r, Grace(r), FALSE)
  BY <1>4, <1>5 DEF Relocal, Busy
<1>10. TryLock(r) => IF lock[req[r].tok] THEN Went(r, "poll")
                     ELSE Moved(r, "select", "held", req[r].new, req[r].got, req[r].error)
  BY <1>1, <1>2 DEF TryLock
<1>11. Select(r) =>
              IF row[req[r].tok] = "live"
              THEN Moved(r, "revoke", Due(req[r].hold), req[r].new, req[r].got, req[r].error)
              ELSE Went(r, IF req[r].hold = "held" THEN "reshared" ELSE "relocal")
  BY <1>1, <1>2 DEF Select
<1>12. Insert(r) => Moved(r, "prune", req[r].hold, issued + 1, req[r].got, req[r].error)
  <2>1. Insert(r) => issued + 1 \in Tokens /\ Issue(r)
    BY DEF Insert, Rest
  <2>. QED
    BY <2>1, IssueFacts DEF Moved
<1>13. Deliver(r) => Dropped({r})
  <2>1. {r} \in SUBSET Requests
    OBVIOUS
  <2>2. ASSUME NEW R \in SUBSET Requests, Drop(R) PROVE Dropped(R)
    BY <2>2, DropFacts DEF Dropped
  <2>. QED
    BY <2>1, <2>2 DEF Deliver
<1>14. Release(r) => Moved(r, req[r].pc, "no", req[r].new, req[r].got, req[r].error)
  BY <1>2 DEF Release
<1>15. /\ Coalesce(r) => IF pending[req[r].at][req[r].tok] # NoReq THEN Went(r, "wait")
                         ELSE Went(r, "select")
       /\ Revoke(r) => Went(r, "clear")
       /\ Clear(r) => Went(r, "insert")
       /\ Prune(r) => Went(r, "remember")
  BY <1>1 DEF Coalesce, Revoke, Clear, Prune
<1>16. /\ Remember(r) => Settled(r, req[r].new, FALSE)
       /\ Fail(r) => Settled(r, NoToken, TRUE)
  BY <1>4 DEF Remember, Fail
<1>17. /\ SignOut(r) => Answered(r, NoToken)
       /\ Invalidate(r) => Answered(r, NoToken)
  BY <1>3 DEF SignOut, Invalidate
<1>. QED
  BY <1>6, <1>7, <1>8, <1>9, <1>10, <1>11, <1>12, <1>13, <1>14, <1>15, <1>16, <1>17

\* A client's step begins a request of one of four kinds.
LEMMA ClientMoves ==
  ASSUME Reqs, Rest, NEW r \in Requests, Client(r)
  PROVE  \E s \in Instances, t \in Tokens \cup {NoToken} :
           /\ s \in deployed.at /\ req[r].pc = "idle"
           /\ \/ Begun(r, "refresh", "shared", s, t) /\ t \in Tokens
                                                     /\ \E d \in Devices : t = cookie[d]
              \/ Begun(r, "login", "clear", s, NoToken)
              \/ Begun(r, "logout", "signout", s, t) /\ t \in Tokens
                                                     /\ \E d \in Devices : t = cookie[d]
              \/ Begun(r, "password", "invalidate", s, NoToken)
           /\ UNCHANGED <<deployed, row, issued, cookie, lock, sharedGrace, localGrace, pending,
                          toShare, faults, made, ended, closed, lapsed, broken>>
<1>. USE TokensFacts, StageNames
<1>1. PICK s \in deployed.at : \/ \E d \in Devices : \/ SendRefresh(r, d, s)
                                                     \/ SendLogin(r, d, s)
                                                     \/ SendLogout(r, d, s)
                               \/ SendPassword(r, s)
  BY DEF Client
<1>2. s \in Instances
  BY RefreshAssumption DEF Rest
<1>3. ASSUME NEW kind \in Kinds, NEW stage \in Stages, NEW d \in Devices \cup {NoDevice},
             NEW t \in Tokens \cup {NoToken}, Begin(r, kind, stage, d, s, t)
      PROVE  /\ Begun(r, kind, stage, s, t) /\ req[r].pc = "idle"
             /\ UNCHANGED <<deployed, row, issued, cookie, lock, sharedGrace, localGrace,
                            pending, toShare, faults, made, ended, closed, lapsed, broken>>
  <2>1. Begun(r, kind, stage, s, t)
    BY <1>2, <1>3, BeginFacts DEF Begun
  <2>. QED
    BY <1>3, <2>1 DEF Begin, db, redis, memory, history
<1>4. \A d \in Devices : cookie[d] \in Tokens \cup {NoToken} /\ d \in Devices \cup {NoDevice}
  BY DEF Rest
<1>5. NoDevice \in Devices \cup {NoDevice} /\ NoToken \in Tokens \cup {NoToken}
  OBVIOUS
<1>6. CASE \E d \in Devices : SendRefresh(r, d, s)
  BY <1>2, <1>3, <1>4, <1>6 DEF SendRefresh
<1>7. CASE \E d \in Devices : SendLogin(r, d, s)
  BY <1>2, <1>3, <1>4, <1>5, <1>7 DEF SendLogin
<1>8. CASE \E d \in Devices : SendLogout(r, d, s)
  BY <1>2, <1>3, <1>4, <1>8 DEF SendLogout
<1>9. CASE SendPassword(r, s)
  BY <1>2, <1>3, <1>5, <1>9 DEF SendPassword
<1>. QED
  BY <1>1, <1>6, <1>7, <1>8, <1>9

\* A crash drops the requests of its instance.
LEMMA CrashMoves ==
  ASSUME Reqs, NEW s \in Instances, Crash(s)
  PROVE  Dropped({r \in Requests : req[r].at = s})
<1>. DEFINE lost == {r \in Requests : req[r].at = s}
<1>1. lost \in SUBSET Requests /\ Drop(lost)
  BY DEF Crash
<1>. HIDE DEF lost
<1>2. Dropped(lost)
  BY <1>1, DropFacts DEF Dropped
<1>. QED
  BY <1>2 DEF lost

-----------------------------------------------------------------------------
(* Invariants of every deployment *)

\* Initially no request does anything.
LEMMA ShapeInit == Init => Shape
BY DEF Init, Shape, Idle, Fresh, Busy, Computing

\* Settling only ends requests that compute or wait.
LEMMA SettledEnds ==
  ASSUME NEW r, NEW t, NEW e, Settled(r, t, e), NEW q \in Requests
  PROVE  /\ SameBut(q)
         /\ \/ req'[q] = req[q]
            \/ req'[q].pc = "done" /\ (q = r \/ req[q].pc = "wait")
         /\ q = r => req'[q].pc = "done"
BY DEF Settled, SameBut, Waits

\* Requests keep to their stages.
LEMMA ShapeStep == TypeOK /\ Shape /\ [Next]_vars => Shape'
<1> SUFFICES ASSUME Reqs, Pends, Rest, Shape, [Next]_vars PROVE Shape'
  BY TypeParts
<1>. USE TokensFacts DEF Shape, Busy, Computing
<1>1. ASSUME NEW r \in Requests, ReadShared(r, "shared", "local") PROVE Shape'
  <2>1. Went(r, "local") \/ Answered(r, sharedGrace[req[r].tok])
    BY <1>1, Moves
  <2>. QED
    BY <1>1, <2>1 DEF Went, Answered, Moved, SameBut, ReadShared, redis, memory
<1>2. ASSUME NEW r \in Requests, ReadLocal(r) PROVE Shape'
  <2>1. IF Grace(r) # NoToken THEN Answered(r, Grace(r)) ELSE Went(r, "lock")
    BY <1>2, Moves
  <2>. QED
    BY <1>2, <2>1 DEF Went, Answered, Moved, SameBut, ReadLocal, redis, memory
<1>3. ASSUME NEW r \in Requests, TryLock(r) PROVE Shape'
  <2>1. IF lock[req[r].tok] THEN Went(r, "poll")
        ELSE Moved(r, "select", "held", req[r].new, req[r].got, req[r].error)
    BY <1>3, Moves
  <2>. QED
    BY <1>3, <2>1 DEF Went, Moved, SameBut, TryLock, memory
<1>4. ASSUME NEW r \in Requests, Coalesce(r) PROVE Shape'
  <2>1. IF pending[req[r].at][req[r].tok] # NoReq THEN Went(r, "wait")
        ELSE Went(r, "select")
    BY <1>4, Moves
  <2>. QED
    BY <1>4, <2>1 DEF Went, Moved, SameBut, Coalesce, redis
<1>5. ASSUME NEW r \in Requests, Poll(r) PROVE Shape'
  <2>1. \/ Answered(r, Grace(r)) \/ Answered(r, sharedGrace[req[r].tok])
        \/ Answered(r, NoToken)
    BY <1>5, Moves
  <2>. QED
    BY <1>5, <2>1 DEF Answered, Moved, SameBut, Poll, redis, memory
<1>6. ASSUME NEW r \in Requests, Release(r) PROVE Shape'
  <2>1. Moved(r, req[r].pc, "no", req[r].new, req[r].got, req[r].error)
    BY <1>6, Moves
  <2>. QED
    BY <1>6, <2>1 DEF Moved, SameBut, Release, memory
<1>7. ASSUME NEW r \in Requests, Select(r) PROVE Shape'
  <2>1. IF row[req[r].tok] = "live"
        THEN Moved(r, "revoke", Due(req[r].hold), req[r].new, req[r].got, req[r].error)
        ELSE Went(r, IF req[r].hold = "held" THEN "reshared" ELSE "relocal")
    BY <1>7, Moves
  <2>. QED
    BY <1>7, <2>1 DEF Went, Moved, SameBut, Select, redis, memory
<1>8. ASSUME NEW r \in Requests, ReadShared(r, "reshared", "relocal") PROVE Shape'
  <2>1. Went(r, "relocal") \/ Answered(r, sharedGrace[req[r].tok])
    BY <1>8, Moves
  <2>. QED
    BY <1>8, <2>1 DEF Went, Answered, Moved, SameBut, ReadShared, redis, memory
<1>9. ASSUME NEW r \in Requests, Relocal(r) PROVE Shape'
  <2>1. Settled(r, Grace(r), FALSE)
    BY <1>9, Moves
  <2>2. deployed' = deployed /\ req[r].pc # "idle"
    BY <1>9 DEF Relocal
  <2>3. ASSUME NEW q \in Requests
        PROVE  /\ SameBut(q)
               /\ \/ req'[q] = req[q]
                  \/ req'[q].pc = "done" /\ req[q].pc # "idle"
    BY <2>1, <2>2, SettledEnds
  <2>. QED
    BY <2>2, <2>3 DEF SameBut
<1>10. ASSUME NEW r \in Requests, Revoke(r) PROVE Shape'
  <2>1. Went(r, "clear")
    BY <1>10, Moves
  <2>. QED
    BY <1>10, <2>1 DEF Went, Moved, SameBut, Revoke, redis, memory
<1>11. ASSUME NEW r \in Requests, Clear(r) PROVE Shape'
  <2>1. Went(r, "insert")
    BY <1>11, Moves
  <2>. QED
    BY <1>11, <2>1 DEF Went, Moved, SameBut, Clear, redis, memory
<1>12. ASSUME NEW r \in Requests, Insert(r) PROVE Shape'
  <2>1. Moved(r, "prune", req[r].hold, issued + 1, req[r].got, req[r].error)
    BY <1>12, Moves
  <2>2. issued + 1 \in Tokens /\ deployed' = deployed
    BY <1>12 DEF Insert, Rest
  <2>. QED
    BY <1>12, <2>1, <2>2 DEF Moved, SameBut, Insert, redis, memory
<1>13. ASSUME NEW r \in Requests, Prune(r) PROVE Shape'
  <2>1. Went(r, "remember")
    BY <1>13, Moves
  <2>. QED
    BY <1>13, <2>1 DEF Went, Moved, SameBut, Prune, redis, memory
<1>14. ASSUME NEW r \in Requests, Remember(r) PROVE Shape'
  <2>1. Settled(r, req[r].new, FALSE)
    BY <1>14, Moves
  <2>2. deployed' = deployed /\ req[r].pc # "idle"
    BY <1>14 DEF Remember
  <2>3. ASSUME NEW q \in Requests
        PROVE  /\ SameBut(q)
               /\ \/ req'[q] = req[q]
                  \/ req'[q].pc = "done" /\ req[q].pc # "idle"
    BY <2>1, <2>2, SettledEnds
  <2>. QED
    BY <2>2, <2>3 DEF SameBut
<1>15. ASSUME NEW r \in Requests, SignOut(r) PROVE Shape'
  <2>1. Answered(r, NoToken)
    BY <1>15, Moves
  <2>. QED
    BY <1>15, <2>1 DEF Answered, Moved, SameBut, SignOut, redis, memory
<1>16. ASSUME NEW r \in Requests, Invalidate(r) PROVE Shape'
  <2>1. Answered(r, NoToken)
    BY <1>16, Moves
  <2>. QED
    BY <1>16, <2>1 DEF Answered, Moved, SameBut, Invalidate, redis, memory
<1>17. ASSUME NEW r \in Requests, Deliver(r) PROVE Shape'
  <2>1. Dropped({r})
    BY <1>17, Moves
  <2>. QED
    BY <1>17, <2>1 DEF Dropped, Deliver, redis, memory
<1>18. ASSUME NEW r \in Requests, Client(r) PROVE Shape'
  BY <1>18, ClientMoves DEF Begun
<1>19. ASSUME NEW r \in Requests, Fail(r) PROVE Shape'
  <2>1. Settled(r, NoToken, TRUE)
    BY <1>19, Moves
  <2>2. deployed' = deployed /\ req[r].pc # "idle"
    BY <1>19 DEF Fail
  <2>3. ASSUME NEW q \in Requests
        PROVE  /\ SameBut(q)
               /\ \/ req'[q] = req[q]
                  \/ req'[q].pc = "done" /\ req[q].pc # "idle"
    BY <2>1, <2>2, SettledEnds
  <2>. QED
    BY <2>2, <2>3 DEF SameBut
<1>20. ASSUME NEW w \in toShare, Share(w) PROVE Shape'
  BY <1>20 DEF Share, memory
<1>21. ASSUME NEW s \in Instances, Crash(s) PROVE Shape'
  <2>1. Dropped({r \in Requests : req[r].at = s})
    BY <1>21, CrashMoves
  <2>. QED
    BY <1>21, <2>1 DEF Dropped, Crash, redis
<1>22. ASSUME NEW t \in Tokens, LockExpires(t) PROVE Shape'
  BY <1>22 DEF LockExpires, memory
<1>23. ASSUME NEW t \in Tokens, GraceEnds(t) PROVE Shape'
  BY <1>23 DEF GraceEnds
<1>24. ASSUME NEW t \in Tokens, Expire(t) PROVE Shape'
  BY <1>24 DEF Expire, redis, memory
<1>25. CASE UNCHANGED vars
  BY <1>25 DEF vars
<1>. QED
  BY <1>1, <1>2, <1>3, <1>4, <1>5, <1>6, <1>7, <1>8, <1>9, <1>10, <1>11, <1>12, <1>13, <1>14, <1>15, <1>16, <1>17, <1>18, <1>19, <1>20, <1>21, <1>22, <1>23, <1>24, <1>25 DEF Next, Work, Time

\* Initially nothing is pending and nobody waits.
LEMMA WaitersInit == Init => WaitersInv
BY TokensFacts DEF Init, WaitersInv, PendingIsComputing, WaitersHaveEntry, Idle, Fresh

\* A request that keeps computing, and does not begin to wait, disturbs nobody.
LEMMA WaitersKept ==
  ASSUME WaitersInv, pending' = pending, NEW r \in Requests, SameBut(r),
         \A q \in Requests : q # r => req'[q] = req[q],
         req[r].pc \in Computing /\ req[r].hold = "no"
           => req'[r].pc \in Computing /\ req'[r].hold = "no",
         req'[r].pc # "wait"
  PROVE  WaitersInv'
<1>1. ASSUME NEW s \in Instances, NEW t \in Tokens, NEW q \in Requests, pending'[s][t] = q
      PROVE  Computes(q, s, t)'
  <2>1. Computes(q, s, t)
    BY <1>1 DEF WaitersInv, PendingIsComputing
  <2>. QED
    BY <2>1 DEF Computes, SameBut
<1>2. ASSUME NEW q \in Requests, NEW s \in Instances, NEW t \in Tokens,
             req'[q].pc = "wait", req'[q].at = s, req'[q].tok = t
      PROVE  pending'[s][t] # NoReq
  BY <1>2 DEF WaitersInv, WaitersHaveEntry
<1>. QED
  BY <1>1, <1>2 DEF WaitersInv, PendingIsComputing, WaitersHaveEntry

\* Nor does a step that leaves the requests and the entries alone.
LEMMA WaitersAside == WaitersInv /\ req' = req /\ pending' = pending => WaitersInv'
<1> SUFFICES ASSUME WaitersInv, req' = req, pending' = pending PROVE WaitersInv'
  OBVIOUS
<1>1. \A q \in Requests, s \in Instances, t \in Tokens : Computes(q, s, t) => Computes(q, s, t)'
  BY DEF Computes
<1>2. PendingIsComputing'
  BY <1>1 DEF WaitersInv, PendingIsComputing
<1>3. WaitersHaveEntry'
  BY Zenon DEF WaitersInv, WaitersHaveEntry
<1>. QED
  BY <1>2, <1>3 DEF WaitersInv

\* A computation that settles takes its entry and its waiters with it.
LEMMA WaitersSettled ==
  ASSUME WaitersInv, NEW r \in Requests, NEW t, NEW e, Settled(r, t, e),
         req[r].pc # "wait"
  PROVE  WaitersInv'
<1>1. ASSUME NEW s \in Instances, NEW u \in Tokens, NEW q \in Requests, pending'[s][u] = q
      PROVE  Computes(q, s, u)'
  <2>1. pending[s][u] = q /\ q # r
    BY <1>1, TokensFacts DEF Settled
  <2>2. Computes(q, s, u)
    BY <2>1 DEF WaitersInv, PendingIsComputing
  <2>3. req'[q] = req[q]
    BY <2>1, <2>2 DEF Settled, Waits, Computes, Computing
  <2>. QED
    BY <2>2, <2>3 DEF Computes
<1>2. ASSUME NEW q \in Requests, NEW s \in Instances, NEW u \in Tokens,
             req'[q].pc = "wait", req'[q].at = s, req'[q].tok = u
      PROVE  pending'[s][u] # NoReq
  <2>1. q # r /\ ~Waits(q, r) /\ req'[q] = req[q]
    BY <1>2 DEF Settled
  <2>2. pending[s][u] # NoReq /\ pending[s][u] # r
    BY <1>2, <2>1 DEF WaitersInv, WaitersHaveEntry, Waits
  <2>. QED
    BY <2>2 DEF Settled
<1>. QED
  BY <1>1, <1>2 DEF WaitersInv, PendingIsComputing, WaitersHaveEntry

\* Nor does a request that begins or is over.
LEMMA WaitersStarted ==
  ASSUME WaitersInv, pending' = pending, NEW r \in Requests,
         \A q \in Requests : q # r => req'[q] = req[q],
         req[r].pc \notin Computing, req'[r].pc # "wait"
  PROVE  WaitersInv'
<1>1. ASSUME NEW s \in Instances, NEW t \in Tokens, NEW q \in Requests, pending'[s][t] = q
      PROVE  Computes(q, s, t)'
  <2>1. Computes(q, s, t)
    BY <1>1 DEF WaitersInv, PendingIsComputing
  <2>. QED
    BY <2>1 DEF Computes
<1>2. ASSUME NEW q \in Requests, NEW s \in Instances, NEW t \in Tokens,
             req'[q].pc = "wait", req'[q].at = s, req'[q].tok = t
      PROVE  pending'[s][t] # NoReq
  BY <1>2 DEF WaitersInv, WaitersHaveEntry
<1>. QED
  BY <1>1, <1>2 DEF WaitersInv, PendingIsComputing, WaitersHaveEntry

\* The pending entries stay those of computations under way.
LEMMA WaitersStep == TypeOK /\ Shape /\ WaitersInv /\ [Next]_vars => WaitersInv'
<1> SUFFICES ASSUME Reqs, Pends, Rest, Shape, WaitersInv, [Next]_vars PROVE WaitersInv'
  BY TypeParts
<1>. USE TokensFacts
<1>1. ASSUME NEW r \in Requests, ReadShared(r, "shared", "local") PROVE WaitersInv'
  <2>1. Went(r, "local") \/ Answered(r, sharedGrace[req[r].tok])
    BY <1>1, Moves
  <2>2. pending' = pending /\ req[r].pc = "shared"
    BY <1>1 DEF ReadShared, memory
  <2>. QED
    BY <1>1, <2>1, <2>2, WaitersKept DEF Moved, Went, Answered, Due, Computing, ReadShared
<1>2. ASSUME NEW r \in Requests, ReadLocal(r) PROVE WaitersInv'
  <2>1. IF Grace(r) # NoToken THEN Answered(r, Grace(r)) ELSE Went(r, "lock")
    BY <1>2, Moves
  <2>2. pending' = pending /\ req[r].pc = "local"
    BY <1>2 DEF ReadLocal, memory
  <2>. QED
    BY <1>2, <2>1, <2>2, WaitersKept DEF Moved, Went, Answered, Due, Computing, ReadLocal
<1>3. ASSUME NEW r \in Requests, TryLock(r) PROVE WaitersInv'
  <2>1. IF lock[req[r].tok] THEN Went(r, "poll")
        ELSE Moved(r, "select", "held", req[r].new, req[r].got, req[r].error)
    BY <1>3, Moves
  <2>2. pending' = pending /\ req[r].pc = "lock"
    BY <1>3 DEF TryLock, memory
  <2>. QED
    BY <1>3, <2>1, <2>2, WaitersKept DEF Moved, Went, Due, Computing, TryLock
<1>4. ASSUME NEW r \in Requests, Coalesce(r) PROVE WaitersInv'
  <2>0. /\ req[r].pc = "lock" /\ req[r].hold = "no" /\ req[r].do = "refresh"
        /\ req[r].at \in Instances /\ req[r].tok \in Tokens
    BY <1>4 DEF Coalesce, Shape, Busy
  <2>1. CASE pending[req[r].at][req[r].tok] # NoReq
    <3>1. Went(r, "wait") /\ pending' = pending
      BY <1>4, <2>1, Moves DEF Coalesce
    <3>2. ASSUME NEW s \in Instances, NEW t \in Tokens, NEW q \in Requests, pending'[s][t] = q
          PROVE  Computes(q, s, t)'
      <4>1. Computes(q, s, t)
        BY <3>1, <3>2 DEF WaitersInv, PendingIsComputing
      <4>. QED
        BY <2>0, <3>1, <4>1 DEF Computes, Computing, Went, Moved
    <3>3. ASSUME NEW q \in Requests, NEW s \in Instances, NEW t \in Tokens,
                 req'[q].pc = "wait", req'[q].at = s, req'[q].tok = t
          PROVE  pending'[s][t] # NoReq
      BY <2>1, <3>1, <3>3 DEF WaitersInv, WaitersHaveEntry, Went, Moved, SameBut
    <3>. QED
      BY <3>2, <3>3 DEF WaitersInv, PendingIsComputing, WaitersHaveEntry
  <2>2. CASE pending[req[r].at][req[r].tok] = NoReq
    <3>1. Went(r, "select")
      BY <1>4, <2>2, Moves
    <3>2. \A s \in Instances, t \in Tokens :
            pending'[s][t] = IF s = req[r].at /\ t = req[r].tok THEN r ELSE pending[s][t]
      BY <1>4, <2>0, <2>2 DEF Coalesce, Pends
    <3>3. ASSUME NEW s \in Instances, NEW t \in Tokens, NEW q \in Requests, pending'[s][t] = q
          PROVE  Computes(q, s, t)'
      <4>1. CASE s = req[r].at /\ t = req[r].tok
        BY <2>0, <3>1, <3>2, <3>3, <4>1 DEF Computes, Computing, Went, Moved, SameBut
      <4>2. CASE ~(s = req[r].at /\ t = req[r].tok)
        <5>1. Computes(q, s, t)
          BY <3>2, <3>3, <4>2 DEF WaitersInv, PendingIsComputing
        <5>. QED
          BY <2>0, <3>1, <5>1 DEF Computes, Computing, Went, Moved
      <4>. QED
        BY <4>1, <4>2
    <3>4. ASSUME NEW q \in Requests, NEW s \in Instances, NEW t \in Tokens,
                 req'[q].pc = "wait", req'[q].at = s, req'[q].tok = t
          PROVE  pending'[s][t] # NoReq
      BY <3>1, <3>2, <3>4 DEF WaitersInv, WaitersHaveEntry, Went, Moved
    <3>. QED
      BY <3>3, <3>4 DEF WaitersInv, PendingIsComputing, WaitersHaveEntry
  <2>. QED
    BY <2>1, <2>2
<1>5. ASSUME NEW r \in Requests, Poll(r) PROVE WaitersInv'
  <2>1. \/ Answered(r, Grace(r)) \/ Answered(r, sharedGrace[req[r].tok])
        \/ Answered(r, NoToken)
    BY <1>5, Moves
  <2>2. pending' = pending /\ req[r].pc = "poll"
    BY <1>5 DEF Poll, memory
  <2>. QED
    BY <1>5, <2>1, <2>2, WaitersKept DEF Moved, Answered, Due, Computing, Poll
<1>6. ASSUME NEW r \in Requests, Release(r) PROVE WaitersInv'
  <2>1. Moved(r, req[r].pc, "no", req[r].new, req[r].got, req[r].error)
    BY <1>6, Moves
  <2>2. pending' = pending /\ req[r].pc # "wait"
    BY <1>6 DEF Release, memory, Shape
  <2>. QED
    BY <2>1, <2>2, WaitersKept DEF Moved
<1>7. ASSUME NEW r \in Requests, Select(r) PROVE WaitersInv'
  <2>1. IF row[req[r].tok] = "live"
        THEN Moved(r, "revoke", Due(req[r].hold), req[r].new, req[r].got, req[r].error)
        ELSE Went(r, IF req[r].hold = "held" THEN "reshared" ELSE "relocal")
    BY <1>7, Moves
  <2>2. pending' = pending /\ req[r].pc = "select"
    BY <1>7 DEF Select, memory
  <2>. QED
    BY <1>7, <2>1, <2>2, WaitersKept DEF Moved, Went, Due, Computing, Select
<1>8. ASSUME NEW r \in Requests, ReadShared(r, "reshared", "relocal") PROVE WaitersInv'
  <2>1. Went(r, "relocal") \/ Answered(r, sharedGrace[req[r].tok])
    BY <1>8, Moves
  <2>2. pending' = pending /\ req[r].pc = "reshared"
    BY <1>8 DEF ReadShared, memory
  <2>. QED
    BY <1>8, <2>1, <2>2, WaitersKept DEF Moved, Went, Answered, Due, Computing, ReadShared
<1>9. ASSUME NEW r \in Requests, Relocal(r) PROVE WaitersInv'
  <2>1. Settled(r, Grace(r), FALSE) /\ req[r].pc # "wait"
    BY <1>9, Moves DEF Relocal
  <2>. QED
    BY <2>1, WaitersSettled
<1>10. ASSUME NEW r \in Requests, Revoke(r) PROVE WaitersInv'
  <2>1. Went(r, "clear")
    BY <1>10, Moves
  <2>2. pending' = pending /\ req[r].pc = "revoke"
    BY <1>10 DEF Revoke, memory
  <2>. QED
    BY <1>10, <2>1, <2>2, WaitersKept DEF Moved, Went, Due, Computing, Revoke
<1>11. ASSUME NEW r \in Requests, Clear(r) PROVE WaitersInv'
  <2>1. Went(r, "insert")
    BY <1>11, Moves
  <2>2. pending' = pending /\ req[r].pc = "clear"
    BY <1>11 DEF Clear, memory
  <2>. QED
    BY <1>11, <2>1, <2>2, WaitersKept DEF Moved, Went, Due, Computing, Clear
<1>12. ASSUME NEW r \in Requests, Insert(r) PROVE WaitersInv'
  <2>1. Moved(r, "prune", req[r].hold, issued + 1, req[r].got, req[r].error)
    BY <1>12, Moves
  <2>2. pending' = pending /\ req[r].pc = "insert"
    BY <1>12 DEF Insert, memory
  <2>. QED
    BY <1>12, <2>1, <2>2, WaitersKept DEF Moved, Due, Computing, Insert
<1>13. ASSUME NEW r \in Requests, Prune(r) PROVE WaitersInv'
  <2>1. Went(r, "remember")
    BY <1>13, Moves
  <2>2. pending' = pending /\ req[r].pc = "prune"
    BY <1>13 DEF Prune, memory
  <2>. QED
    BY <1>13, <2>1, <2>2, WaitersKept DEF Moved, Went, Due, Computing, Prune
<1>14. ASSUME NEW r \in Requests, Remember(r) PROVE WaitersInv'
  <2>1. Settled(r, req[r].new, FALSE) /\ req[r].pc # "wait"
    BY <1>14, Moves DEF Remember
  <2>. QED
    BY <2>1, WaitersSettled
<1>15. ASSUME NEW r \in Requests, SignOut(r) PROVE WaitersInv'
  <2>1. Answered(r, NoToken)
    BY <1>15, Moves
  <2>2. pending' = pending /\ req[r].pc = "signout"
    BY <1>15 DEF SignOut, memory
  <2>. QED
    BY <1>15, <2>1, <2>2, WaitersKept DEF Moved, Answered, Due, Computing, SignOut
<1>16. ASSUME NEW r \in Requests, Invalidate(r) PROVE WaitersInv'
  <2>1. Answered(r, NoToken)
    BY <1>16, Moves
  <2>2. pending' = pending /\ req[r].pc = "invalidate"
    BY <1>16 DEF Invalidate, memory
  <2>. QED
    BY <1>16, <2>1, <2>2, WaitersKept DEF Moved, Answered, Due, Computing, Invalidate
<1>17. ASSUME NEW r \in Requests, Deliver(r) PROVE WaitersInv'
  <2>1. /\ \A q \in Requests : q # r => req'[q] = req[q]
        /\ req'[r].pc = "idle" /\ req[r].pc = "done" /\ pending' = pending
    BY <1>17, Moves DEF Dropped, Deliver, memory
  <2>. QED
    BY <2>1, WaitersStarted DEF Computing
<1>18. ASSUME NEW r \in Requests, Client(r) PROVE WaitersInv'
  <2>1. /\ \A q \in Requests : q # r => req'[q] = req[q]
        /\ req'[r].pc # "wait" /\ req[r].pc = "idle" /\ pending' = pending
    BY <1>18, ClientMoves DEF Begun
  <2>. QED
    BY <2>1, WaitersStarted DEF Computing
<1>19. ASSUME NEW r \in Requests, Fail(r) PROVE WaitersInv'
  <2>1. Settled(r, NoToken, TRUE) /\ req[r].pc # "wait"
    BY <1>19, Moves DEF Fail
  <2>. QED
    BY <2>1, WaitersSettled
<1>20. ASSUME NEW w \in toShare, Share(w) PROVE WaitersInv'
  BY <1>20, WaitersAside DEF Share, memory
<1>21. ASSUME NEW s \in Instances, Crash(s) PROVE WaitersInv'
  <2>1. \A q \in Requests : IF req[q].at = s THEN req'[q].pc = "idle" ELSE req'[q] = req[q]
    BY <1>21, CrashMoves DEF Dropped
  <2>2. \A u \in Instances, t \in Tokens :
          pending'[u][t] = IF u = s THEN NoReq ELSE pending[u][t]
    BY <1>21 DEF Crash, Pends
  <2>3. ASSUME NEW u \in Instances, NEW t \in Tokens, NEW q \in Requests, pending'[u][t] = q
        PROVE  Computes(q, u, t)'
    <3>1. u # s /\ Computes(q, u, t)
      BY <2>2, <2>3 DEF WaitersInv, PendingIsComputing
    <3>. QED
      BY <2>1, <3>1 DEF Computes
  <2>4. ASSUME NEW q \in Requests, NEW u \in Instances, NEW t \in Tokens,
               req'[q].pc = "wait", req'[q].at = u, req'[q].tok = t
        PROVE  pending'[u][t] # NoReq
    BY <2>1, <2>2, <2>4 DEF WaitersInv, WaitersHaveEntry
  <2>. QED
    BY <2>3, <2>4 DEF WaitersInv, PendingIsComputing, WaitersHaveEntry
<1>22. ASSUME NEW t \in Tokens, LockExpires(t) PROVE WaitersInv'
  BY <1>22, WaitersAside DEF LockExpires, memory
<1>23. ASSUME NEW t \in Tokens, GraceEnds(t) PROVE WaitersInv'
  BY <1>23, WaitersAside DEF GraceEnds
<1>24. ASSUME NEW t \in Tokens, Expire(t) PROVE WaitersInv'
  BY <1>24, WaitersAside DEF Expire, memory
<1>25. CASE UNCHANGED vars
  BY <1>25, WaitersAside DEF vars
<1>. QED
  BY <1>1, <1>2, <1>3, <1>4, <1>5, <1>6, <1>7, <1>8, <1>9, <1>10, <1>11, <1>12, <1>13, <1>14, <1>15, <1>16, <1>17, <1>18, <1>19, <1>20, <1>21, <1>22, <1>23, <1>24, <1>25 DEF Next, Work, Time

\* Well-typed requests, in their stages, whose waiting has an end.
Base == TypeOK /\ Shape /\ WaitersInv

\* Base holds throughout.
LEMMA Based == Spec => []Base
<1>1. Init => Base
  BY TypeInit, ShapeInit, WaitersInit DEF Base
<1>2. Base /\ [Next]_vars => Base'
  BY TypeStep, ShapeStep, WaitersStep DEF Base
<1>. QED
  BY <1>1, <1>2, PTL DEF Spec

\* The states of the rotation are well typed: rows, copies, entries, requests.
THEOREM RefreshTyped == Spec => []TypeOK
<1>1. Base => TypeOK
  BY DEF Base
<1>. QED
  BY <1>1, Based, PTL

\* Whoever waits for a computation waits for one that is under way, in his
\* process and for his cookie.
THEOREM WaitersServed == Spec => []WaitersAreServed
<1>1. Base => WaitersAreServed
  <2> SUFFICES ASSUME Base, NEW q \in Requests, req[q].pc = "wait"
               PROVE  \E r \in Requests :
                        /\ pending[req[q].at][req[q].tok] = r
                        /\ req[r].pc \in Computing
                        /\ req[r].at = req[q].at /\ req[r].tok = req[q].tok
    BY DEF WaitersAreServed
  <2>1. Pends /\ req[q].at \in Instances /\ req[q].tok \in Tokens
    BY TypeParts DEF Base, Shape, Busy
  <2>. DEFINE r == pending[req[q].at][req[q].tok]
  <2>2. r \in Requests \cup {NoReq}
    BY <2>1 DEF Pends
  <2>3. r # NoReq
    BY <2>1 DEF Base, WaitersInv, WaitersHaveEntry
  <2>4. Computes(r, req[q].at, req[q].tok)
    BY <2>1, <2>2, <2>3 DEF Base, WaitersInv, PendingIsComputing
  <2>. QED
    BY <2>2, <2>3, <2>4 DEF Computes
<1>. QED
  BY <1>1, Based, PTL

-----------------------------------------------------------------------------
(* A session ended for good *)

\* Initially there is one live token, not exchanged and not ended.
LEMMA EndedInit == Init => EndedInv
<1> SUFFICES ASSUME Init PROVE EndedInv
  OBVIOUS
<1>1. issued = 1 /\ Known = {1} /\ closed = {}
  BY DEF Init, Known
<1>2. /\ \A t \in Tokens : row[t] # "none" => t = 1
      /\ \A t \in Tokens : made[t] = {}
      /\ \A r \in Requests, t \in Tokens : ~Exchanges(r, t)
  BY DEF Init, Exchanges, Idle, Fresh
<1>. QED
  BY <1>1, <1>2 DEF EndedInv

\* A step that revives no row, ends a token for good only when nobody exchanges
\* it, and starts no exchange.
RowsFall == \A t \in Tokens : \/ row'[t] = row[t]
                              \/ row[t] # "none" /\ row'[t] # "live"
ClosedDuly == \A t \in closed' :
  \/ t \in closed
  \/ t \in Tokens /\ row[t] = "live" /\ row'[t] # "live" /\ ~\E r \in Requests : Exchanges(r, t)
NoneStarts == \A r \in Requests, t \in Tokens : Exchanges(r, t)' =>
  /\ Exchanges(r, t)
  /\ req'[r].pc = "revoke" \/ req[r].pc # "revoke" \/ row'[t] # "live"

\* A step that takes request r to a stage outside the exchange starts none.
LEMMA NoneStartsHere ==
  ASSUME NEW r \in Requests, req'[r].pc \notin ExchangeStages,
         \A q \in Requests : q # r => req'[q] = req[q]
  PROVE  NoneStarts
BY DEF NoneStarts, Exchanges, ExchangeStages

\* Nor does one that settles a computation.
LEMMA NoneStartsSettled ==
  ASSUME NEW r \in Requests, NEW t, NEW e, Settled(r, t, e)
  PROVE  NoneStarts
<1>1. \A q \in Requests : req'[q] = req[q] \/ req'[q].pc = "done"
  BY DEF Settled
<1>. QED
  BY <1>1 DEF NoneStarts, Exchanges, ExchangeStages

\* The tokens of S end, and those nobody exchanges for good.
LEMMA EndsDuly ==
  ASSUME NEW S \in SUBSET Tokens, End(S), \A t \in S : row[t] = "live" /\ row'[t] # "live"
  PROVE  ClosedDuly /\ made' = made
<1>1. \A t \in Tokens : Exchanging(t) = {} <=> ~\E r \in Requests : Exchanges(r, t)
  BY DEF Exchanging, Exchanges, ExchangeStages
<1>. QED
  BY <1>1 DEF End, ClosedDuly

Quiet == RowsFall /\ ClosedDuly /\ NoneStarts /\ issued' = issued /\ made' = made

\* A step that leaves rows, tokens and histories alone and starts no exchange.
LEMMA QuietAside ==
  ASSUME NoneStarts, UNCHANGED <<row, issued, made, closed>>
  PROVE  Quiet
BY DEF Quiet, RowsFall, ClosedDuly

\* An exchange starts when the row is found live.
Starts(r) == Select(r) /\ row[req[r].tok] = "live"

\* Every other step but an insertion is quiet.
LEMMA QuietSteps ==
  Reqs /\ Pends /\ Rest /\ Shape /\ [Next]_vars =>
    Quiet \/ \E r \in Requests : Starts(r) \/ Insert(r)
<1> SUFFICES ASSUME Reqs, Pends, Rest, Shape, [Next]_vars,
                    \A r \in Requests : ~Starts(r) /\ ~Insert(r)
             PROVE  Quiet
  OBVIOUS
<1>. USE TokensFacts
<1>1. ASSUME NEW r \in Requests, ReadShared(r, "shared", "local") PROVE Quiet
  <2>1. Went(r, "local") \/ Answered(r, sharedGrace[req[r].tok])
    BY <1>1, Moves
  <2>2. NoneStarts
    BY <2>1, NoneStartsHere DEF Moved, Went, Answered, ExchangeStages
  <2>. QED
    BY <1>1, <2>2, QuietAside DEF ReadShared, db, history
<1>2. ASSUME NEW r \in Requests, ReadLocal(r) PROVE Quiet
  <2>1. IF Grace(r) # NoToken THEN Answered(r, Grace(r)) ELSE Went(r, "lock")
    BY <1>2, Moves
  <2>2. NoneStarts
    BY <2>1, NoneStartsHere DEF Moved, Went, Answered, ExchangeStages
  <2>. QED
    BY <1>2, <2>2, QuietAside DEF ReadLocal, db, history
<1>3. ASSUME NEW r \in Requests, TryLock(r) PROVE Quiet
  <2>1. IF lock[req[r].tok] THEN Went(r, "poll")
        ELSE Moved(r, "select", "held", req[r].new, req[r].got, req[r].error)
    BY <1>3, Moves
  <2>2. NoneStarts
    BY <2>1, NoneStartsHere DEF Moved, Went, ExchangeStages
  <2>. QED
    BY <1>3, <2>2, QuietAside DEF TryLock, db, history
<1>4. ASSUME NEW r \in Requests, Coalesce(r) PROVE Quiet
  <2>1. IF pending[req[r].at][req[r].tok] # NoReq THEN Went(r, "wait")
        ELSE Went(r, "select")
    BY <1>4, Moves
  <2>2. NoneStarts
    BY <2>1, NoneStartsHere DEF Moved, Went, ExchangeStages
  <2>. QED
    BY <1>4, <2>2, QuietAside DEF Coalesce, db, history
<1>5. ASSUME NEW r \in Requests, Poll(r) PROVE Quiet
  <2>1. \/ Answered(r, Grace(r)) \/ Answered(r, sharedGrace[req[r].tok])
        \/ Answered(r, NoToken)
    BY <1>5, Moves
  <2>2. NoneStarts
    BY <2>1, NoneStartsHere DEF Moved, Answered, ExchangeStages
  <2>. QED
    BY <1>5, <2>2, QuietAside DEF Poll, db, history
<1>6. ASSUME NEW r \in Requests, Release(r) PROVE Quiet
  <2>1. Moved(r, req[r].pc, "no", req[r].new, req[r].got, req[r].error)
    BY <1>6, Moves
  <2>2. NoneStarts
    BY <2>1 DEF Moved, SameBut, NoneStarts, Exchanges
  <2>. QED
    BY <1>6, <2>2, QuietAside DEF Release, db, history
<1>7. ASSUME NEW r \in Requests, Select(r) PROVE Quiet
  <2>1. req[r].pc = "select" /\ UNCHANGED <<row, issued, made, closed>>
    BY <1>7 DEF Select, db, history
  <2>2. NoneStarts
    BY <1>7, Moves, NoneStartsHere DEF Starts, Went, Moved, ExchangeStages
  <2>. QED
    BY <2>1, <2>2, QuietAside
<1>8. ASSUME NEW r \in Requests, ReadShared(r, "reshared", "relocal") PROVE Quiet
  <2>1. Went(r, "relocal") \/ Answered(r, sharedGrace[req[r].tok])
    BY <1>8, Moves
  <2>2. NoneStarts
    BY <2>1, NoneStartsHere DEF Moved, Went, Answered, ExchangeStages
  <2>. QED
    BY <1>8, <2>2, QuietAside DEF ReadShared, db, history
<1>9. ASSUME NEW r \in Requests, Relocal(r) PROVE Quiet
  <2>1. NoneStarts
    BY <1>9, Moves, NoneStartsSettled
  <2>. QED
    BY <1>9, <2>1, QuietAside DEF Relocal, db, history
<1>10. ASSUME NEW r \in Requests, Revoke(r) PROVE Quiet
  <2>1. Went(r, "clear")
    BY <1>10, Moves
  <2>2. /\ req[r].pc = "revoke" /\ UNCHANGED <<issued, made, closed>>
        /\ \A t \in Tokens : row'[t] = IF t = req[r].tok /\ row[t] = "live" THEN "revoked"
                                       ELSE row[t]
    BY <1>10 DEF Revoke, Rest, history
  <2>3. NoneStarts
    BY <2>1, <2>2 DEF Went, Moved, SameBut, NoneStarts, Exchanges, ExchangeStages
  <2>4. RowsFall /\ ClosedDuly
    BY <2>2 DEF RowsFall, ClosedDuly
  <2>. QED
    BY <2>2, <2>3, <2>4 DEF Quiet
<1>11. ASSUME NEW r \in Requests, Clear(r) PROVE Quiet
  <2>1. Went(r, "insert")
    BY <1>11, Moves
  <2>2. /\ req[r].pc = "clear" /\ UNCHANGED <<issued, made, closed>>
        /\ \A t \in Tokens : row'[t] = IF row[t] = "revoked" THEN "none" ELSE row[t]
    BY <1>11 DEF Clear, Rest, history
  <2>3. NoneStarts
    BY <2>1, <2>2 DEF Went, Moved, SameBut, NoneStarts, Exchanges, ExchangeStages
  <2>4. RowsFall /\ ClosedDuly
    BY <2>2 DEF RowsFall, ClosedDuly
  <2>. QED
    BY <2>2, <2>3, <2>4 DEF Quiet
<1>12. ASSUME NEW r \in Requests, Insert(r) PROVE Quiet
  BY <1>12
<1>13. ASSUME NEW r \in Requests, Prune(r) PROVE Quiet
  <2>. DEFINE S == {t \in Live : Cardinality(Newer(t)) >= MaxSlots}
  <2>1. S \in SUBSET Tokens /\ End(S)
    BY <1>13 DEF Prune, Live
  <2>2. RowsFall /\ issued' = issued /\ \A t \in S : row[t] = "live" /\ row'[t] # "live"
    BY <1>13 DEF Prune, Live, RowsFall, Rest
  <2>. HIDE DEF S
  <2>3. ClosedDuly /\ made' = made
    BY <2>1, <2>2, EndsDuly
  <2>4. NoneStarts
    BY <1>13, Moves, NoneStartsHere DEF Moved, Went, ExchangeStages
  <2>. QED
    BY <2>2, <2>3, <2>4 DEF Quiet
<1>14. ASSUME NEW r \in Requests, Remember(r) PROVE Quiet
  <2>1. NoneStarts
    BY <1>14, Moves, NoneStartsSettled
  <2>. QED
    BY <1>14, <2>1, QuietAside DEF Remember, db, history
<1>15. ASSUME NEW r \in Requests, SignOut(r) PROVE Quiet
  <2>. DEFINE S == Live \cap {req[r].tok}
  <2>1. S \in SUBSET Tokens /\ End(S)
    BY <1>15 DEF SignOut, Live
  <2>2. RowsFall /\ issued' = issued /\ \A t \in S : row[t] = "live" /\ row'[t] # "live"
    BY <1>15 DEF SignOut, Live, RowsFall, Rest
  <2>. HIDE DEF S
  <2>3. ClosedDuly /\ made' = made
    BY <2>1, <2>2, EndsDuly
  <2>4. NoneStarts
    BY <1>15, Moves, NoneStartsHere DEF Moved, Answered, ExchangeStages
  <2>. QED
    BY <2>2, <2>3, <2>4 DEF Quiet
<1>16. ASSUME NEW r \in Requests, Invalidate(r) PROVE Quiet
  <2>. DEFINE S == Live
  <2>1. S \in SUBSET Tokens /\ End(S)
    BY <1>16 DEF Invalidate, Live
  <2>2. RowsFall /\ issued' = issued /\ \A t \in S : row[t] = "live" /\ row'[t] # "live"
    BY <1>16 DEF Invalidate, Live, RowsFall, Rest
  <2>. HIDE DEF S
  <2>3. ClosedDuly /\ made' = made
    BY <2>1, <2>2, EndsDuly
  <2>4. NoneStarts
    BY <1>16, Moves, NoneStartsHere DEF Moved, Answered, ExchangeStages
  <2>. QED
    BY <2>2, <2>3, <2>4 DEF Quiet
<1>17. ASSUME NEW r \in Requests, Deliver(r) PROVE Quiet
  <2>1. NoneStarts
    BY <1>17, Moves, NoneStartsHere DEF Dropped, ExchangeStages
  <2>. QED
    BY <1>17, <2>1, QuietAside DEF Deliver, db, history
<1>18. ASSUME NEW r \in Requests, Client(r) PROVE Quiet
  <2>1. /\ \A q \in Requests : q # r => req'[q] = req[q]
        /\ req'[r].do = "refresh" => req'[r].pc = "shared"
        /\ UNCHANGED <<row, issued, made, closed>>
    BY <1>18, ClientMoves DEF Begun
  <2>2. NoneStarts
    BY <2>1 DEF NoneStarts, Exchanges, ExchangeStages
  <2>. QED
    BY <2>1, <2>2, QuietAside
<1>19. ASSUME NEW r \in Requests, Fail(r) PROVE Quiet
  <2>1. NoneStarts
    BY <1>19, Moves, NoneStartsSettled
  <2>. QED
    BY <1>19, <2>1, QuietAside DEF Fail, db, history
<1>20. ASSUME NEW w \in toShare, Share(w) PROVE Quiet
  <2>1. NoneStarts
    BY <1>20 DEF NoneStarts, Exchanges, Share, db, history
  <2>. QED
    BY <1>20, <2>1, QuietAside DEF Share, db, history
<1>21. ASSUME NEW s \in Instances, Crash(s) PROVE Quiet
  <2>1. \A q \in Requests : req'[q].pc = "idle" \/ req'[q] = req[q]
    BY <1>21, CrashMoves DEF Dropped
  <2>2. NoneStarts
    BY <2>1 DEF NoneStarts, Exchanges, ExchangeStages
  <2>. QED
    BY <1>21, <2>2, QuietAside DEF Crash, db
<1>22. ASSUME NEW t \in Tokens, LockExpires(t) PROVE Quiet
  <2>1. NoneStarts
    BY <1>22 DEF NoneStarts, Exchanges, LockExpires, db, history
  <2>. QED
    BY <1>22, <2>1, QuietAside DEF LockExpires, db, history
<1>23. ASSUME NEW t \in Tokens, GraceEnds(t) PROVE Quiet
  <2>1. NoneStarts
    BY <1>23 DEF NoneStarts, Exchanges, GraceEnds, db
  <2>. QED
    BY <1>23, <2>1, QuietAside DEF GraceEnds, db
<1>24. ASSUME NEW t \in Tokens, Expire(t) PROVE Quiet
  <2>. DEFINE S == {t}
  <2>1. S \in SUBSET Tokens /\ End(S)
    BY <1>24 DEF Expire
  <2>2. RowsFall /\ issued' = issued /\ \A u \in S : row[u] = "live" /\ row'[u] # "live"
    BY <1>24 DEF Expire, Live, RowsFall, Rest
  <2>. HIDE DEF S
  <2>3. ClosedDuly /\ made' = made
    BY <2>1, <2>2, EndsDuly
  <2>4. NoneStarts
    BY <1>24 DEF Expire, NoneStarts, Exchanges
  <2>. QED
    BY <2>2, <2>3, <2>4 DEF Quiet
<1>25. CASE UNCHANGED vars
  <2>1. NoneStarts
    BY <1>25 DEF NoneStarts, Exchanges, vars
  <2>. QED
    BY <1>25, <2>1, QuietAside DEF vars
<1>. QED
  BY <1>1, <1>2, <1>3, <1>4, <1>5, <1>6, <1>7, <1>8, <1>9, <1>10, <1>11, <1>12, <1>13, <1>14, <1>15, <1>16, <1>17, <1>18, <1>19, <1>20, <1>21, <1>22, <1>23, <1>24, <1>25 DEF Next, Work, Time

\* A quiet step keeps the invariant.
LEMMA EndedKept ==
  ASSUME EndedInv, Quiet
  PROVE  EndedInv'
<1>. USE DEF Quiet
<1>1. Known' = Known
  BY DEF Known
<1>2. \A t \in Tokens : row'[t] # "none" => row[t] # "none"
  BY DEF RowsFall
<1>3. ASSUME NEW t \in Tokens, row'[t] # "none" \/ made'[t] # {} \/ t \in closed'
      PROVE  t \in Known
  BY <1>2, <1>3 DEF EndedInv, ClosedDuly
<1>4. ASSUME NEW r \in Requests, NEW t \in Tokens, Exchanges(r, t)'
      PROVE  t \in Known /\ (req'[r].pc # "revoke" => row'[t] # "live")
  BY <1>4 DEF EndedInv, NoneStarts, RowsFall
<1>5. ASSUME NEW t \in Tokens, made'[t] # {} PROVE row'[t] # "live"
  BY <1>5 DEF EndedInv, RowsFall
<1>6. ASSUME NEW t \in Tokens, t \in closed'
      PROVE  made'[t] = {} /\ row'[t] # "live" /\ \A r \in Requests : ~Exchanges(r, t)'
  BY <1>6 DEF EndedInv, ClosedDuly, RowsFall, NoneStarts
<1>. QED
  BY <1>1, <1>3, <1>4, <1>5, <1>6 DEF EndedInv

\* Finding a row live starts the exchange of a token that was never exchanged.
LEMMA EndedStarts ==
  ASSUME Reqs, Pends, Rest, Shape, EndedInv, NEW r \in Requests, Starts(r)
  PROVE  /\ EndedInv' /\ made' = made /\ pending' = pending
         /\ \A q \in Requests, t \in Tokens : Exchanges(q, t)' =>
              Exchanges(q, t) \/ row[t] = "live"
<1>0. /\ req[r].tok \in Tokens /\ req[r].pc = "select" /\ row[req[r].tok] = "live"
      /\ UNCHANGED <<row, issued, made, closed, pending>>
  BY DEF Starts, Select, Shape, Busy, db, history, memory
<1>1. /\ \A q \in Requests : q # r => req'[q] = req[q]
      /\ req'[r].tok = req[r].tok /\ req'[r].pc = "revoke"
  BY Moves DEF Starts, Moved, SameBut
<1>2. ASSUME NEW q \in Requests, NEW t \in Tokens, Exchanges(q, t)'
      PROVE  \/ Exchanges(q, t) /\ req'[q] = req[q]
             \/ row[t] = "live" /\ req'[q].pc = "revoke"
  <2>1. CASE q = r
    BY <1>0, <1>1, <1>2, <2>1 DEF Exchanges
  <2>2. CASE q # r
    BY <1>1, <1>2, <2>2 DEF Exchanges
  <2>. QED
    BY <2>1, <2>2
<1>3. Known' = Known
  BY <1>0 DEF Known
<1>4. EndedInv'
  BY <1>0, <1>2, <1>3 DEF EndedInv
<1>. QED
  BY <1>0, <1>2, <1>4

\* What an insertion does to the histories.
LEMMA InsertFacts ==
  ASSUME Reqs, Pends, Rest, Shape, NEW r \in Requests, Insert(r)
  PROVE  /\ NoneStarts /\ ~\E t \in Tokens : Exchanges(r, t)'
         /\ issued + 1 \in Tokens /\ issued + 1 \notin Known
         /\ issued' = issued + 1 /\ issued + 1 \in Known'
         /\ \A t \in Tokens : t \in Known => t \in Known'
         /\ \A t \in Tokens : t \in Known' => t \in Known \/ t = issued + 1
         /\ req[r].pc = "insert" /\ closed' = closed /\ pending' = pending
         /\ \A t \in Tokens : row'[t] = IF t = issued + 1 THEN "live" ELSE row[t]
         /\ \A t \in Tokens : made'[t] = IF Exchanges(r, t) THEN made[t] \cup {issued + 1}
                                         ELSE made[t]
<1>. USE TokensFacts
<1>1. /\ \A q \in Requests : q # r => req'[q] = req[q]
      /\ req'[r].pc = "prune"
  BY Moves DEF Moved
<1>2. NoneStarts
  BY <1>1, NoneStartsHere DEF ExchangeStages
<1>3. ~\E t \in Tokens : Exchanges(r, t)'
  BY <1>1 DEF Exchanges, ExchangeStages
<1>4. /\ issued \in Nat /\ issued' = issued + 1 /\ issued + 1 \in Tokens
      /\ req[r].pc = "insert" /\ closed' = closed /\ pending' = pending
  BY DEF Insert, Rest, memory
<1>5. issued + 1 \notin Known
  BY <1>4 DEF Known
<1>6. \A t : t \in 1..issued \/ t = issued + 1 => t \in 1..(issued + 1)
  BY <1>4
<1>7. \A t : t \in Known \/ t = issued + 1 => t \in Known'
  BY <1>4, <1>6 DEF Known
<1>10. \A t : t \in 1..(issued + 1) => t \in 1..issued \/ t = issued + 1
  BY <1>4
<1>11. \A t : t \in Known' => t \in Known \/ t = issued + 1
  BY <1>4, <1>10 DEF Known
<1>8. \A t \in Tokens : row'[t] = IF t = issued + 1 THEN "live" ELSE row[t]
  BY DEF Insert, Rest
<1>9. \A t \in Tokens : made'[t] = IF Exchanges(r, t) THEN made[t] \cup {issued + 1}
                                   ELSE made[t]
  BY <1>4 DEF Insert, Rest, Exchanges, ExchangeStages
<1>. QED
  BY <1>2, <1>3, <1>4, <1>5, <1>7, <1>8, <1>9, <1>11

\* No step revives a session that has ended for good.
LEMMA EndedStep == Reqs /\ Pends /\ Rest /\ Shape /\ EndedInv /\ [Next]_vars => EndedInv'
<1> SUFFICES ASSUME Reqs, Pends, Rest, Shape, EndedInv, [Next]_vars PROVE EndedInv'
  OBVIOUS
<1>1. CASE Quiet
  BY <1>1, EndedKept
<1>2. ASSUME NEW r \in Requests, Starts(r) PROVE EndedInv'
  BY <1>2, EndedStarts
<1>3. ASSUME NEW r \in Requests, Insert(r) PROVE EndedInv'
  <2>. DEFINE n == issued + 1
  <2>. HIDE DEF n
  <2>1. /\ NoneStarts /\ n \in Tokens /\ n \notin Known /\ n \in Known'
        /\ \A t \in Tokens : t \in Known => t \in Known'
        /\ req[r].pc = "insert" /\ closed' = closed
        /\ \A t \in Tokens : row'[t] = IF t = n THEN "live" ELSE row[t]
        /\ \A t \in Tokens : made'[t] # {} => made[t] # {} \/ Exchanges(r, t)
    BY <1>3, InsertFacts DEF n
  <2>6. \A t \in Tokens : t \in Known => t # n /\ row'[t] = row[t]
    BY <2>1
  <2>7. ASSUME NEW t \in Tokens, row'[t] # "none" \/ made'[t] # {} \/ t \in closed'
        PROVE  t \in Known'
    <3>1. \/ row[t] # "none" \/ made[t] # {} \/ t \in closed
          \/ Exchanges(r, t) \/ t = n
      BY <2>1, <2>7
    <3>2. t \in Known \/ t = n
      BY <3>1 DEF EndedInv
    <3>. QED
      BY <2>1, <3>2
  <2>8. ASSUME NEW q \in Requests, NEW t \in Tokens, Exchanges(q, t)'
        PROVE  t \in Known' /\ (req'[q].pc # "revoke" => row'[t] # "live")
    BY <2>1, <2>6, <2>8 DEF EndedInv, NoneStarts
  <2>9. ASSUME NEW t \in Tokens, made'[t] # {} PROVE row'[t] # "live"
    BY <2>1, <2>6, <2>9 DEF EndedInv
  <2>10. ASSUME NEW t \in Tokens, t \in closed'
         PROVE  made'[t] = {} /\ row'[t] # "live" /\ \A q \in Requests : ~Exchanges(q, t)'
    BY <2>1, <2>6, <2>10 DEF EndedInv, NoneStarts
  <2>. QED
    BY <2>7, <2>8, <2>9, <2>10 DEF EndedInv
<1>. QED
  BY <1>1, <1>2, <1>3, QuietSteps
\* No request that comes after a session was ended turns its token into another
\* one, whichever lock it takes and whichever copy it reads.
THEOREM EndsForGood == Spec => []EndedForGood
<1>1. Init => EndedInv
  BY EndedInit
<1>2. Base /\ EndedInv /\ [Next]_vars => EndedInv'
  BY EndedStep, TypeParts DEF Base
<1>3. Base /\ EndedInv => EndedForGood
  BY DEF Base, TypeOK, EndedInv, EndedForGood
<1>. QED
  BY <1>1, <1>2, <1>3, Based, PTL DEF Spec

-----------------------------------------------------------------------------
(* One computation, where there is one process without Redis *)

\* Initially nobody computes.
LEMMA AloneInit == Init => AloneInv
BY DEF Init, AloneInv, Computes, Computing, Idle, Fresh

\* A request that goes on, but not into a computation, disturbs nobody's.
LEMMA AloneKept ==
  ASSUME AloneInv, UNCHANGED <<deployed, pending>>, NEW r \in Requests,
         \A q \in Requests : q # r => req'[q] = req[q],
         ~deployed.redis => req'[r].pc \notin {"poll", "reshared"} /\ req'[r].hold = "no",
         \A s \in Instances, t \in Tokens : Computes(r, s, t)' => Computes(r, s, t)
  PROVE  AloneInv'
<1> SUFFICES ASSUME ~deployed.redis PROVE AloneInv'
  BY DEF AloneInv
<1>1. ASSUME NEW q \in Requests PROVE req'[q].pc \notin {"poll", "reshared"} /\ req'[q].hold = "no"
  BY DEF AloneInv
<1>2. ASSUME NEW q \in Requests, NEW s \in Instances, NEW t \in Tokens, Computes(q, s, t)'
      PROVE  pending'[s][t] = q
  <2>1. Computes(q, s, t)
    BY <1>2 DEF Computes
  <2>. QED
    BY <2>1 DEF AloneInv
<1>. QED
  BY <1>1, <1>2 DEF AloneInv

\* Nor does a step that leaves requests and entries alone.
LEMMA AloneAside == AloneInv /\ UNCHANGED <<deployed, req, pending>> => AloneInv'
<1> SUFFICES ASSUME AloneInv, UNCHANGED <<deployed, req, pending>> PROVE AloneInv'
  OBVIOUS
<1>1. \A q \in Requests, s \in Instances, t \in Tokens : Computes(q, s, t)' => Computes(q, s, t)
  BY DEF Computes
<1>. QED
  BY <1>1 DEF AloneInv

\* A computation that settles leaves the others theirs.
LEMMA AloneSettled ==
  ASSUME AloneInv, deployed' = deployed, NEW r \in Requests, NEW t, NEW e, Settled(r, t, e)
  PROVE  AloneInv'
<1> SUFFICES ASSUME ~deployed.redis PROVE AloneInv'
  BY DEF AloneInv
<1>1. ASSUME NEW q \in Requests PROVE req'[q].pc \notin {"poll", "reshared"} /\ req'[q].hold = "no"
  BY DEF AloneInv, Settled, Due
<1>2. ASSUME NEW q \in Requests, NEW s \in Instances, NEW u \in Tokens, Computes(q, s, u)'
      PROVE  pending'[s][u] = q
  <2>1. q # r /\ req'[q] = req[q]
    BY <1>2 DEF Settled, Computes, Computing
  <2>2. Computes(q, s, u)
    BY <1>2, <2>1 DEF Computes
  <2>3. pending[s][u] = q
    BY <2>2 DEF AloneInv
  <2>. QED
    BY <2>1, <2>3 DEF Settled
<1>. QED
  BY <1>1, <1>2 DEF AloneInv

\* Every computation is the pending one of its process.
LEMMA AloneStep == TypeOK /\ Shape /\ AloneInv /\ [Next]_vars => AloneInv'
<1> SUFFICES ASSUME Reqs, Pends, Rest, Shape, AloneInv, [Next]_vars PROVE AloneInv'
  BY TypeParts
<1>. USE TokensFacts
<1>1. ASSUME NEW r \in Requests, ReadShared(r, "shared", "local") PROVE AloneInv'
  <2>1. Went(r, "local") \/ Answered(r, sharedGrace[req[r].tok])
    BY <1>1, Moves
  <2>2. UNCHANGED <<deployed, pending>> /\ req[r].pc = "shared"
    BY <1>1 DEF ReadShared, memory
  <2>3. ~deployed.redis => req[r].hold = "no"
    BY DEF AloneInv
  <2>4. ~deployed.redis => req'[r].pc \notin {"poll", "reshared"} /\ req'[r].hold = "no"
    BY <2>1, <2>2, <2>3 DEF Moved, Went, Answered, Due
  <2>5. \A s \in Instances, t \in Tokens : Computes(r, s, t)' => Computes(r, s, t)
    BY <2>1, <2>2 DEF Moved, Went, Answered, SameBut, Due, Computes, Computing, Shape
  <2>. QED
    BY <2>1, <2>2, <2>4, <2>5, AloneKept DEF Moved, Went, Answered
<1>2. ASSUME NEW r \in Requests, ReadLocal(r) PROVE AloneInv'
  <2>1. IF Grace(r) # NoToken THEN Answered(r, Grace(r)) ELSE Went(r, "lock")
    BY <1>2, Moves
  <2>2. UNCHANGED <<deployed, pending>> /\ req[r].pc = "local"
    BY <1>2 DEF ReadLocal, memory
  <2>3. ~deployed.redis => req[r].hold = "no"
    BY DEF AloneInv
  <2>4. ~deployed.redis => req'[r].pc \notin {"poll", "reshared"} /\ req'[r].hold = "no"
    BY <2>1, <2>2, <2>3 DEF Moved, Went, Answered, Due
  <2>5. \A s \in Instances, t \in Tokens : Computes(r, s, t)' => Computes(r, s, t)
    BY <2>1, <2>2 DEF Moved, Went, Answered, SameBut, Due, Computes, Computing, Shape
  <2>. QED
    BY <2>1, <2>2, <2>4, <2>5, AloneKept DEF Moved, Went, Answered
<1>3. ASSUME NEW r \in Requests, TryLock(r) PROVE AloneInv'
  <2>1. deployed.redis /\ UNCHANGED <<deployed, pending>>
    BY <1>3 DEF TryLock, memory
  <2>. QED
    BY <2>1 DEF AloneInv
<1>4. ASSUME NEW r \in Requests, Coalesce(r) PROVE AloneInv'
  <2>0. /\ req[r].pc = "lock" /\ req[r].hold = "no" /\ deployed' = deployed
        /\ req[r].at \in Instances /\ req[r].tok \in Tokens
    BY <1>4 DEF Coalesce, Shape, Busy
  <2>1. CASE pending[req[r].at][req[r].tok] # NoReq
    <3>1. Went(r, "wait") /\ pending' = pending
      BY <1>4, <2>1, Moves DEF Coalesce
    <3>. QED
      BY <2>0, <3>1, AloneKept DEF Went, Moved, Computes, Computing
  <2>2. CASE pending[req[r].at][req[r].tok] = NoReq
    <3>1. Went(r, "select")
      BY <1>4, <2>2, Moves
    <3>2. \A s \in Instances, t \in Tokens :
            pending'[s][t] = IF s = req[r].at /\ t = req[r].tok THEN r ELSE pending[s][t]
      BY <1>4, <2>0, <2>2 DEF Coalesce, Pends
    <3> SUFFICES ASSUME ~deployed.redis PROVE AloneInv'
      BY <2>0 DEF AloneInv
    <3>3. ASSUME NEW q \in Requests PROVE req'[q].pc \notin {"poll", "reshared"} /\ req'[q].hold = "no"
      BY <2>0, <3>1 DEF AloneInv, Went, Moved
    <3>4. ASSUME NEW q \in Requests, NEW s \in Instances, NEW t \in Tokens, Computes(q, s, t)'
          PROVE  pending'[s][t] = q
      <4>1. CASE q = r
        BY <3>1, <3>2, <3>4, <4>1 DEF Went, Moved, SameBut, Computes
      <4>2. CASE q # r
        <5>1. Computes(q, s, t)
          BY <3>1, <3>4, <4>2 DEF Went, Moved, Computes
        <5>2. pending[s][t] = q
          BY <5>1 DEF AloneInv
        <5>. QED
          BY <2>2, <3>2, <5>2
      <4>. QED
        BY <4>1, <4>2
    <3>. QED
      BY <3>3, <3>4 DEF AloneInv
  <2>. QED
    BY <2>1, <2>2
<1>5. ASSUME NEW r \in Requests, Poll(r) PROVE AloneInv'
  <2>1. \/ Answered(r, Grace(r)) \/ Answered(r, sharedGrace[req[r].tok])
        \/ Answered(r, NoToken)
    BY <1>5, Moves
  <2>2. UNCHANGED <<deployed, pending>> /\ req[r].pc = "poll"
    BY <1>5 DEF Poll, memory
  <2>3. ~deployed.redis => req[r].hold = "no"
    BY DEF AloneInv
  <2>4. ~deployed.redis => req'[r].pc \notin {"poll", "reshared"} /\ req'[r].hold = "no"
    BY <2>1, <2>2, <2>3 DEF Moved, Answered, Due
  <2>5. \A s \in Instances, t \in Tokens : Computes(r, s, t)' => Computes(r, s, t)
    BY <2>1, <2>2 DEF Moved, Answered, SameBut, Due, Computes, Computing, Shape
  <2>. QED
    BY <2>1, <2>2, <2>4, <2>5, AloneKept DEF Moved, Answered
<1>6. ASSUME NEW r \in Requests, Release(r) PROVE AloneInv'
  <2>1. deployed' = deployed /\ req[r].hold = "due"
    BY <1>6 DEF Release
  <2>. QED
    BY <2>1 DEF AloneInv
<1>7. ASSUME NEW r \in Requests, Select(r) PROVE AloneInv'
  <2>1. IF row[req[r].tok] = "live"
        THEN Moved(r, "revoke", Due(req[r].hold), req[r].new, req[r].got, req[r].error)
        ELSE Went(r, IF req[r].hold = "held" THEN "reshared" ELSE "relocal")
    BY <1>7, Moves
  <2>2. UNCHANGED <<deployed, pending>> /\ req[r].pc = "select"
    BY <1>7 DEF Select, memory
  <2>3. ~deployed.redis => req[r].hold = "no"
    BY DEF AloneInv
  <2>4. ~deployed.redis => req'[r].pc \notin {"poll", "reshared"} /\ req'[r].hold = "no"
    BY <2>1, <2>2, <2>3 DEF Moved, Went, Due
  <2>5. \A s \in Instances, t \in Tokens : Computes(r, s, t)' => Computes(r, s, t)
    BY <2>1, <2>2 DEF Moved, Went, SameBut, Due, Computes, Computing, Shape
  <2>. QED
    BY <2>1, <2>2, <2>4, <2>5, AloneKept DEF Moved, Went
<1>8. ASSUME NEW r \in Requests, ReadShared(r, "reshared", "relocal") PROVE AloneInv'
  <2>1. deployed' = deployed /\ req[r].pc = "reshared"
    BY <1>8 DEF ReadShared
  <2>. QED
    BY <2>1 DEF AloneInv
<1>9. ASSUME NEW r \in Requests, Relocal(r) PROVE AloneInv'
  BY <1>9, Moves, AloneSettled DEF Relocal
<1>10. ASSUME NEW r \in Requests, Revoke(r) PROVE AloneInv'
  <2>1. Went(r, "clear")
    BY <1>10, Moves
  <2>2. UNCHANGED <<deployed, pending>> /\ req[r].pc = "revoke"
    BY <1>10 DEF Revoke, memory
  <2>3. ~deployed.redis => req[r].hold = "no"
    BY DEF AloneInv
  <2>4. ~deployed.redis => req'[r].pc \notin {"poll", "reshared"} /\ req'[r].hold = "no"
    BY <2>1, <2>2, <2>3 DEF Moved, Went, Due
  <2>5. \A s \in Instances, t \in Tokens : Computes(r, s, t)' => Computes(r, s, t)
    BY <2>1, <2>2 DEF Moved, Went, SameBut, Due, Computes, Computing, Shape
  <2>. QED
    BY <2>1, <2>2, <2>4, <2>5, AloneKept DEF Moved, Went
<1>11. ASSUME NEW r \in Requests, Clear(r) PROVE AloneInv'
  <2>1. Went(r, "insert")
    BY <1>11, Moves
  <2>2. UNCHANGED <<deployed, pending>> /\ req[r].pc = "clear"
    BY <1>11 DEF Clear, memory
  <2>3. ~deployed.redis => req[r].hold = "no"
    BY DEF AloneInv
  <2>4. ~deployed.redis => req'[r].pc \notin {"poll", "reshared"} /\ req'[r].hold = "no"
    BY <2>1, <2>2, <2>3 DEF Moved, Went, Due
  <2>5. \A s \in Instances, t \in Tokens : Computes(r, s, t)' => Computes(r, s, t)
    BY <2>1, <2>2 DEF Moved, Went, SameBut, Due, Computes, Computing, Shape
  <2>. QED
    BY <2>1, <2>2, <2>4, <2>5, AloneKept DEF Moved, Went
<1>12. ASSUME NEW r \in Requests, Insert(r) PROVE AloneInv'
  <2>1. Moved(r, "prune", req[r].hold, issued + 1, req[r].got, req[r].error)
    BY <1>12, Moves
  <2>2. UNCHANGED <<deployed, pending>> /\ req[r].pc = "insert"
    BY <1>12 DEF Insert, memory
  <2>3. ~deployed.redis => req[r].hold = "no"
    BY DEF AloneInv
  <2>4. ~deployed.redis => req'[r].pc \notin {"poll", "reshared"} /\ req'[r].hold = "no"
    BY <2>1, <2>2, <2>3 DEF Moved, Due
  <2>5. \A s \in Instances, t \in Tokens : Computes(r, s, t)' => Computes(r, s, t)
    BY <2>1, <2>2 DEF Moved, SameBut, Due, Computes, Computing, Shape
  <2>. QED
    BY <2>1, <2>2, <2>4, <2>5, AloneKept DEF Moved
<1>13. ASSUME NEW r \in Requests, Prune(r) PROVE AloneInv'
  <2>1. Went(r, "remember")
    BY <1>13, Moves
  <2>2. UNCHANGED <<deployed, pending>> /\ req[r].pc = "prune"
    BY <1>13 DEF Prune, memory
  <2>3. ~deployed.redis => req[r].hold = "no"
    BY DEF AloneInv
  <2>4. ~deployed.redis => req'[r].pc \notin {"poll", "reshared"} /\ req'[r].hold = "no"
    BY <2>1, <2>2, <2>3 DEF Moved, Went, Due
  <2>5. \A s \in Instances, t \in Tokens : Computes(r, s, t)' => Computes(r, s, t)
    BY <2>1, <2>2 DEF Moved, Went, SameBut, Due, Computes, Computing, Shape
  <2>. QED
    BY <2>1, <2>2, <2>4, <2>5, AloneKept DEF Moved, Went
<1>14. ASSUME NEW r \in Requests, Remember(r) PROVE AloneInv'
  BY <1>14, Moves, AloneSettled DEF Remember
<1>15. ASSUME NEW r \in Requests, SignOut(r) PROVE AloneInv'
  <2>1. Answered(r, NoToken)
    BY <1>15, Moves
  <2>2. UNCHANGED <<deployed, pending>> /\ req[r].pc = "signout"
    BY <1>15 DEF SignOut, memory
  <2>3. ~deployed.redis => req[r].hold = "no"
    BY DEF AloneInv
  <2>4. ~deployed.redis => req'[r].pc \notin {"poll", "reshared"} /\ req'[r].hold = "no"
    BY <2>1, <2>2, <2>3 DEF Moved, Answered, Due
  <2>5. \A s \in Instances, t \in Tokens : Computes(r, s, t)' => Computes(r, s, t)
    BY <2>1, <2>2 DEF Moved, Answered, SameBut, Due, Computes, Computing, Shape
  <2>. QED
    BY <2>1, <2>2, <2>4, <2>5, AloneKept DEF Moved, Answered
<1>16. ASSUME NEW r \in Requests, Invalidate(r) PROVE AloneInv'
  <2>1. Answered(r, NoToken)
    BY <1>16, Moves
  <2>2. UNCHANGED <<deployed, pending>> /\ req[r].pc = "invalidate"
    BY <1>16 DEF Invalidate, memory
  <2>3. ~deployed.redis => req[r].hold = "no"
    BY DEF AloneInv
  <2>4. ~deployed.redis => req'[r].pc \notin {"poll", "reshared"} /\ req'[r].hold = "no"
    BY <2>1, <2>2, <2>3 DEF Moved, Answered, Due
  <2>5. \A s \in Instances, t \in Tokens : Computes(r, s, t)' => Computes(r, s, t)
    BY <2>1, <2>2 DEF Moved, Answered, SameBut, Due, Computes, Computing, Shape
  <2>. QED
    BY <2>1, <2>2, <2>4, <2>5, AloneKept DEF Moved, Answered
<1>17. ASSUME NEW r \in Requests, Deliver(r) PROVE AloneInv'
  <2>1. /\ \A q \in Requests : q # r => req'[q] = req[q]
        /\ req'[r].pc = "idle" /\ req'[r].hold = "no" /\ UNCHANGED <<deployed, pending>>
    BY <1>17, Moves DEF Dropped, Deliver, memory
  <2>. QED
    BY <2>1, AloneKept DEF Computes, Computing
<1>18. ASSUME NEW r \in Requests, Client(r) PROVE AloneInv'
  <2>1. /\ \A q \in Requests : q # r => req'[q] = req[q]
        /\ req'[r].do = "refresh" => req'[r].pc = "shared"
        /\ req'[r].pc \notin {"poll", "reshared"} /\ req'[r].hold = "no" /\ UNCHANGED <<deployed, pending>>
    BY <1>18, ClientMoves DEF Begun
  <2>. QED
    BY <2>1, AloneKept DEF Computes, Computing
<1>19. ASSUME NEW r \in Requests, Fail(r) PROVE AloneInv'
  BY <1>19, Moves, AloneSettled DEF Fail
<1>20. ASSUME NEW w \in toShare, Share(w) PROVE AloneInv'
  BY <1>20, AloneAside DEF Share, memory
<1>21. ASSUME NEW s \in Instances, Crash(s) PROVE AloneInv'
  <2>1. \A q \in Requests : IF req[q].at = s THEN req'[q].pc = "idle" /\ req'[q].hold = "no"
                            ELSE req'[q] = req[q]
    BY <1>21, CrashMoves DEF Dropped
  <2>2. \A u \in Instances, t \in Tokens : u # s => pending'[u][t] = pending[u][t]
    BY <1>21 DEF Crash, Pends
  <2>3. deployed' = deployed
    BY <1>21 DEF Crash
  <2> SUFFICES ASSUME ~deployed.redis PROVE AloneInv'
    BY <2>3 DEF AloneInv
  <2>4. ASSUME NEW q \in Requests PROVE req'[q].pc \notin {"poll", "reshared"} /\ req'[q].hold = "no"
    BY <2>1 DEF AloneInv
  <2>5. ASSUME NEW q \in Requests, NEW u \in Instances, NEW t \in Tokens, Computes(q, u, t)'
        PROVE  pending'[u][t] = q
    <3>1. u # s /\ Computes(q, u, t)
      BY <2>1, <2>5 DEF Computes, Computing
    <3>2. pending[u][t] = q
      BY <3>1 DEF AloneInv
    <3>. QED
      BY <2>2, <3>1, <3>2
  <2>. QED
    BY <2>4, <2>5 DEF AloneInv
<1>22. ASSUME NEW t \in Tokens, LockExpires(t) PROVE AloneInv'
  BY <1>22, AloneAside DEF LockExpires, memory
<1>23. ASSUME NEW t \in Tokens, GraceEnds(t) PROVE AloneInv'
  BY <1>23, AloneAside DEF GraceEnds
<1>24. ASSUME NEW t \in Tokens, Expire(t) PROVE AloneInv'
  BY <1>24, AloneAside DEF Expire, memory
<1>25. CASE UNCHANGED vars
  BY <1>25, AloneAside DEF vars
<1>. QED
  BY <1>1, <1>2, <1>3, <1>4, <1>5, <1>6, <1>7, <1>8, <1>9, <1>10, <1>11, <1>12, <1>13, <1>14, <1>15, <1>16, <1>17, <1>18, <1>19, <1>20, <1>21, <1>22, <1>23, <1>24, <1>25 DEF Next, Work, Time

\* Two that compute the successor of one token in the one process are the same.
LEMMA SoleComputation ==
  ASSUME Shape, AloneInv, Alone, NEW q \in Requests, NEW r \in Requests, NEW t \in Tokens,
         req[q].do = "refresh", req[q].pc \in Computing, req[q].tok = t,
         req[r].do = "refresh", req[r].pc \in Computing, req[r].tok = t
  PROVE  q = r
<1>1. PICK s \in Instances : deployed.at = {s} /\ ~deployed.redis
  BY DEF Alone
<1>2. req[q].pc # "idle" /\ req[r].pc # "idle"
  BY DEF Computing
<1>3. req[q].at = s /\ req[r].at = s
  BY <1>1, <1>2 DEF Shape
<1>4. Computes(q, s, t) /\ Computes(r, s, t)
  BY <1>1, <1>3 DEF Computes, AloneInv
<1>. QED
  BY <1>1, <1>4 DEF AloneInv

\* The deployment stays as it is.
LEMMA DeploymentStays == [Next]_vars => deployed' = deployed
<1>1. ASSUME NEW r \in Requests, Work(r) PROVE deployed' = deployed
  BY <1>1 DEF Work, ReadShared, ReadLocal, TryLock, Coalesce, Poll, Release, Select, Relocal,
              Revoke, Clear, Insert, Prune, Remember, SignOut, Invalidate
<1>2. ASSUME NEW r \in Requests, Deliver(r) \/ Client(r) \/ Fail(r) PROVE deployed' = deployed
  BY <1>2, Zenon DEF Deliver, Client, SendRefresh, SendLogin, SendLogout, SendPassword, Begin, Fail
<1>3. ASSUME NEW w \in toShare, Share(w) PROVE deployed' = deployed
  BY <1>3 DEF Share
<1>4. ASSUME NEW s \in Instances, Crash(s) PROVE deployed' = deployed
  BY <1>4 DEF Crash
<1>5. CASE Time
  BY <1>5 DEF Time, LockExpires, GraceEnds, Expire
<1>6. CASE UNCHANGED vars
  BY <1>6 DEF vars
<1>. QED
  BY <1>1, <1>2, <1>3, <1>4, <1>5, <1>6 DEF Next

\* Initially nothing has been exchanged.
LEMMA OnceInit == Init => OnceInv
BY DEF Init, OnceInv, Exchanges, Idle, Fresh

\* Alone, the one process exchanges a token once.
LEMMA OnceStep ==
  TypeOK /\ Shape /\ EndedInv /\ AloneInv /\ OnceInv /\ [Next]_vars => OnceInv'
<1> SUFFICES ASSUME TypeOK, Reqs, Pends, Rest, Shape, EndedInv, AloneInv, OnceInv,
                    [Next]_vars, Alone, deployed' = deployed
             PROVE  OnceInv'
  <2>. QED
    BY DeploymentStays, TypeParts DEF OnceInv, Alone
<1>1. CASE Quiet
  BY <1>1 DEF Quiet, NoneStarts, OnceInv
<1>2. ASSUME NEW r \in Requests, Starts(r) PROVE OnceInv'
  <2>1. /\ made' = made
        /\ \A q \in Requests, t \in Tokens : Exchanges(q, t)' =>
             Exchanges(q, t) \/ row[t] = "live"
    BY <1>2, EndedStarts
  <2>. QED
    BY <2>1 DEF OnceInv, EndedInv
<1>3. ASSUME NEW r \in Requests, Insert(r) PROVE OnceInv'
  <2>. DEFINE n == issued + 1
  <2>. HIDE DEF n
  <2>1. /\ NoneStarts /\ ~\E t \in Tokens : Exchanges(r, t)'
        /\ \A t \in Tokens : made'[t] = IF Exchanges(r, t) THEN made[t] \cup {n} ELSE made[t]
    BY <1>3, InsertFacts DEF n
  <2>2. ASSUME NEW t \in Tokens, NEW q \in Requests, Exchanges(q, t)'
        PROVE  made'[t] = {}
    <3>1. q # r /\ Exchanges(q, t)
      BY <2>1, <2>2 DEF NoneStarts
    <3>2. ~Exchanges(r, t)
      BY <3>1, SoleComputation DEF Exchanges, ExchangeStages, Computing
    <3>. QED
      BY <2>1, <3>1, <3>2 DEF OnceInv
  <2>3. ASSUME NEW t \in Tokens, NEW m \in made'[t], NEW k \in made'[t]
        PROVE  m = k
    <3>1. CASE Exchanges(r, t)
      <4>1. made[t] = {}
        BY <3>1 DEF OnceInv
      <4>2. made'[t] = {n}
        BY <2>1, <3>1, <4>1
      <4>3. m \in {n} /\ k \in {n}
        BY <4>2, <2>3
      <4>. QED
        BY <4>3
    <3>2. CASE ~Exchanges(r, t)
      BY <2>1, <2>3, <3>2 DEF OnceInv
    <3>. QED
      BY <3>1, <3>2
  <2>. QED
    BY <2>2, <2>3 DEF OnceInv
<1>. QED
  BY <1>1, <1>2, <1>3, QuietSteps

\* A set without two different members has at most one.
LEMMA AtMostOne ==
  ASSUME NEW S, \A m, n \in S : m = n
  PROVE  Cardinality(S) <= 1
<1>1. CASE S = {}
  BY <1>1, FS_EmptySet
<1>2. CASE S # {}
  <2>1. PICK m : S = {m}
    BY <1>2
  <2>2. Cardinality({m}) = 1
    BY FS_Singleton
  <2>. QED
    BY <2>1, <2>2
<1>. QED
  BY <1>1, <1>2

\* Parallel refreshes of one cookie in the one process are one computation: no
\* token is exchanged twice, however the requests overlap, fail or crash.
THEOREM OneComputationOnce == Spec => []OneComputationAlone
<1>. DEFINE Ind == EndedInv /\ AloneInv /\ OnceInv
<1>1. Init => Ind
  BY EndedInit, AloneInit, OnceInit
<1>2. Base /\ Ind /\ [Next]_vars => Ind'
  BY EndedStep, AloneStep, OnceStep, TypeParts DEF Base
<1>3. Ind => OneComputationAlone
  BY AtMostOne DEF OnceInv, OneComputationAlone, OneComputation
<1>. QED
  BY <1>1, <1>2, <1>3, Based, PTL DEF Spec

-----------------------------------------------------------------------------
(* Whom a refresh signs out, where there is one process without Redis *)

\* Initially only token 1 is kept anywhere.
LEMMA BoundedInit == Init => Bounded
<1> SUFFICES ASSUME Init PROVE Bounded
  OBVIOUS
<1>1. 1 \in KnownOrNone /\ NoToken \in KnownOrNone
  BY DEF Init, Known, KnownOrNone
<1>2. \A d \in Devices : cookie[d] \in {1, NoToken}
  BY DEF Init
<1>3. CopiesBounded
  BY <1>1, <1>2 DEF Init, CopiesBounded
<1>4. \A r \in Requests : BoundedRequest(r)
  BY <1>1 DEF Init, BoundedRequest, Idle, Fresh
<1>. QED
  BY <1>3, <1>4 DEF Bounded

\* A step that leaves the copies alone and moves request r.
LEMMA BoundedMoved ==
  ASSUME Bounded, UNCHANGED <<cookie, sharedGrace, localGrace, toShare, issued>>,
         NEW r \in Requests, NEW p, NEW h, NEW n, NEW t, NEW e, Moved(r, p, h, n, t, e),
         n \in KnownOrNone, t \in KnownOrNone
  PROVE  Bounded'
<1>1. KnownOrNone' = KnownOrNone
  BY DEF Known, KnownOrNone
<1>2. ASSUME NEW q \in Requests PROVE BoundedRequest(q)'
  <2>1. CASE q = r
    BY <1>1, <2>1 DEF Bounded, BoundedRequest, Moved, SameBut
  <2>2. CASE q # r
    BY <1>1, <2>2 DEF Bounded, BoundedRequest, Moved
  <2>. QED
    BY <2>1, <2>2
<1>3. CopiesBounded'
  BY <1>1 DEF Bounded, CopiesBounded, Known
<1>. QED
  BY <1>2, <1>3 DEF Bounded

\* What settling leaves of a request.
LEMMA SettledFields ==
  ASSUME NEW r, NEW t, NEW e, Settled(r, t, e), NEW q \in Requests
  PROVE  \/ req'[q] = req[q]
         \/ /\ req'[q].tok = req[q].tok /\ req'[q].new = req[q].new
            /\ req'[q].got = t
<1>1. \/ req'[q] = req[q]
      \/ SameBut(q) /\ req'[q].new = req[q].new /\ req'[q].got = t
  BY DEF Settled
<1>. QED
  BY <1>1 DEF SameBut

\* A step that answers some requests with a token already issued, or drops them.
LEMMA BoundedAnswers ==
  ASSUME Bounded, issued' = issued, CopiesBounded', NEW t \in KnownOrNone,
         \A q \in Requests : \/ req'[q] = req[q]
                             \/ /\ req'[q].tok = req[q].tok \/ req'[q].tok = NoToken
                                /\ req'[q].new = req[q].new \/ req'[q].new = NoToken
                                /\ req'[q].got \in {t, NoToken}
  PROVE  Bounded'
<1>1. KnownOrNone' = KnownOrNone /\ NoToken \in KnownOrNone
  BY DEF Known, KnownOrNone
<1>2. ASSUME NEW q \in Requests PROVE BoundedRequest(q)'
  BY <1>1 DEF Bounded, BoundedRequest
<1>. QED
  BY <1>2 DEF Bounded

\* The tokens a request may be answered with are issued.
LEMMA BoundedFields ==
  ASSUME Bounded, Rest, Shape, NEW r \in Requests
  PROVE  /\ req[r].tok \in KnownOrNone /\ req[r].new \in KnownOrNone
         /\ req[r].got \in KnownOrNone /\ NoToken \in KnownOrNone
         /\ req[r].pc \in Busy => Grace(r) \in KnownOrNone
                                  /\ sharedGrace[req[r].tok] \in KnownOrNone
<1>1. req[r].pc \in Busy => req[r].tok \in Tokens /\ req[r].at \in Instances
  BY DEF Shape
<1>. QED
  BY <1>1 DEF Bounded, BoundedRequest, CopiesBounded, Grace, KnownOrNone

\* Whatever is kept, sent or answered has been issued.
LEMMA BoundedStep == TypeOK /\ Shape /\ Bounded /\ [Next]_vars => Bounded'
<1> SUFFICES ASSUME Reqs, Pends, Rest, Shape, Bounded, [Next]_vars PROVE Bounded'
  BY TypeParts
<1>. USE TokensFacts, BoundedFields
<1>0. issued' = issued => KnownOrNone' = KnownOrNone
  BY DEF Known, KnownOrNone
<1>1. ASSUME NEW r \in Requests, ReadShared(r, "shared", "local") PROVE Bounded'
  <2>1. Went(r, "local") \/ Answered(r, sharedGrace[req[r].tok])
    BY <1>1, Moves
  <2>2. UNCHANGED <<cookie, sharedGrace, localGrace, toShare, issued>> /\ req[r].pc \in Stages
    BY <1>1, Fields DEF ReadShared, db, redis, memory
  <2>. QED
    BY <1>1, <2>1, <2>2, BoundedMoved DEF Busy, ReadShared, Went, Answered
<1>2. ASSUME NEW r \in Requests, ReadLocal(r) PROVE Bounded'
  <2>1. IF Grace(r) # NoToken THEN Answered(r, Grace(r)) ELSE Went(r, "lock")
    BY <1>2, Moves
  <2>2. UNCHANGED <<cookie, sharedGrace, localGrace, toShare, issued>> /\ req[r].pc \in Stages
    BY <1>2, Fields DEF ReadLocal, db, redis, memory
  <2>. QED
    BY <1>2, <2>1, <2>2, BoundedMoved DEF Busy, ReadLocal, Went, Answered
<1>3. ASSUME NEW r \in Requests, TryLock(r) PROVE Bounded'
  <2>1. IF lock[req[r].tok] THEN Went(r, "poll")
        ELSE Moved(r, "select", "held", req[r].new, req[r].got, req[r].error)
    BY <1>3, Moves
  <2>2. UNCHANGED <<cookie, sharedGrace, localGrace, toShare, issued>> /\ req[r].pc \in Stages
    BY <1>3, Fields DEF TryLock, db, redis, memory
  <2>. QED
    BY <1>3, <2>1, <2>2, BoundedMoved DEF Busy, TryLock, Went
<1>4. ASSUME NEW r \in Requests, Coalesce(r) PROVE Bounded'
  <2>1. IF pending[req[r].at][req[r].tok] # NoReq THEN Went(r, "wait")
        ELSE Went(r, "select")
    BY <1>4, Moves
  <2>2. UNCHANGED <<cookie, sharedGrace, localGrace, toShare, issued>> /\ req[r].pc \in Stages
    BY <1>4, Fields DEF Coalesce, db, redis, memory
  <2>. QED
    BY <1>4, <2>1, <2>2, BoundedMoved DEF Busy, Coalesce, Went
<1>5. ASSUME NEW r \in Requests, Poll(r) PROVE Bounded'
  <2>1. \/ Answered(r, Grace(r)) \/ Answered(r, sharedGrace[req[r].tok])
        \/ Answered(r, NoToken)
    BY <1>5, Moves
  <2>2. UNCHANGED <<cookie, sharedGrace, localGrace, toShare, issued>> /\ req[r].pc \in Stages
    BY <1>5, Fields DEF Poll, db, redis, memory
  <2>. QED
    BY <1>5, <2>1, <2>2, BoundedMoved DEF Busy, Poll, Answered
<1>6. ASSUME NEW r \in Requests, Release(r) PROVE Bounded'
  <2>1. Moved(r, req[r].pc, "no", req[r].new, req[r].got, req[r].error)
    BY <1>6, Moves
  <2>2. UNCHANGED <<cookie, sharedGrace, localGrace, toShare, issued>> /\ req[r].pc \in Stages
    BY <1>6, Fields DEF Release, db, redis, memory
  <2>. QED
    BY <1>6, <2>1, <2>2, BoundedMoved DEF Busy, Release
<1>7. ASSUME NEW r \in Requests, Select(r) PROVE Bounded'
  <2>1. IF row[req[r].tok] = "live"
        THEN Moved(r, "revoke", Due(req[r].hold), req[r].new, req[r].got, req[r].error)
        ELSE Went(r, IF req[r].hold = "held" THEN "reshared" ELSE "relocal")
    BY <1>7, Moves
  <2>2. UNCHANGED <<cookie, sharedGrace, localGrace, toShare, issued>> /\ req[r].pc \in Stages
    BY <1>7, Fields DEF Select, db, redis, memory
  <2>. QED
    BY <1>7, <2>1, <2>2, BoundedMoved DEF Busy, Select, Went
<1>8. ASSUME NEW r \in Requests, ReadShared(r, "reshared", "relocal") PROVE Bounded'
  <2>1. Went(r, "relocal") \/ Answered(r, sharedGrace[req[r].tok])
    BY <1>8, Moves
  <2>2. UNCHANGED <<cookie, sharedGrace, localGrace, toShare, issued>> /\ req[r].pc \in Stages
    BY <1>8, Fields DEF ReadShared, db, redis, memory
  <2>. QED
    BY <1>8, <2>1, <2>2, BoundedMoved DEF Busy, ReadShared, Went, Answered
<1>9. ASSUME NEW r \in Requests, Relocal(r) PROVE Bounded'
  <2>0. Grace(r) \in KnownOrNone /\ issued' = issued
    BY <1>9 DEF Relocal, Busy, db
  <2>1. Settled(r, Grace(r), FALSE)
    BY <1>9, Moves
  <2>7. CopiesBounded'
    BY <1>9, <1>0 DEF Bounded, CopiesBounded, Relocal, db, redis, Known
  <2>8. \A q \in Requests : \/ req'[q] = req[q]
                              \/ /\ req'[q].tok = req[q].tok /\ req'[q].new = req[q].new
                                 /\ req'[q].got = Grace(r)
    BY <2>1, SettledFields
  <2>. QED
    BY <2>0, <2>7, <2>8, BoundedAnswers
<1>10. ASSUME NEW r \in Requests, Revoke(r) PROVE Bounded'
  <2>1. Went(r, "clear")
    BY <1>10, Moves
  <2>2. UNCHANGED <<cookie, sharedGrace, localGrace, toShare, issued>> /\ req[r].pc \in Stages
    BY <1>10, Fields DEF Revoke, db, redis, memory
  <2>. QED
    BY <1>10, <2>1, <2>2, BoundedMoved DEF Busy, Revoke, Went
<1>11. ASSUME NEW r \in Requests, Clear(r) PROVE Bounded'
  <2>1. Went(r, "insert")
    BY <1>11, Moves
  <2>2. UNCHANGED <<cookie, sharedGrace, localGrace, toShare, issued>> /\ req[r].pc \in Stages
    BY <1>11, Fields DEF Clear, db, redis, memory
  <2>. QED
    BY <1>11, <2>1, <2>2, BoundedMoved DEF Busy, Clear, Went
<1>12. ASSUME NEW r \in Requests, Insert(r) PROVE Bounded'
  <2>. DEFINE n == issued + 1
  <2>1. Moved(r, "prune", req[r].hold, n, req[r].got, req[r].error)
    BY <1>12, Moves
  <2>. HIDE DEF n
  <2>2. n \in Known' /\ \A t \in Tokens : t \in Known => t \in Known'
    BY <1>12, InsertFacts DEF n
  <2>3. UNCHANGED <<cookie, sharedGrace, localGrace, toShare>>
    BY <1>12 DEF Insert, redis, memory
  <2>4. /\ \A d \in Devices : cookie[d] \in Tokens \cup {NoToken}
        /\ \A t \in Tokens : sharedGrace[t] \in Tokens \cup {NoToken}
        /\ \A s \in Instances, t \in Tokens : localGrace[s][t] \in Tokens \cup {NoToken}
        /\ \A w \in toShare : w[3] \in Tokens
    BY DEF Rest
  <2>5. \A t \in Tokens \cup {NoToken} : t \in KnownOrNone => t \in KnownOrNone'
    BY <2>2 DEF KnownOrNone
  <2>6. CopiesBounded'
    BY <2>2, <2>3, <2>4, <2>5 DEF Bounded, CopiesBounded
  <2>7. n \in KnownOrNone'
    BY <2>2 DEF KnownOrNone
  <2>8. ASSUME NEW q \in Requests PROVE BoundedRequest(q)'
    <3>1. /\ req[q].tok \in Tokens \cup {NoToken} /\ req[q].new \in Tokens \cup {NoToken}
          /\ req[q].got \in Tokens \cup {NoToken}
      BY Fields
    <3>2. /\ req'[q].tok = req[q].tok /\ req'[q].got = req[q].got
          /\ req'[q].new \in {req[q].new, n}
      BY <2>1 DEF Moved, SameBut
    <3>. QED
      BY <2>5, <2>7, <3>1, <3>2 DEF BoundedRequest
  <2>. QED
    BY <2>6, <2>8 DEF Bounded
<1>13. ASSUME NEW r \in Requests, Prune(r) PROVE Bounded'
  <2>1. Went(r, "remember")
    BY <1>13, Moves
  <2>2. UNCHANGED <<cookie, sharedGrace, localGrace, toShare, issued>> /\ req[r].pc \in Stages
    BY <1>13, Fields DEF Prune, db, redis, memory
  <2>. QED
    BY <1>13, <2>1, <2>2, BoundedMoved DEF Busy, Prune, Went
<1>14. ASSUME NEW r \in Requests, Remember(r) PROVE Bounded'
  <2>0. req[r].new \in KnownOrNone /\ issued' = issued
    BY <1>14 DEF Remember, Busy, db
  <2>1. Settled(r, req[r].new, FALSE)
    BY <1>14, Moves
  <2>2. req[r].do = "refresh" => req[r].tok \in Tokens /\ req[r].at \in Instances
    BY DEF Shape
  <2>3. req[r].do = "refresh" => req[r].new \in Known
    BY <1>14 DEF Remember, Shape, Bounded, BoundedRequest, KnownOrNone
  <2>4. \A w \in toShare' : w \in toShare \/ w[3] \in Known
    BY <1>14, <2>3 DEF Remember
  <2>5. \A s \in Instances, t \in Tokens :
          localGrace'[s][t] \in {localGrace[s][t], req[r].new}
    BY <1>14 DEF Remember, Rest
  <2>6. UNCHANGED <<cookie, sharedGrace>> /\ Known' = Known
    BY <1>14 DEF Remember, db, redis, Known
  <2>7. CopiesBounded'
    BY <1>0, <2>0, <2>4, <2>5, <2>6 DEF Bounded, CopiesBounded
  <2>8. \A q \in Requests : \/ req'[q] = req[q]
                              \/ /\ req'[q].tok = req[q].tok /\ req'[q].new = req[q].new
                                 /\ req'[q].got = req[r].new
    BY <2>1, SettledFields
  <2>. QED
    BY <2>0, <2>7, <2>8, BoundedAnswers
<1>15. ASSUME NEW r \in Requests, SignOut(r) PROVE Bounded'
  <2>1. Answered(r, NoToken)
    BY <1>15, Moves
  <2>2. UNCHANGED <<cookie, sharedGrace, localGrace, toShare, issued>> /\ req[r].pc \in Stages
    BY <1>15, Fields DEF SignOut, db, redis, memory
  <2>. QED
    BY <1>15, <2>1, <2>2, BoundedMoved DEF Busy, SignOut, Answered
<1>16. ASSUME NEW r \in Requests, Invalidate(r) PROVE Bounded'
  <2>1. Answered(r, NoToken)
    BY <1>16, Moves
  <2>2. UNCHANGED <<cookie, sharedGrace, localGrace, toShare, issued>> /\ req[r].pc \in Stages
    BY <1>16, Fields DEF Invalidate, db, redis, memory
  <2>. QED
    BY <1>16, <2>1, <2>2, BoundedMoved DEF Busy, Invalidate, Answered
<1>17. ASSUME NEW r \in Requests, Deliver(r) PROVE Bounded'
  <2>1. Dropped({r})
    BY <1>17, Moves
  <2>2. issued' = issued /\ UNCHANGED <<sharedGrace, localGrace, toShare>>
    BY <1>17 DEF Deliver, db, redis, memory
  <2>3. \A d \in Devices : cookie'[d] \in {cookie[d], req[r].got}
    BY <1>17 DEF Deliver, Rest
  <2>4. CopiesBounded'
    BY <1>0, <2>2, <2>3 DEF Bounded, CopiesBounded, Known
  <2>. QED
    BY <2>1, <2>2, <2>4, BoundedAnswers DEF Dropped
<1>18. ASSUME NEW r \in Requests, Client(r) PROVE Bounded'
  <2>1. PICK s \in Instances, t \in Tokens \cup {NoToken} :
          /\ \A q \in Requests : q # r => req'[q] = req[q]
          /\ req'[r].tok = t /\ req'[r].new = NoToken /\ req'[r].got = NoToken
          /\ t = NoToken \/ \E d \in Devices : t = cookie[d]
          /\ UNCHANGED <<cookie, sharedGrace, localGrace, toShare, issued>>
    BY <1>18, ClientMoves DEF Begun
  <2>2. t \in KnownOrNone
    BY <2>1 DEF Bounded, CopiesBounded
  <2>3. ASSUME NEW q \in Requests PROVE BoundedRequest(q)'
    BY <1>0, <2>1, <2>2 DEF Bounded, BoundedRequest
  <2>. QED
    BY <1>0, <2>1, <2>3 DEF Bounded, CopiesBounded, Known
<1>19. ASSUME NEW r \in Requests, Fail(r) PROVE Bounded'
  <2>0. NoToken \in KnownOrNone /\ issued' = issued
    BY <1>19 DEF Fail, Busy, db
  <2>1. Settled(r, NoToken, TRUE)
    BY <1>19, Moves
  <2>7. CopiesBounded'
    BY <1>19, <1>0 DEF Bounded, CopiesBounded, Fail, db, redis, Known
  <2>8. \A q \in Requests : \/ req'[q] = req[q]
                              \/ /\ req'[q].tok = req[q].tok /\ req'[q].new = req[q].new
                                 /\ req'[q].got = NoToken
    BY <2>1, SettledFields
  <2>. QED
    BY <2>0, <2>7, <2>8, BoundedAnswers
<1>20. ASSUME NEW w \in toShare, Share(w) PROVE Bounded'
  <2>1. /\ UNCHANGED <<req, issued, cookie, localGrace>> /\ toShare' \subseteq toShare
        /\ w[3] \in Known
        /\ \A t \in Tokens : sharedGrace'[t] \in {sharedGrace[t], w[3]}
    BY <1>20 DEF Share, Rest, db, memory, Bounded, CopiesBounded
  <2>2. CopiesBounded'
    BY <1>0, <2>1 DEF Bounded, CopiesBounded, Known, KnownOrNone
  <2>. QED
    BY <2>1, <2>2, BoundedAnswers DEF KnownOrNone
<1>21. ASSUME NEW s \in Instances, Crash(s) PROVE Bounded'
  <2>1. ASSUME NEW q \in Requests
        PROVE  \/ req'[q] = req[q]
               \/ req'[q].tok = NoToken /\ req'[q].new = NoToken /\ req'[q].got = NoToken
    <3>1. Dropped({x \in Requests : req[x].at = s})
      BY <1>21, CrashMoves
    <3>. QED
      BY <3>1 DEF Dropped
  <2>2. /\ issued' = issued /\ UNCHANGED <<cookie, sharedGrace>> /\ toShare' \subseteq toShare
        /\ \A u \in Instances, t \in Tokens : localGrace'[u][t] \in {localGrace[u][t], NoToken}
    BY <1>21 DEF Crash, db, redis, Rest
  <2>3. NoToken \in KnownOrNone
    BY DEF KnownOrNone
  <2>4. CopiesBounded'
    BY <1>0, <2>2, <2>3 DEF Bounded, CopiesBounded, Known
  <2>. QED
    BY <2>1, <2>2, <2>3, <2>4, BoundedAnswers
<1>22. ASSUME NEW t \in Tokens, LockExpires(t) PROVE Bounded'
  <2>1. UNCHANGED <<req, issued, cookie, sharedGrace, localGrace, toShare>>
    BY <1>22 DEF LockExpires, db, memory
  <2>2. CopiesBounded'
    BY <1>0, <2>1 DEF Bounded, CopiesBounded, Known
  <2>. QED
    BY <2>1, <2>2, BoundedAnswers DEF KnownOrNone
<1>23. ASSUME NEW t \in Tokens, GraceEnds(t) PROVE Bounded'
  <2>1. UNCHANGED <<req, issued, cookie, toShare>>
    BY <1>23 DEF GraceEnds, db
  <2>3. /\ \A u \in Tokens : sharedGrace'[u] \in {sharedGrace[u], NoToken}
        /\ \A s \in Instances, u \in Tokens : localGrace'[s][u] \in {localGrace[s][u], NoToken}
    BY <1>23 DEF GraceEnds, Rest
  <2>4. NoToken \in KnownOrNone
    BY DEF KnownOrNone
  <2>2. CopiesBounded'
    BY <1>0, <2>1, <2>3, <2>4 DEF Bounded, CopiesBounded, Known
  <2>. QED
    BY <2>1, <2>2, BoundedAnswers DEF KnownOrNone
<1>24. ASSUME NEW t \in Tokens, Expire(t) PROVE Bounded'
  <2>1. UNCHANGED <<req, issued, cookie, sharedGrace, localGrace, toShare>>
    BY <1>24 DEF Expire, redis, memory
  <2>2. CopiesBounded'
    BY <1>0, <2>1 DEF Bounded, CopiesBounded, Known
  <2>. QED
    BY <2>1, <2>2, BoundedAnswers DEF KnownOrNone
<1>25. CASE UNCHANGED vars
  <2>1. UNCHANGED <<req, issued, cookie, sharedGrace, localGrace, toShare>>
    BY <1>25 DEF vars
  <2>2. CopiesBounded'
    BY <1>0, <2>1 DEF Bounded, CopiesBounded, Known
  <2>. QED
    BY <2>1, <2>2, BoundedAnswers DEF KnownOrNone
<1>. QED
  BY <1>1, <1>2, <1>3, <1>4, <1>5, <1>6, <1>7, <1>8, <1>9, <1>10, <1>11, <1>12, <1>13, <1>14, <1>15, <1>16, <1>17, <1>18, <1>19, <1>20, <1>21, <1>22, <1>23, <1>24, <1>25 DEF Next, Work, Time

\* Initially the one known token is live.
LEMMA GoneInit == Init => GoneInv
<1> SUFFICES ASSUME Init PROVE GoneInv
  OBVIOUS
<1>1. issued = 1 /\ Known = {1} /\ row[1] = "live"
  BY TokensFacts DEF Init, Known
<1>2. \A r \in Requests : req[r].pc = "idle"
  BY DEF Init, Idle, Fresh
<1>. QED
  BY <1>1, <1>2 DEF GoneInv, Going, InFlight, Refused, LooksAgain, TurnedAway

\* What a step has to leave as it is for the invariant to hold after it.
LEMMA GoneKept ==
  ASSUME GoneInv, Alone,
         \A t \in Tokens : Explained(t) => Explained(t)',
         \A t \in Tokens : Copied(t) => Vouched(t)',
         \A t \in Tokens : t \in Known' /\ row'[t] # "live" =>
           \/ t \in Known /\ row[t] # "live"
           \/ Explained(t)' \/ Going(t)',
         \A r \in Requests, t \in Tokens : InFlight(r, t) => InFlight(r, t)' \/ Vouched(t)',
         \A r \in Requests, t \in Tokens : LooksAgain(r, t)' => LooksAgain(r, t) \/ Vouched(t)',
         \A r \in Requests, t \in Tokens : TurnedAway(r, t)' => TurnedAway(r, t) \/ Explained(t)'
  PROVE  GoneInv'
<1>1. \A t \in Tokens : Vouched(t) => Vouched(t)'
  BY DEF Vouched
<1>5. \A t \in Tokens : Going(t) => Going(t)' \/ Vouched(t)'
  BY DEF Going
<1>2. ASSUME NEW t \in Tokens, t \in Known', row'[t] # "live"
      PROVE  Vouched(t)' \/ Going(t)'
  <2>1. \/ Vouched(t) \/ Going(t)
        \/ Vouched(t)' \/ Going(t)'
    BY <1>2 DEF GoneInv, Vouched
  <2>. QED
    BY <1>1, <1>5, <2>1
<1>3. ASSUME NEW r \in Requests, NEW t \in Tokens, LooksAgain(r, t)' PROVE Vouched(t)'
  <2>1. Vouched(t) \/ Vouched(t)'
    BY <1>3 DEF GoneInv
  <2>. QED
    BY <1>1, <2>1
<1>4. ASSUME NEW r \in Requests, NEW t \in Tokens, TurnedAway(r, t)' PROVE Explained(t)'
  <2>1. Explained(t) \/ Explained(t)'
    BY <1>4 DEF GoneInv
  <2>. QED
    BY <2>1
<1>. QED
  BY <1>2, <1>3, <1>4 DEF GoneInv

SameBooks == UNCHANGED <<deployed, localGrace, ended, lapsed, broken>>

\* What is known of the tokens stays if the books do.
LEMMA SameWords ==
  ASSUME SameBooks
  PROVE  \A t \in Tokens : /\ Explained(t)' <=> Explained(t)
                           /\ Copied(t)' <=> Copied(t)
                           /\ Vouched(t)' <=> Vouched(t)
BY DEF SameBooks, Explained, Copied, Vouched

\* A step of request r that leaves rows and books alone.
LEMMA GoneMoved ==
  ASSUME GoneInv, Alone, SameBooks, UNCHANGED <<row, issued>>, NEW r \in Requests,
         \A q \in Requests : q # r => req'[q] = req[q],
         \A t \in Tokens : InFlight(r, t) => InFlight(r, t)',
         \A t \in Tokens : LooksAgain(r, t)' => Vouched(t),
         \A t \in Tokens : TurnedAway(r, t)' => Explained(t)
  PROVE  GoneInv'
<1>1. Known' = Known
  BY DEF Known
<1>2. ASSUME NEW q \in Requests, NEW t \in Tokens
      PROVE  /\ InFlight(q, t) => InFlight(q, t)'
             /\ LooksAgain(q, t)' => LooksAgain(q, t) \/ Vouched(t)'
             /\ TurnedAway(q, t)' => TurnedAway(q, t) \/ Explained(t)'
  <2>1. CASE q = r
    BY <2>1, SameWords
  <2>2. CASE q # r
    BY <2>2 DEF InFlight, LooksAgain, TurnedAway, Refused
  <2>. QED
    BY <2>1, <2>2
<1>3. \A t \in Tokens : /\ Explained(t) => Explained(t)'
                        /\ Copied(t) => Vouched(t)'
  BY SameWords DEF Vouched
<1>4. \A t \in Tokens : t \in Known' /\ row'[t] # "live" => t \in Known /\ row[t] # "live"
  BY <1>1
<1>. QED
  BY <1>2, <1>3, <1>4, GoneKept

\* A step that leaves the requests, the rows and the books alone.
LEMMA GoneAside ==
  ASSUME GoneInv, Alone, SameBooks, UNCHANGED <<row, issued, req>>
  PROVE  GoneInv'
<1>1. Known' = Known
  BY DEF Known
<1>2. \A q \in Requests, t \in Tokens :
        /\ InFlight(q, t)' <=> InFlight(q, t)
        /\ LooksAgain(q, t)' <=> LooksAgain(q, t)
        /\ TurnedAway(q, t)' <=> TurnedAway(q, t)
  BY DEF InFlight, LooksAgain, TurnedAway, Refused
<1>3. \A t \in Tokens : /\ Explained(t) => Explained(t)'
                        /\ Copied(t) => Vouched(t)'
  BY SameWords DEF Vouched
<1>4. \A t \in Tokens : t \in Known' /\ row'[t] # "live" => t \in Known /\ row[t] # "live"
  BY <1>1
<1>. QED
  BY <1>2, <1>3, <1>4, GoneKept

\* A step of request r that ends the tokens of S.
LEMMA GoneEnds ==
  ASSUME GoneInv, Alone, UNCHANGED <<deployed, localGrace, issued>>, NEW S, End(S),
         \A t \in Tokens : row'[t] # "live" => row[t] # "live" \/ t \in S,
         \A r \in Requests, t \in Tokens : InFlight(r, t) => InFlight(r, t)',
         \A r \in Requests, t \in Tokens : LooksAgain(r, t)' => LooksAgain(r, t),
         \A r \in Requests, t \in Tokens : TurnedAway(r, t)' => TurnedAway(r, t)
  PROVE  GoneInv'
<1>1. Known' = Known
  BY DEF Known
<1>2. ended' = ended \cup S /\ UNCHANGED <<lapsed, broken>>
  BY DEF End
<1>3. \A t \in Tokens : /\ Explained(t) => Explained(t)'
                        /\ t \in S => Explained(t)'
                        /\ Copied(t) => Copied(t)'
  BY <1>2 DEF Explained, Copied
<1>4. \A t \in Tokens : Copied(t) => Vouched(t)'
  BY <1>3 DEF Vouched
<1>5. ASSUME NEW t \in Tokens, t \in Known', row'[t] # "live"
      PROVE  \/ t \in Known /\ row[t] # "live"
             \/ Explained(t)' \/ Going(t)'
  BY <1>1, <1>3, <1>5
<1>6. \A r \in Requests, t \in Tokens :
        /\ InFlight(r, t) => InFlight(r, t)' \/ Vouched(t)'
        /\ LooksAgain(r, t)' => LooksAgain(r, t) \/ Vouched(t)'
        /\ TurnedAway(r, t)' => TurnedAway(r, t) \/ Explained(t)'
  OBVIOUS
<1>. QED
  BY <1>3, <1>4, <1>5, <1>6, GoneKept

\* Nothing about a request that waits for r or is r but its answer.
LEMMA GoneSettled ==
  ASSUME NEW r \in Requests, NEW u, NEW e, Settled(r, u, e), NEW q \in Requests, NEW t \in Tokens
  PROVE  /\ InFlight(q, t) => InFlight(q, t)' \/ q = r
         /\ LooksAgain(q, t)' => LooksAgain(q, t)
         /\ TurnedAway(q, t)' =>
              \/ TurnedAway(q, t)
              \/ /\ q = r \/ Waits(q, r)
                 /\ req[q].tok = t /\ u = NoToken /\ ~e
<1>1. CASE req'[q] = req[q]
  BY <1>1 DEF InFlight, LooksAgain, TurnedAway, Refused
<1>2. CASE req'[q] # req[q]
  <2>1. /\ q = r \/ Waits(q, r)
        /\ SameBut(q) /\ req'[q].pc = "done" /\ req'[q].got = u /\ req'[q].error = e
    BY <1>2 DEF Settled
  <2>. QED
    BY <2>1 DEF Waits, SameBut, InFlight, LooksAgain, TurnedAway, Refused
<1>. QED
  BY <1>1, <1>2

\* Every refusal has its reason.
LEMMA GoneStep ==
  TypeOK /\ Shape /\ WaitersInv /\ Bounded /\ AloneInv /\ GoneInv /\ [Next]_vars => GoneInv'
<1> SUFFICES ASSUME Reqs, Pends, Rest, Shape, WaitersInv, Bounded, AloneInv, GoneInv,
                    [Next]_vars, Alone
             PROVE  GoneInv'
  BY DeploymentStays, TypeParts DEF GoneInv, Alone
<1>. USE TokensFacts
<1>0. PICK here \in Instances : deployed.at = {here} /\ ~deployed.redis
  BY DEF Alone
<1>1. ASSUME NEW r \in Requests, ReadShared(r, "shared", "local") PROVE GoneInv'
  <2>1. Went(r, "local")
    BY <1>1, <1>0, GotoFacts, StageNames DEF ReadShared, Went, Moved
  <2>2. SameBooks /\ UNCHANGED <<row, issued>> /\ req[r].pc = "shared"
    BY <1>1 DEF ReadShared, SameBooks, db, memory, history
  <2>. QED
    BY <2>1, <2>2, GoneMoved DEF Went, Moved, InFlight, LooksAgain, TurnedAway, Refused
<1>2. ASSUME NEW r \in Requests, ReadLocal(r) PROVE GoneInv'
  <2>2. SameBooks /\ UNCHANGED <<row, issued>> /\ req[r].pc = "local"
    BY <1>2 DEF ReadLocal, SameBooks, db, memory, history
  <2>3. CASE Grace(r) = NoToken
    <3>1. Went(r, "lock")
      BY <1>2, <2>3, Moves
    <3>. QED
      BY <2>2, <3>1, GoneMoved DEF Went, Moved, InFlight, LooksAgain, TurnedAway, Refused
  <2>4. CASE Grace(r) # NoToken
    <3>1. Answered(r, Grace(r))
      BY <1>2, <2>4, Moves
    <3>. QED
      BY <2>2, <2>4, <3>1, GoneMoved
         DEF Answered, Moved, InFlight, LooksAgain, TurnedAway, Refused
  <2>. QED
    BY <2>3, <2>4
<1>3. ASSUME NEW r \in Requests, TryLock(r) PROVE GoneInv'
  BY <1>3, <1>0 DEF TryLock
<1>4. ASSUME NEW r \in Requests, Coalesce(r) PROVE GoneInv'
  <2>1. Went(r, "wait") \/ Went(r, "select")
    BY <1>4, Moves
  <2>2. SameBooks /\ UNCHANGED <<row, issued>> /\ req[r].pc = "lock"
    BY <1>4 DEF Coalesce, SameBooks, db, history
  <2>. QED
    BY <2>1, <2>2, GoneMoved DEF Went, Moved, InFlight, LooksAgain, TurnedAway, Refused
<1>5. ASSUME NEW r \in Requests, Poll(r) PROVE GoneInv'
  BY <1>5, <1>0 DEF Poll, AloneInv
<1>6. ASSUME NEW r \in Requests, Release(r) PROVE GoneInv'
  BY <1>6, <1>0 DEF Release, AloneInv
<1>7. ASSUME NEW r \in Requests, Select(r) PROVE GoneInv'
  <2>1. /\ SameBooks /\ UNCHANGED <<row, issued>> /\ req[r].pc = "select"
        /\ req[r].hold = "no" /\ req[r].do = "refresh" /\ req[r].tok \in Tokens
    BY <1>7, <1>0 DEF Select, SameBooks, db, memory, history, AloneInv, Shape, Busy
  <2>2. CASE row[req[r].tok] = "live"
    <3>1. /\ \A q \in Requests : q # r => req'[q] = req[q]
          /\ req'[r].pc = "revoke"
      BY <1>7, <2>2, Moves DEF Moved
    <3>. QED
      BY <2>1, <3>1, GoneMoved DEF InFlight, LooksAgain, TurnedAway, Refused
  <2>3. CASE row[req[r].tok] # "live"
    <3>1. Went(r, "relocal")
      BY <1>7, <2>1, <2>3, Moves
    <3>2. req[r].tok \in Known
      BY <2>1 DEF Bounded, BoundedRequest, KnownOrNone
    <3>3. ~\E q \in Requests : InFlight(q, req[r].tok)
      <4> SUFFICES ASSUME NEW q \in Requests, InFlight(q, req[r].tok) PROVE FALSE
        OBVIOUS
      <4>1. /\ req[q].do = "refresh" /\ req[q].pc \in Computing /\ req[q].tok = req[r].tok
            /\ req[r].pc \in Computing /\ req[q].pc # "select"
        BY <2>1 DEF InFlight, Computing
      <4>2. q = r
        BY <2>1, <4>1, SoleComputation
      <4>. QED
        BY <2>1, <4>1, <4>2
    <3>4. Vouched(req[r].tok)
      BY <2>1, <2>3, <3>2, <3>3 DEF GoneInv, Going
    <3>. QED
      BY <2>1, <3>1, <3>4, GoneMoved
         DEF Went, Moved, SameBut, InFlight, LooksAgain, TurnedAway, Refused
  <2>. QED
    BY <2>2, <2>3
<1>8. ASSUME NEW r \in Requests, ReadShared(r, "reshared", "relocal") PROVE GoneInv'
  BY <1>8, <1>0 DEF ReadShared, AloneInv
<1>9. ASSUME NEW r \in Requests, Relocal(r) PROVE GoneInv'
  <2>1. /\ SameBooks /\ UNCHANGED <<row, issued>> /\ req[r].pc = "relocal"
        /\ req[r].tok \in Tokens /\ req[r].at = here
    BY <1>9, <1>0 DEF Relocal, SameBooks, db, history, Shape, Busy
  <2>2. Settled(r, Grace(r), FALSE)
    BY <1>9, Moves
  <2>3. Grace(r) = NoToken => Explained(req[r].tok)
    <3>1. Vouched(req[r].tok)
      BY <2>1 DEF GoneInv, LooksAgain
    <3>. QED
      BY <1>0, <2>1, <3>1 DEF Vouched, Copied, Grace
  <2>4. ASSUME NEW q \in Requests, Waits(q, r) PROVE req[q].tok = req[r].tok
    <3>1. req[q].at \in Instances /\ req[q].tok \in Tokens
      BY <2>4 DEF Waits, Shape, Busy
    <3>2. Computes(r, req[q].at, req[q].tok)
      BY <2>4, <3>1 DEF Waits, WaitersInv, PendingIsComputing
    <3>. QED
      BY <3>2 DEF Computes
  <2>5. ASSUME NEW q \in Requests, NEW t \in Tokens
        PROVE  /\ InFlight(q, t) => InFlight(q, t)'
               /\ LooksAgain(q, t)' => LooksAgain(q, t)
               /\ TurnedAway(q, t)' => TurnedAway(q, t) \/ Explained(t)'
    <3>1. ~InFlight(r, t)
      BY <2>1 DEF InFlight
    <3>2. Explained(t)' <=> Explained(t)
      BY <2>1, SameWords
    <3>3. /\ InFlight(q, t) => InFlight(q, t)' \/ q = r
          /\ LooksAgain(q, t)' => LooksAgain(q, t)
          /\ TurnedAway(q, t)' =>
               \/ TurnedAway(q, t)
               \/ (q = r \/ Waits(q, r)) /\ req[q].tok = t /\ Grace(r) = NoToken
      BY <2>2, GoneSettled
    <3>4. q = r \/ Waits(q, r) => req[q].tok = req[r].tok
      BY <2>4
    <3>. QED
      BY <2>3, <3>1, <3>2, <3>3, <3>4
  <2>6. \A t \in Tokens : /\ Explained(t) => Explained(t)'
                          /\ Copied(t) => Vouched(t)'
                          /\ t \in Known' /\ row'[t] # "live" => t \in Known /\ row[t] # "live"
    BY <2>1, SameWords DEF Vouched, Known
  <2>. QED
    BY <2>5, <2>6, GoneKept
<1>10. ASSUME NEW r \in Requests, Revoke(r) PROVE GoneInv'
  <2>1. Went(r, "clear")
    BY <1>10, Moves
  <2>2. SameBooks /\ issued' = issued /\ req[r].pc = "revoke"
    BY <1>10 DEF Revoke, SameBooks, memory, history
  <2>3. \A t \in Tokens : row'[t] # "live" => row[t] # "live" \/ t = req[r].tok
    BY <1>10 DEF Revoke, Rest
  <2>4. ASSUME NEW q \in Requests, NEW t \in Tokens
        PROVE  /\ InFlight(q, t) => InFlight(q, t)' \/ Vouched(t)'
               /\ LooksAgain(q, t)' => LooksAgain(q, t) \/ Vouched(t)'
               /\ TurnedAway(q, t)' => TurnedAway(q, t) \/ Explained(t)'
    <3>1. CASE q = r
      BY <2>1, <2>2, <3>1 DEF Went, Moved, SameBut, InFlight, LooksAgain, TurnedAway, Refused
    <3>2. CASE q # r
      BY <2>1, <3>2 DEF Went, Moved, InFlight, LooksAgain, TurnedAway, Refused
    <3>. QED
      BY <3>1, <3>2
  <2>5. ASSUME NEW t \in Tokens, t \in Known', row'[t] # "live"
        PROVE  \/ t \in Known /\ row[t] # "live"
               \/ Explained(t)' \/ Going(t)'
    <3>1. req[r].do = "refresh" /\ req'[r].tok = req[r].tok /\ req'[r].do = req[r].do
          /\ req'[r].pc = "clear"
      BY <2>1, <2>2 DEF Shape, Busy, Went, Moved, SameBut
    <3>2. t = req[r].tok => Going(t)'
      BY <3>1 DEF InFlight, Going
    <3>3. Known' = Known
      BY <2>2 DEF Known
    <3>. QED
      BY <2>3, <2>5, <3>2, <3>3
  <2>6. \A t \in Tokens : (Explained(t) => Explained(t)') /\ (Copied(t) => Vouched(t)')
    BY <2>2, SameWords DEF Vouched
  <2>. QED
    BY <2>4, <2>5, <2>6, GoneKept
<1>11. ASSUME NEW r \in Requests, Clear(r) PROVE GoneInv'
  <2>1. Went(r, "insert")
    BY <1>11, Moves
  <2>2. SameBooks /\ issued' = issued /\ req[r].pc = "clear"
    BY <1>11 DEF Clear, SameBooks, memory, history
  <2>3. \A t \in Tokens : row'[t] # "live" => row[t] # "live"
    BY <1>11 DEF Clear, Rest
  <2>4. ASSUME NEW q \in Requests, NEW t \in Tokens
        PROVE  /\ InFlight(q, t) => InFlight(q, t)' \/ Vouched(t)'
               /\ LooksAgain(q, t)' => LooksAgain(q, t) \/ Vouched(t)'
               /\ TurnedAway(q, t)' => TurnedAway(q, t) \/ Explained(t)'
    <3>1. CASE q = r
      BY <2>1, <2>2, <3>1 DEF Went, Moved, SameBut, InFlight, LooksAgain, TurnedAway, Refused
    <3>2. CASE q # r
      BY <2>1, <3>2 DEF Went, Moved, InFlight, LooksAgain, TurnedAway, Refused
    <3>. QED
      BY <3>1, <3>2
  <2>5. \A t \in Tokens : t \in Known' /\ row'[t] # "live" => t \in Known /\ row[t] # "live"
    BY <2>2, <2>3 DEF Known
  <2>6. \A t \in Tokens : (Explained(t) => Explained(t)') /\ (Copied(t) => Vouched(t)')
    BY <2>2, SameWords DEF Vouched
  <2>. QED
    BY <2>4, <2>5, <2>6, GoneKept
<1>12. ASSUME NEW r \in Requests, Insert(r) PROVE GoneInv'
  <2>1. /\ \A q \in Requests : q # r => req'[q] = req[q]
        /\ req'[r].do = req[r].do /\ req'[r].tok = req[r].tok /\ req'[r].pc = "prune"
    BY <1>12, Moves DEF Moved, SameBut
  <2>2. SameBooks
    BY <1>12 DEF Insert, SameBooks, memory
  <2>4. ASSUME NEW q \in Requests, NEW t \in Tokens
        PROVE  /\ InFlight(q, t) => InFlight(q, t)' \/ Vouched(t)'
               /\ LooksAgain(q, t)' => LooksAgain(q, t) \/ Vouched(t)'
               /\ TurnedAway(q, t)' => TurnedAway(q, t) \/ Explained(t)'
    BY <2>1 DEF InFlight, LooksAgain, TurnedAway, Refused
  <2>5. \A t \in Tokens : t \in Known' /\ row'[t] # "live" => t \in Known /\ row[t] # "live"
    BY <1>12, InsertFacts
  <2>6. \A t \in Tokens : (Explained(t) => Explained(t)') /\ (Copied(t) => Vouched(t)')
    BY <2>2, SameWords DEF Vouched
  <2>. QED
    BY <2>4, <2>5, <2>6, GoneKept
<1>13. ASSUME NEW r \in Requests, Prune(r) PROVE GoneInv'
  <2>. DEFINE S == {t \in Live : Cardinality(Newer(t)) >= MaxSlots}
  <2>1. Went(r, "remember")
    BY <1>13, Moves
  <2>2. /\ End(S) /\ UNCHANGED <<deployed, localGrace, issued>>
        /\ \A t \in Tokens : row'[t] # "live" => row[t] # "live" \/ t \in S
    BY <1>13 DEF Prune, Live, Rest, memory
  <2>. HIDE DEF S
  <2>3. req[r].pc = "prune"
    BY <1>13 DEF Prune, Shape
  <2>4. ASSUME NEW q \in Requests, NEW t \in Tokens
        PROVE  /\ InFlight(q, t) => InFlight(q, t)'
               /\ LooksAgain(q, t)' => LooksAgain(q, t)
               /\ TurnedAway(q, t)' => TurnedAway(q, t)
    BY <2>1, <2>3 DEF Went, Answered, Moved, SameBut, InFlight, LooksAgain, TurnedAway, Refused
  <2>. QED
    BY <2>2, <2>4, GoneEnds
<1>14. ASSUME NEW r \in Requests, Remember(r) PROVE GoneInv'
  <2>1. Settled(r, req[r].new, FALSE)
    BY <1>14, Moves
  <2>2. /\ req[r].pc = "remember" /\ req[r].new # NoToken /\ req[r].at = here
        /\ UNCHANGED <<deployed, row, issued, ended, lapsed, broken>>
    BY <1>14, <1>0 DEF Remember, Shape, db, history
  <2>3. /\ \A t \in Tokens : localGrace[here][t] # NoToken => localGrace'[here][t] # NoToken
        /\ \A t \in Tokens : InFlight(r, t) => localGrace'[here][t] # NoToken
    BY <1>14, <2>2 DEF Remember, InFlight, Rest
  <2>4. \A t \in Tokens : /\ Explained(t)' <=> Explained(t)
                          /\ Copied(t) => Copied(t)'
                          /\ InFlight(r, t) => Copied(t)'
    BY <1>0, <2>2, <2>3 DEF Explained, Copied
  <2>5. ASSUME NEW q \in Requests, NEW t \in Tokens
        PROVE  /\ InFlight(q, t) => InFlight(q, t)' \/ Vouched(t)'
               /\ LooksAgain(q, t)' => LooksAgain(q, t)
               /\ TurnedAway(q, t)' => TurnedAway(q, t)
    <3>1. /\ InFlight(q, t) => InFlight(q, t)' \/ q = r
          /\ LooksAgain(q, t)' => LooksAgain(q, t)
          /\ TurnedAway(q, t)' => TurnedAway(q, t) \/ req[r].new = NoToken
      BY <2>1, GoneSettled
    <3>. QED
      BY <2>2, <2>4, <3>1 DEF Vouched
  <2>6. \A t \in Tokens : /\ Explained(t) => Explained(t)'
                          /\ Copied(t) => Vouched(t)'
                          /\ t \in Known' /\ row'[t] # "live" => t \in Known /\ row[t] # "live"
    BY <2>2, <2>4 DEF Vouched, Known
  <2>. QED
    BY <2>5, <2>6, GoneKept
<1>15. ASSUME NEW r \in Requests, SignOut(r) PROVE GoneInv'
  <2>. DEFINE S == Live \cap {req[r].tok}
  <2>1. Answered(r, NoToken)
    BY <1>15, Moves
  <2>2. /\ End(S) /\ UNCHANGED <<deployed, localGrace, issued>>
        /\ \A t \in Tokens : row'[t] # "live" => row[t] # "live" \/ t \in S
    BY <1>15 DEF SignOut, Live, Rest, memory
  <2>. HIDE DEF S
  <2>3. req[r].pc = "signout" /\ req[r].do # "refresh"
    BY <1>15 DEF SignOut, Shape
  <2>4. ASSUME NEW q \in Requests, NEW t \in Tokens
        PROVE  /\ InFlight(q, t) => InFlight(q, t)'
               /\ LooksAgain(q, t)' => LooksAgain(q, t)
               /\ TurnedAway(q, t)' => TurnedAway(q, t)
    BY <2>1, <2>3 DEF Went, Answered, Moved, SameBut, InFlight, LooksAgain, TurnedAway, Refused
  <2>. QED
    BY <2>2, <2>4, GoneEnds
<1>16. ASSUME NEW r \in Requests, Invalidate(r) PROVE GoneInv'
  <2>. DEFINE S == Live
  <2>1. Answered(r, NoToken)
    BY <1>16, Moves
  <2>2. /\ End(S) /\ UNCHANGED <<deployed, localGrace, issued>>
        /\ \A t \in Tokens : row'[t] # "live" => row[t] # "live" \/ t \in S
    BY <1>16 DEF Invalidate, Live, Rest, memory
  <2>. HIDE DEF S
  <2>3. req[r].pc = "invalidate" /\ req[r].do # "refresh"
    BY <1>16 DEF Invalidate, Shape
  <2>4. ASSUME NEW q \in Requests, NEW t \in Tokens
        PROVE  /\ InFlight(q, t) => InFlight(q, t)'
               /\ LooksAgain(q, t)' => LooksAgain(q, t)
               /\ TurnedAway(q, t)' => TurnedAway(q, t)
    BY <2>1, <2>3 DEF Went, Answered, Moved, SameBut, InFlight, LooksAgain, TurnedAway, Refused
  <2>. QED
    BY <2>2, <2>4, GoneEnds
<1>17. ASSUME NEW r \in Requests, Deliver(r) PROVE GoneInv'
  <2>1. /\ \A q \in Requests : q # r => req'[q] = req[q]
        /\ req'[r].pc = "idle" /\ req[r].pc = "done"
    BY <1>17, Moves DEF Dropped, Deliver
  <2>2. SameBooks /\ UNCHANGED <<row, issued>>
    BY <1>17 DEF Deliver, SameBooks, db, memory, history
  <2>. QED
    BY <2>1, <2>2, GoneMoved DEF InFlight, LooksAgain, TurnedAway, Refused
<1>18. ASSUME NEW r \in Requests, Client(r) PROVE GoneInv'
  <2>1. /\ \A q \in Requests : q # r => req'[q] = req[q]
        /\ req'[r].pc \notin {"done", "relocal"} /\ req[r].pc = "idle"
        /\ SameBooks /\ UNCHANGED <<row, issued>>
    BY <1>18, ClientMoves DEF Begun, SameBooks
  <2>. QED
    BY <2>1, GoneMoved DEF InFlight, LooksAgain, TurnedAway, Refused
<1>19. ASSUME NEW r \in Requests, Fail(r) PROVE GoneInv'
  <2>1. Settled(r, NoToken, TRUE)
    BY <1>19, Moves
  <2>2. /\ UNCHANGED <<deployed, localGrace, row, issued, ended, lapsed>>
        /\ broken' = broken \cup Stranded({r})
    BY <1>19 DEF Fail, db
  <2>3. \A t \in Tokens : InFlight(r, t) => t \in Stranded({r})
    BY DEF InFlight, Stranded
  <2>4. \A t \in Tokens : /\ Explained(t) => Explained(t)'
                          /\ Copied(t) => Copied(t)'
                          /\ InFlight(r, t) => Explained(t)'
    BY <2>2, <2>3 DEF Explained, Copied
  <2>5. ASSUME NEW q \in Requests, NEW t \in Tokens
        PROVE  /\ InFlight(q, t) => InFlight(q, t)' \/ Vouched(t)'
               /\ LooksAgain(q, t)' => LooksAgain(q, t)
               /\ TurnedAway(q, t)' => TurnedAway(q, t)
    <3>1. /\ InFlight(q, t) => InFlight(q, t)' \/ q = r
          /\ LooksAgain(q, t)' => LooksAgain(q, t)
          /\ TurnedAway(q, t)' => TurnedAway(q, t)
      BY <2>1, GoneSettled
    <3>2. InFlight(r, t) => Vouched(t)'
      BY <2>4 DEF Vouched
    <3>. QED
      BY <3>1, <3>2
  <2>6. \A t \in Tokens : /\ Copied(t) => Vouched(t)'
                          /\ t \in Known' /\ row'[t] # "live" => t \in Known /\ row[t] # "live"
    BY <2>2, <2>4 DEF Vouched, Known
  <2>. QED
    BY <2>4, <2>5, <2>6, GoneKept
<1>20. ASSUME NEW w \in toShare, Share(w) PROVE GoneInv'
  BY <1>20, GoneAside DEF SameBooks, Share, db, memory, history
<1>21. ASSUME NEW s \in Instances, Crash(s) PROVE GoneInv'
  <2>1. /\ s = here /\ UNCHANGED <<deployed, row, issued, ended>>
        /\ broken' = broken \cup Stranded({r \in Requests : req[r].at = s})
        /\ lapsed' = lapsed \cup {t \in Tokens : localGrace[s][t] # NoToken}
    BY <1>21, <1>0 DEF Crash, db
  <2>2. ASSUME NEW q \in Requests PROVE req'[q].pc = "idle" \/ req'[q] = req[q]
    <3>1. Dropped({x \in Requests : req[x].at = s})
      BY <1>21, CrashMoves
    <3>. QED
      BY <3>1 DEF Dropped
  <2>3. ASSUME NEW q \in Requests, NEW t \in Tokens, InFlight(q, t)
        PROVE  t \in Stranded({r \in Requests : req[r].at = s})
    <3>1. req[q].at = s
      BY <1>0, <2>1, <2>3 DEF InFlight, Shape
    <3>. QED
      BY <2>3, <3>1 DEF InFlight, Stranded
  <2>4. ASSUME NEW t \in Tokens
        PROVE  /\ Explained(t) \/ Copied(t) => Explained(t)'
               /\ \A q \in Requests : InFlight(q, t) => Explained(t)'
    BY <1>0, <2>1, <2>3 DEF Explained, Copied
  <2>5. ASSUME NEW q \in Requests, NEW t \in Tokens
        PROVE  /\ LooksAgain(q, t)' => LooksAgain(q, t)
               /\ TurnedAway(q, t)' => TurnedAway(q, t)
    BY <2>2 DEF LooksAgain, TurnedAway, Refused
  <2>6. \A t \in Tokens : t \in Known' /\ row'[t] # "live" => t \in Known /\ row[t] # "live"
    BY <2>1 DEF Known
  <2>7. \A t \in Tokens : Explained(t)' => Vouched(t)'
    BY DEF Vouched
  <2>. QED
    BY <2>4, <2>5, <2>6, <2>7, GoneKept
<1>22. ASSUME NEW t \in Tokens, LockExpires(t) PROVE GoneInv'
  BY <1>22, GoneAside DEF SameBooks, LockExpires, db, memory, history
<1>23. ASSUME NEW t \in Tokens, GraceEnds(t) PROVE GoneInv'
  <2>1. /\ UNCHANGED <<deployed, row, issued, req, ended, broken>> /\ lapsed' = lapsed \cup {t}
        /\ \A u \in Tokens : u = t \/ localGrace'[here][u] = localGrace[here][u]
    BY <1>23 DEF GraceEnds, db, Rest
  <2>2. \A u \in Tokens : (Explained(u) => Explained(u)') /\ (Copied(u) => Vouched(u)')
    BY <1>0, <2>1 DEF Explained, Copied, Vouched
  <2>3. \A q \in Requests, u \in Tokens :
          /\ InFlight(q, u) => InFlight(q, u)' \/ Vouched(u)'
          /\ LooksAgain(q, u)' => LooksAgain(q, u) \/ Vouched(u)'
          /\ TurnedAway(q, u)' => TurnedAway(q, u) \/ Explained(u)'
    BY <2>1 DEF InFlight, LooksAgain, TurnedAway, Refused
  <2>4. \A u \in Tokens : u \in Known' /\ row'[u] # "live" => u \in Known /\ row[u] # "live"
    BY <2>1 DEF Known
  <2>. QED
    BY <2>2, <2>3, <2>4, GoneKept
<1>24. ASSUME NEW t \in Tokens, Expire(t) PROVE GoneInv'
  <2>. DEFINE S == {t}
  <2>1. /\ End(S) /\ UNCHANGED <<deployed, localGrace, issued, req>>
        /\ \A u \in Tokens : row'[u] # "live" => row[u] # "live" \/ u \in S
    BY <1>24 DEF Expire, Rest, memory
  <2>. HIDE DEF S
  <2>2. \A q \in Requests, u \in Tokens :
          /\ InFlight(q, u)' <=> InFlight(q, u)
          /\ LooksAgain(q, u)' <=> LooksAgain(q, u)
          /\ TurnedAway(q, u)' <=> TurnedAway(q, u)
    BY <2>1 DEF InFlight, LooksAgain, TurnedAway, Refused
  <2>. QED
    BY <2>1, <2>2, GoneEnds
<1>25. CASE UNCHANGED vars
  BY <1>25, GoneAside DEF SameBooks, vars
<1>. QED
  BY <1>1, <1>2, <1>3, <1>4, <1>5, <1>6, <1>7, <1>8, <1>9, <1>10, <1>11, <1>12, <1>13, <1>14, <1>15, <1>16, <1>17, <1>18, <1>19, <1>20, <1>21, <1>22, <1>23, <1>24, <1>25 DEF Next, Work, Time

\* A refresh that signs somebody out has a reason: the session was ended, the
\* copy of the answer is gone, or the exchange failed half-way.
THEOREM RefusalsAreDue == Spec => []RefusalIsDue
<1>. DEFINE Ind == AloneInv /\ Bounded /\ GoneInv
<1>1. Init => Ind
  BY AloneInit, BoundedInit, GoneInit
<1>2. Base /\ Ind /\ [Next]_vars => Ind'
  BY AloneStep, BoundedStep, GoneStep DEF Base
<1>3. Base /\ Ind => RefusalIsDue
  BY DEF Base, Shape, GoneInv, RefusalIsDue, TurnedAway, Refused, Explained
<1>. QED
  BY <1>1, <1>2, <1>3, Based, PTL DEF Spec

-----------------------------------------------------------------------------
(* One process without Redis implements SessionChain *)

Standing == Live \cup {t \in Tokens : Exchanging(t) # {}}
OneOf(S) == IF S = {} THEN NoToken ELSE CHOOSE n \in S : TRUE
Successors == [t \in Tokens |-> OneOf(made[t])]

\* The abstract actions in terms of this module.
LEMMA ChainActions ==
  /\ Chain!Open <=> /\ issued < MaxTokens /\ issued' = issued + 1
                    /\ Standing' = Standing \cup {issued'} /\ Successors' = Successors
  /\ \A t \in Tokens : Chain!Exchange(t) <=>
       /\ t \in Standing /\ Successors[t] = NoToken
       /\ issued < MaxTokens /\ issued' = issued + 1
       /\ Successors' = [Successors EXCEPT ![t] = issued']
       /\ Standing' = (Standing \ {t}) \cup {issued'}
  /\ Chain!Next <=> \/ Chain!Open \/ \E t \in Tokens : Chain!Exchange(t)
                    \/ \E S \in SUBSET Standing :
                         Standing' = Standing \ S /\ Successors' = Successors /\ issued' = issued
BY DEF Chain!Open, Chain!Exchange, Chain!End, Chain!Next, Chain!Tokens, Tokens, Standing,
       Successors, OneOf

\* A token stands if it is live or under exchange.
LEMMA StandingFacts ==
  ASSUME NEW t \in Tokens
  PROVE  t \in Standing <=> row[t] = "live" \/ \E r \in Requests : Exchanges(r, t)
BY DEF Standing, Live, Exchanging, Exchanges, ExchangeStages

\* The same after the step.
LEMMA StandingFactsNext ==
  ASSUME NEW t \in Tokens
  PROVE  t \in Standing' <=> row'[t] = "live" \/ \E r \in Requests : Exchanges(r, t)'
BY DEF Standing, Live, Exchanging, Exchanges, ExchangeStages

\* A step that makes no token and revives none ends some, or none.
LEMMA ChainEnds ==
  ASSUME issued' = issued, made' = made,
         \A t \in Tokens : t \in Standing' => t \in Standing
  PROVE  Chain!Next
<1>1. Successors' = Successors
  BY DEF Successors
<1>2. Standing' \subseteq Tokens /\ Standing \subseteq Tokens
  BY DEF Standing, Live
<1>. DEFINE S == {t \in Standing : t \notin Standing'}
<1>3. Standing' = Standing \ S /\ S \in SUBSET Standing
  BY <1>2
<1>. QED
  BY <1>1, <1>3, ChainActions

\* Alone, every step is one of the abstract ones.
LEMMA ChainStep ==
  TypeOK /\ Shape /\ EndedInv /\ AloneInv /\ OnceInv /\ Alone /\ [Next]_vars => Chain!Next
<1> SUFFICES ASSUME TypeOK, Reqs, Pends, Rest, Shape, EndedInv, AloneInv, OnceInv, Alone,
                    [Next]_vars
             PROVE  Chain!Next
  BY TypeParts
<1>. USE TokensFacts
<1>1. CASE Quiet
  <2>1. ASSUME NEW t \in Tokens, t \in Standing' PROVE t \in Standing
    <3>1. row'[t] = "live" => row[t] = "live"
      BY <1>1 DEF Quiet, RowsFall
    <3>2. \A r \in Requests : Exchanges(r, t)' => Exchanges(r, t)
      BY <1>1 DEF Quiet, NoneStarts
    <3>. QED
      BY <2>1, <3>1, <3>2, StandingFacts, StandingFactsNext
  <2>. QED
    BY <1>1, <2>1, ChainEnds DEF Quiet
<1>2. ASSUME NEW r \in Requests, Starts(r) PROVE Chain!Next
  <2>0. row' = row /\ issued' = issued
    BY <1>2 DEF Starts, Select, db
  <2>1. made' = made /\ \A q \in Requests, t \in Tokens : Exchanges(q, t)' =>
                          Exchanges(q, t) \/ row[t] = "live"
    BY <1>2, EndedStarts
  <2>2. ASSUME NEW t \in Tokens, t \in Standing' PROVE t \in Standing
    BY <2>0, <2>1, <2>2, StandingFacts, StandingFactsNext
  <2>. QED
    BY <2>0, <2>1, <2>2, ChainEnds
<1>3. ASSUME NEW r \in Requests, Insert(r) PROVE Chain!Next
  <2>. DEFINE n == issued + 1
  <2>0. issued < MaxTokens
    BY <1>3 DEF Insert
  <2>. HIDE DEF n
  <2>1. /\ issued' = n
        /\ n \in Tokens /\ n \notin Known /\ req[r].pc = "insert"
        /\ \A t \in Tokens : row'[t] = IF t = n THEN "live" ELSE row[t]
        /\ \A t \in Tokens : made'[t] = IF Exchanges(r, t) THEN made[t] \cup {n} ELSE made[t]
    BY <1>3, InsertFacts DEF n
  <2>2. \A q \in Requests : q # r => req'[q] = req[q]
    BY <1>3, Moves DEF Moved
  <2>3. \A q \in Requests, t \in Tokens : /\ q # r => (Exchanges(q, t)' <=> Exchanges(q, t))
                                          /\ q = r => ~Exchanges(q, t)'
    BY <1>3, <2>2, Moves DEF Moved, Exchanges, ExchangeStages
  <2>4. Standing' \subseteq Tokens /\ Standing \subseteq Tokens
    BY DEF Standing, Live
  <2>5. CASE \E t \in Tokens : Exchanges(r, t)
    <3>1. PICK t \in Tokens : Exchanges(r, t)
      BY <2>5
    <3>2. \A u \in Tokens : Exchanges(r, u) => u = t
      BY <3>1 DEF Exchanges
    <3>3. t # n /\ row[t] # "live" /\ t \in Standing /\ made[t] = {}
      BY <2>1, <3>1, StandingFacts DEF EndedInv, OnceInv
    <3>4. \A q \in Requests : q # r => ~Exchanges(q, t)
      BY <3>1, SoleComputation DEF Exchanges, ExchangeStages, Computing
    <3>5. ASSUME NEW u \in Tokens
          PROVE  u \in Standing' <=> (u \in Standing /\ u # t) \/ u = n
      <4>1. CASE u = n
        BY <2>1, <4>1, StandingFactsNext
      <4>2. CASE u = t
        <5>1. row'[u] # "live" /\ u # n
          BY <2>1, <3>3, <4>2
        <5>2. ASSUME NEW q \in Requests PROVE ~Exchanges(q, u)'
          BY <2>1, <2>3, <3>4, <4>2
        <5>. QED
          BY <4>2, <5>1, <5>2, StandingFactsNext
      <4>3. CASE u # n /\ u # t
        <5>1. row'[u] = row[u]
          BY <2>1, <4>3
        <5>2. ASSUME NEW q \in Requests PROVE Exchanges(q, u)' <=> Exchanges(q, u)
          BY <2>1, <2>3, <3>2, <4>3
        <5>. QED
          BY <4>3, <5>1, <5>2, StandingFacts, StandingFactsNext
      <4>. QED
        BY <4>1, <4>2, <4>3
    <3>6. Standing' = (Standing \ {t}) \cup {n}
      BY <2>1, <2>4, <3>5
    <3>7. Successors[t] = NoToken
      BY <3>3 DEF Successors, OneOf
    <3>8. \A u \in Tokens : made'[u] = IF u = t THEN {n} ELSE made[u]
      BY <2>1, <3>1, <3>2, <3>3
    <3>9. Successors' = [Successors EXCEPT ![t] = n]
      <4>1. OneOf({n}) = n
        BY DEF OneOf
      <4>2. ASSUME NEW u \in Tokens
            PROVE  OneOf(made'[u]) = IF u = t THEN n ELSE OneOf(made[u])
        BY <3>8, <4>1
      <4>. QED
        BY <4>2 DEF Successors
    <3>10. Chain!Exchange(t)
      <4>1. /\ issued' = issued + 1 /\ Standing' = (Standing \ {t}) \cup {issued'}
            /\ Successors' = [Successors EXCEPT ![t] = issued']
        <5>1. issued' = issued + 1
          BY <2>1 DEF n
        <5>2. n = issued'
          BY <2>1
        <5>. QED
          BY <3>6, <3>9, <5>1, <5>2
      <4>. QED
        BY <2>0, <3>3, <3>7, <4>1, ChainActions
    <3>. QED
      BY <3>10, ChainActions
  <2>6. CASE ~\E t \in Tokens : Exchanges(r, t)
    <3>1. ASSUME NEW u \in Tokens
          PROVE  u \in Standing' <=> u \in Standing \/ u = n
      <4>1. CASE u = n
        BY <2>1, <4>1, StandingFactsNext
      <4>2. CASE u # n
        <5>1. row'[u] = row[u]
          BY <2>1, <4>2
        <5>2. ASSUME NEW q \in Requests PROVE Exchanges(q, u)' <=> Exchanges(q, u)
          BY <2>1, <2>3, <2>6
        <5>. QED
          BY <4>2, <5>1, <5>2, StandingFacts, StandingFactsNext
      <4>. QED
        BY <4>1, <4>2
    <3>2. Standing' = Standing \cup {n}
      BY <2>1, <2>4, <3>1
    <3>3. \A u \in Tokens : made'[u] = made[u]
      BY <2>1, <2>6
    <3>4. Successors' = Successors
      <4>1. ASSUME NEW u \in Tokens PROVE OneOf(made'[u]) = OneOf(made[u])
        BY <3>3
      <4>. QED
        BY <4>1 DEF Successors
    <3>5. /\ issued' = issued + 1 /\ Standing' = Standing \cup {issued'}
          /\ Successors' = Successors
      <4>1. issued' = issued + 1
        BY <2>1 DEF n
      <4>2. n = issued'
        BY <2>1
      <4>. QED
        BY <3>2, <3>4, <4>1, <4>2
    <3>6. Chain!Open
      BY <2>0, <3>5, ChainActions
    <3>. QED
      BY <3>6, ChainActions
  <2>. QED
    BY <2>5, <2>6
<1>. QED
  BY <1>1, <1>2, <1>3, QuietSteps

\* One process without Redis implements the abstract chain of tokens: each is
\* exchanged once or ended, and does not come back.
THEOREM ChainImplemented == Spec => OneChain
<1>. DEFINE Ind == EndedInv /\ AloneInv /\ OnceInv
<1>1. Init => Ind
  BY EndedInit, AloneInit, OnceInit
<1>2. Base /\ Ind /\ [Next]_vars => Ind'
  BY EndedStep, AloneStep, OnceStep, TypeParts DEF Base
<1>3. Base /\ Ind /\ [Next]_vars => [Alone => Chain!Next]_(Chain!vars)
  BY ChainStep DEF Base
<1>. QED
  BY <1>1, <1>2, <1>3, Based, PTL DEF Spec, OneChain
=============================================================================
