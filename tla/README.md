# TLA+ models of «Источник жизни»

The program is the platform of a church community: a Node/Express server
(`src/src`), PostgreSQL, Redis, a LiveKit media server, and web and mobile
clients (`src/web-react`, `src/mobile`, `src/android-app`).  This directory
holds TLA+ models of its concurrent core, TLC configurations that check them on
small instances and proofs that TLAPS checks for all values of the constants.
Paths below are relative to `src/`.

## 1. Inventory

| Component | State | Operations | What is hard | What makes it correct | Here |
|---|---|---|---|---|---|
| **Calls** (`src/services/callsService.ts`, `src/routes/callsRoutes.ts`) | `calls`, `call_participants`, `call_invitations` | create (direct, group, by link), accept, decline, cancel, end, token, invite, join by invitation, revoke | several members act on one call at once; reads outside the transaction that uses them; leaving and returning | a member is in one call; a call ends once and for a true reason; nobody enters without a right to | `Calls` |
| **Locks and connections of the calls** (same file, `src/config/db.ts`) | row locks, advisory locks, pool | `withTransaction`, `assertMemberFreeInTx`, `SELECT … FOR UPDATE`, second connections | lock order, pool exhaustion, stale reads | no circle of waiting; a transaction commits what it has read; every request is answered | `CallSlots` |
| **Sweep of the calls** (`src/cron/callsCleanup.ts`, `cleanupStaleCalls`, `reconcileGhostParticipants`, `src/services/livekitService.ts`) | `ghostMissStreak` in memory | ring timeout, ghosts, empty calls, invitations | overlapping runs, stale listings, an unreachable Room Service | nobody who is there is removed; nobody who is gone stays for ever | `Calls`, `GhostSweep` |
| Media room after COMMIT (`endLiveKitRoom`, `removeLiveKitParticipant`) | LiveKit's rooms and tokens | delete room, remove participant | effects come after the commit, tokens outlive the call | the room follows the call | planned: `CallRoom` |
| Call quality reports (`reportCallQuality`) | `calls.metadata` | merge a sample | read-modify-write of a JSON document | no report is lost | planned: `CallQuality` |
| Signalling, settings, journal, statistics of calls | none of their own, or append-only | notify, read, append | | | not modelled |
| **Sessions** (`src/services/authService.ts`, `authSessionRedis.ts`, `src/controllers/authController.ts`) | `auth_refresh_sessions`, a lock and copies of answers in Redis, copies and computations in the process, cookies | sign-in, refresh, sign-out, new password, expiry | parallel refreshes of one cookie, statements without a transaction, late or lost answers, crashes | a token is exchanged once; who ended a session has ended it | `RefreshRotation` |
| **Realtime hub** (`src/realtime/wsHub.ts`) and its clients (`web-react/src/lib/realtimeWsClient.ts`, `mobile/src/lib/realtimeWs.ts`) | sockets, rooms, presence | admit, join, leave, close, heartbeat, announce | pages talk while they are being admitted; connections end unseen; departures are announced late | presence agrees with the sockets; every chat is heard | `PresenceHub` |
| Messenger (`src/services/messengerService.ts`) | conversations, participants, messages, read marks | membership, send, read, delete | deletion under a running call | | memberships and deletion in `Calls` |
| Accounts (`src/services/userService.ts`, `memberMergeService.ts`) | `members` and all that refers to it | delete, merge | cascades through other components | | deletion in `Calls` |
| **Collection claims** (`cycleCollectionClaimsService.ts`, `DistributionService.ts`, `src/config/db.ts`) | `cycle_collection_claims`, the queue of the prayer cycle, the pool's connections and their transactions | read and repair, assign, claim, release, distribute | `BEGIN`, statements and `COMMIT` sent through the pool one by one; reads before the transaction | a repair is done whole or not at all; nobody's member is taken by accident | `CollectionClaims`, `PooledTable` |
| Mailings, Telegram, notification delivery | sent marks, delivery rows | send once, retry | crash between sending and marking | sent once | not modelled |
| Backups (`backupService.ts`) | job state | start, finish | check-then-act | one job at a time | not modelled |
| Planners, calendar, songbook, bible, feed, assistant, user interfaces | content | single statements, rendering | little | | not modelled |

How they interact.  A client calls the HTTP routes; a handler runs one or a few
database transactions and, after COMMIT, tells LiveKit and the other clients
(through the hub).  The client connects to LiveKit with the token the handler
returned.  The cron job compares the tables with LiveKit.  The calls read the
messenger's memberships; deleting an account or a chat deletes rows of the
calls by foreign keys.  The hub learns of new participants from the messenger's
routes and reads the memberships when a page connects or joins a chat.  Every
part shares the pool; the calls take a connection for a whole transaction, the
claims one per statement.  The components in bold are those with most of the
program's concurrency, and the ones modelled here.

The hazards, each with its line and the properties aimed at it, are in
`PROJECT.json`.

## 2. Modules

| Module | Subject |
|---|---|
| `MemberSlots` | the abstract promise: each member has one slot, free or taken by one call |
| `Calls` | the life cycle of a call; one action per transaction |
| `CallsProofs`, `CallsLifeProofs`, `CallsHistoryProofs` | the theorems about `Calls` |
| `MCCalls` | instances: three members, a private chat of two, a group chat of all |
| `CallSlots` | inside the transactions: connections, row locks, advisory locks |
| `CallSlotsProofs` | the theorems about it |
| `MCCallSlots` | instances of it |
| `GhostSweep` | the comparison with LiveKit, await by await, for one call |
| `GhostProofs` | the theorems about it |
| `MCGhostSweep` | instances of it |
| `SessionChain` | the abstract promise: a refresh token is exchanged for one successor or ended, and never comes back |
| `RefreshRotation` | the refresh tokens of one account, await by await |
| `RefreshProofs`, `MCRefreshRotation` | its theorems and its instances |
| `PooledTable` | one table behind `query()`: connections, and the transactions statements fall into |
| `CollectionClaims` | the claims of one week, statement by statement, over `PooledTable` |
| `ClaimsProofs`, `MCCollectionClaims` | its theorems and its instances |
| `PresenceHub` | the realtime hub, await by await, with the pages that talk to it |
| `PresenceProofs`, `MCPresenceHub` | its theorems and its instances |

The three models of the calls look at the same code at three grains.  `Calls` takes a
transaction as one step.  `CallSlots` opens the transactions and shows, with
the same abstract specification `MemberSlots`, that the locks make this right
for what binds a member to a call.  `GhostSweep` opens the one handler that
waits for an outside service; its transaction is the action `ClearGhosts` of
`Calls`, which may clear any set of members, so `Calls` holds whatever the
sweep decides.

In the modules, a definition whose comment begins with "Mutant:" is a wrong
variant of the definition below it, a plausible mistake in the code.  No
specification uses one; exchanging it for the original must break the property
listed with it in `PROJECT.json`, which is how the properties are tested.

### Calls

| State | Code |
|---|---|
| `calls[c]` | the row of `calls`: type, status, conversation_id, access_mode, initiated_by, ended_reason; "unused" before, "deleted" after a cascade |
| `part[c][m]` | `call_participants.status`, "absent" for no row |
| `invites[i]` | the row of `call_invitations`: `max = 0` is NULL; "expired" is an `expires_at` in the past |
| `drafts` | a request in `createInvitation` between its reads and its insert |
| `emptyFound` | the calls a sweep has listed as empty and not yet locked |
| `convMembers`, `accounts` | `conversation_participants` with `left_at IS NULL`, `members` |

| Action | Code |
|---|---|
| `CreateDirectCall`, `CreateGroupCall`, `CreateStandaloneLinkCall` | the functions of the same names |
| `AcceptCall`, `DeclineCall`, `CancelCall` | same |
| `HangUpDirect`, `EndForAll`, `LeaveGroupCall` | the three branches of `endCall` |
| `IssueTokenFirstJoin`, `IssueTokenExisting` | `issueCallToken` without and with a participant row |
| `CheckInvitation`, `OpenAccess`, `StoreInvitation` | `createInvitation`, whose statements share no transaction |
| `RevokeInvitation`, `JoinViaInvitation` | same |
| `MissRinging`, `FindEmpty`, `EndEmpty`, `SweepInvitation` | the parts of `cleanupStaleCalls` |
| `ClearGhosts` | the transaction of `reconcileGhostParticipants` |
| `LeaveConversation`, `EnterConversation`, `DeleteConversation`, `DeleteUser`, `Cascade` | the messenger, `deleteUser`, ON DELETE CASCADE |

Abstractions.  Time: any ringing call may be past its timeout, any empty call
old enough, any invitation expired; the properties hold for every timing.
`used_count` is kept only for limited invitations, because nothing reads the
other.  Memberships that a handler reads over a second connection inside its
transaction are read in its step; the rights `revokeInvitation` reads just
before its update, and the membership `createGroupCall` reads just before its
transaction, are taken to be still the same.  LiveKit's room, notifications and
journal entries are left out.  The status `failed` is not in the model:
`ensureLiveKitRoom` swallows its errors, so no call gets it.  The participant
statuses `invited` and `busy` and the role `moderator` are declared in the
schema and never written; the model keeps the statuses in its type and the
queries, and has no such role.

### CallSlots

A request goes through `connect`, `row`, `slot`, `slot2`, `borrow` and `commit`
as far as its handler does.  `rowLock` is `SELECT … FOR UPDATE` on the call,
`slotLock` the advisory lock of a member, `Connected` the connections taken,
`Borrow` a query on a second connection while the first is held
(`isMemberInConversation`, `getParticipantRoleInConversation`), `Timeout`
`connectionTimeoutMillis`.  Statuses are reduced to what binds a member:
ringing and joined are "in".  "waiting" counts as active; declining,
cancelling and the ring timeout take the same lock and are one kind.  Because
uncommitted writes are invisible to others (READ COMMITTED), all the writes of
a transaction are made at its commit.

### GhostSweep

A run (`Ticks`) goes from await to await: `Begin` (the query of the calls),
`List` (Room Service), `ReadRows`, `Judge` (the loop over the participants,
without an await), `Clear` (transaction), `Close` (LiveKit), `Prune` (the loop
that drops counts).  The environment joins, leaves, connects, drops and makes
the Room Service unreachable at any moment.  `missing` is a history
variable for the properties.  The code's second look at an empty room
(`callsService.ts`, the `else if` after the grace test) can find nobody that the
first test has not found, and is left out.  The participants of a direct call whose
`joined_at` is NULL have no grace period; the model starts from a conference.

### RefreshRotation

| State | Code |
|---|---|
| `deployed` | which processes run, and whether `REDIS_URL` is set |
| `row`, `issued` | `auth_refresh_sessions` of one account: valid, revoked, no row; tokens are numbered in the order they are issued, which stands for `created_at` |
| `cookie[d]` | the refresh cookie of a browser, which its tabs share |
| `lock`, `sharedGrace` | the Redis keys `rf_lock` and `rf_grace` |
| `localGrace`, `pending` | `refreshRotationGraceByHash`, `pendingRefreshByHash` of a process |
| `toShare` | copies on their way to Redis, for which nobody waits |
| `req[r]` | a request and the await it is at |
| `made`, `ended`, `closed`, `lapsed`, `broken` | history |

`ReadShared`, `ReadLocal`, `TryLock`, `Coalesce`, `Poll`, `Select`, `Relocal`
and `Release` are the parts of `rotateAccessByRefreshToken`; `Revoke`, `Clear`,
`Insert`, `Prune`, `Remember` those of `rotateAccessByRefreshTokenOnce` and
`issueRefreshSessionForUser`, each a statement that commits on its own;
`SignOut`, `Invalidate`, `Expire` end tokens; `Fail` is a statement that throws,
`Crash` the end of a process, `GraceEnds` and `LockExpires` the passage of time.
Redis may fail to answer at every call (`ReadShared` goes on, `Coalesce` is
taken instead of `TryLock`, `Release` leaves the lock).  A refresh may be sent by any tab
at any moment, and its answer may be lost.  `Room` keeps the numbers of the
tokens within `MaxTokens`.  Left out: access sessions (they refer to no other
state), `last_used_at`, the pause after a Redis error, sign-in without
"remember me" (it issues no refresh token).

### CollectionClaims and PooledTable

`PooledTable` is `query()`: a statement gets any connection without a statement
on it, and what the connection's transaction is, it is part of.  `conn[c]` has the
uncommitted rows and the table lock of the transaction a connection is in;
PostgreSQL's part (visibility, row and table locks, failed transactions, the
detection of deadlocks) is external and is what READ COMMITTED promises.
`CollectionClaims` is a request as a sequence of such statements: `Send` gives
the next one a connection, `Schema` … `Release` are its execution,
`Refused`, `Fails`, `Deadlock`, `NoConnection` its failures (the last whenever
the rest of the server keeps the pool busy), `Lose` the loss of a connection,
after which `query()` sends the statement again.  `Schema` is the
DDL that every request begins with; inside somebody else's open transaction it
keeps the table locked until that ends.  `clean` and `home` are history: whether
a shift has had its transaction and the table for itself.

Abstractions: one week (the claims of others are other rows); changes of the
queue commit at once; the rights of the caller and the reads that only build the
answer are left out; so is `member_assignments`, the other table of the
distribution, but not its transaction.  `rosterIndex` is always −1 for a stale
claim, since whoever is stale is not in the queue: the search for the next
member therefore always starts at the head of the queue
(`Unassigned`, `Least`), although the comment of `findNextUnassignedRosterMember`
speaks of the position he was removed from.  A manager may release anybody's
claim; the 400 text "Можно снять только свою отметку" is answered only when there
is none.

### PresenceHub

| State | Code |
|---|---|
| `open[s]`, `shown[s]` | the page's screen, and whom it shows as online |
| `inbox[s]`, `wire[s]` | messages under way to the hub; whether the connection works |
| `stage[s]` | the await `handleNewSocket` is at |
| `asked[s]` | requests to join that are being looked up |
| `age[s]` | heartbeats since the last pong |
| `clients`, `inRoom`, `online` | `clientsByWs` (and `clientsByMember`), `rooms`, `onlineMembers` |
| `leaving[m]` | announcements that wait for the UPDATE of `last_seen_at` |
| `rows`, `adding` | `conversation_participants`; those inserted before `ensureMemberInRoom` |
| `hurried`, `missed` | history: who came back before his departure was announced; for whom a read failed |

`ReceiveAuth`, `Register`, `Fetch`, `Ready`, `Reject` are `handleNewSocket`;
`Answer` is what the mobile application sends when it is told "ready";
`Unheard` is a message that arrives while it awaits; `Receive`, `LookUp`,
`Admit`, `Forbid` are `handleClientMessage`; `Remove` is `removeClient`, inside
`Close`, `Forbid` and `Tick`.  `Vanish` ends a connection without a word;
`Close` is seen by the hub only after "ready", when the handlers are attached.
Left out: the other message kinds (broadcast viewers, typing, receipts, calls),
a `send` or `ping` that throws (it ends like `Close`), and the fan-out through Redis
to other processes.

## 3. Runs

| Run | Bounds | What it shows |
|---|---|---|
| `calls_core` | 3 members, 2 calls, 1 invitation, limit 2 | types, one call per member, unanswered ringing calls, nobody alone in a dead meeting, `MemberSlots`, leaving is not ending, the limit on first joins |
| `calls_invites` | 3 members, 1 call, 2 invitations (unlimited or single use), one member leaves and re-enters the chat; any account or chat may be deleted at any step; fairness of the cron job | invitations not overspent, waiting rooms, entitlement of whoever enters, end reasons, finished calls are history, ringing ends |
| `slots_safety` | 2 requests, 2 members, 2 calls, 2 connections | justified locks, no double booking, no circle of waiting, no stale commit, `MemberSlots` |
| `slots_liveness` | 2 requests, 2 members, 1 call, 2 connections | every request is answered |
| `ghosts_serial` | 2 members, one run at a time, 2 misses required | who is removed was missing; counts are backed by listings; ghosts are cleared; counts are dropped |
| `sessions_core` | 1 process with and without Redis, 1 browser, 2 requests at a time, 3 tokens, 2 slots, 1 failure or crash | ended sessions stay ended, waiters are served, and, without Redis, one chain of tokens and no refusal without a reason |
| `claims_core` | 4 members, 2 coordinators (one asks), 2 requests of any kind, 2 connections, 1 fault, 1 change of the queue; 2 stale claims and 2 free members, or 1 of each where the stale one may come back | undisturbed shifts are whole; an own claim takes nothing |
| `presence_core` | 1 member, a web page and a mobile one, 1 chat, 1 announcement under way | presence shown is true, chats are heard, a mobile application is in the room of the chat on its screen, nobody lingers |
| `calls_limit`, `sessions_lock`, `claims_shift`, `presence_editor` | small | the findings of section 5 |

Why the bounds are enough.  Two calls are what exclusivity needs: every guard
looks at a call and "another" one.  Three members are host, callee or guest,
and somebody else, and with a limit of two one of them is always too many.  The
limit of two is also the least the settings admit that lets a conference be
full.  Two invitations let one be used up and the other replace it.  The calls
of a run are used once each, since a finished call never comes back
(`FinishedIsHistory`).  Circles of waiting between two requests need two of
each kind of lock.  Two misses is the least value `ghost_miss_ticks` is
clamped to, and a larger one only makes the runs longer.  Two refreshes of one
token are what the lock and the coalescing are about; a third token is the
successor's successor, and requests go on arriving after others are done.  Two
stale claims make a shift of several steps with two members to give, and two
requests over two connections let each statement fall into the other's
transaction or not.  Two connections of one member are what "the last one"
needs; `ShownIsTrue` with a second member and a plan, `sessions_core` with two
processes behind Redis were checked once (4.1 and 15.7 million states) and are
too long to keep; the theorems cover them.

`CHECK_DEADLOCK FALSE` is set in the `calls_*` and `claims_*` runs: when the
bounded supply of calls or of arriving requests is used up, nothing has to
happen.  The other models must never stop, and TLC checks it.

Symmetry is used for calls, invitations, requests and connections, in safety
runs only.  The `CHOOSE` in `Occupied` is harmless there: by `OneCallPerMember`
there is at most one call to choose; the one in `Chain` is read only where
`made[t]` has at most one element.

Fairness.  `Calls!FairSpec`: weak fairness of `MissRinging` and `EndEmpty`,
because the cron job runs every fifteen seconds and looks at all of them;
clients owe nothing.  `CallSlots!FairSpec`: a request that has begun is
continued by the event loop; the pool serves its queue first come first served
and PostgreSQL queues the waiters of a lock, so nobody is overtaken for ever,
which is strong fairness of `Proceed`; the connection timeout fires, which is
weak fairness of `Timeout`.  `GhostSweep!FairSpec`: the cron job goes on, its
runs proceed (an awaited call returns or fails) and the grace period passes;
clients and LiveKit owe nothing.  `PresenceHub!FairSpec`: the database answers
or fails, the authentication timer and the heartbeat fire, messages that have
arrived are handled; pages and the network owe nothing.

## 4. Proofs

TLAPS proves the theorems below for all sets of members, calls, chats,
invitations, requests and connections, finite or not except where an assumption
says so (a queue has finitely many members, the hub finitely many sockets).  The
assumptions are the named `ASSUME`s of the modules (`CallsAssumption`,
`CallSlotsAssumption`, `GhostSweepAssumption`, `RefreshAssumption`,
`ClaimsAssumption`, `HubAssumption`): the types of the constants, and that the
"no such" values are none of the others.

| Theorem | Property | Argument |
|---|---|---|
| `CallsProofs!TypeCorrect` | `TypeOK` | inductive by itself, action by action |
| `CallsProofs!OneCall` | `OneCallPerMember` | every step either puts nobody into a call (`PutsNobody`) or works on one call and adds only members free of the others (`PutsOnlyFree`): lemma `StepOccupies` |
| `CallsProofs!ImplementsSlots` | `OneSlotEach` | the same lemma: a step of the first kind is a `Release`, one of the second an `Enter` of `MemberSlots` |
| `CallsLifeProofs!RingingUnanswered`, `WaitingHostAlone`, `MeetingInhabited`, `EndReasonTrue` | `RingingIsUnanswered`, `WaitingIsHostAlone`, `MeetingHasSomeone`, `EndReasonIsTrue` | from the invariant `LifeInv`, call by call |
| `CallsHistoryProofs!InvitationsNotOverspent` | `InvitationNotOverspent` | inductive with `TypeOK` |
| `CallsHistoryProofs!HistoryStays` | `FinishedIsHistory` | every action that writes a call looks at its status first |
| `CallsHistoryProofs!FirstJoinsEntitled`, `FirstJoinsLimited` | `FirstJoinIsEntitled`, `FirstJoinWithinLimit` | there are two ways into a conference (lemma `TwoWaysIn`), and both look; the second for finitely many members |
| `CallsLifeProofs!LeavingLeavesOthers` | `LeavingIsNotEnding` | from `LifeInv` the sweep lists no call as empty while no account is deleted (`NothingFound`) |
| `CallSlotsProofs!LocksJustified`, `CommitsTrue`, `NobodyDoubleBooked` | `LocksAreJustified`, `CommitsWhatItRead`, `NoDoubleBooking` | from the invariant `SlotInv` |
| `CallSlotsProofs!NoDeadlockAmongLocks` | `NoWaitCycle` | a holder who waits himself waits for a slot, and for a higher one than the slot he is waited for (`WaitingClimbs`); of finitely many that wait one waits for the highest (`OneIsHighest`) |
| `CallSlotsProofs!PoolIsBounded` | — | only `Connect` puts a request among the connected, one at a time and while there is room (`PoolOK`) |
| `CallSlotsProofs!LocksImplementSlots` | `OneSlotEach` | only commits bind anybody, and `Effect` says how |
| `GhostProofs!GhostsTyped` | `TypeOK` | inductive; overlapping runs included |
| `GhostProofs!StreaksBacked`, `RemovedOnlyAfterMisses` | `StreakIsBacked`, `RemovedAfterMisses` | if there is one run at a time (`Ticks` has one element), from what is known of the counts at each stage of a run |
| `RefreshProofs!RefreshTyped`, `WaitersServed` | `TypeOK`, `WaitersAreServed` | a computation and those that wait for it end in one step; `pending` names only computations under way |
| `RefreshProofs!EndsForGood` | `EndedForGood` | who exchanges a token has found it valid, and a token that is not valid does not become so |
| `RefreshProofs!OneComputationOnce`, `RefusalsAreDue` | `OneComputationAlone`, `RefusalIsDue` | without Redis, every computation is entered in `pending`, so there is one for a token; a token that is gone is under exchange, has a copy of its successor, or is accounted for |
| `RefreshProofs!ChainImplemented` | `OneChain` | the same invariants; `Insert` is `Exchange` or `Open`, everything else ends tokens or stutters |
| `ClaimsProofs!ClaimsTyped` | `TypeOK` | inductive, with where each kind of request may be |
| `ClaimsProofs!OwnClaimsTakeNothing` | `OwnClaimTakesNothing` | a claim succeeds by `Look`, which changes nothing, or by `Insert`, which found the row absent on its own connection |
| `ClaimsProofs!ShiftsAreWhole` | `ShiftIsWhole` | from the invariant `Shift`: the loop invariant `Progress`, true of what the shift's own transaction sees as long as nobody has disturbed it |
| `ClaimsProofs!AloneShiftsTakeOnlyFree` | — | the same invariant: `claimedSet` is who has somebody in what the transaction sees |
| `PresenceProofs!OpenChatsJoined` | `OpenChatIsJoined` | the last request to join is on its way with no `leave` behind it, or has been received (`Listening`) |
| `PresenceProofs!HubTyped`, `ShownTrue`, `ChatsHeard` | `TypeOK`, `ShownIsTrue`, `ChatsAreHeard` | who is registered or announced is accounted for at each stage of the admission; a membership that is not in the room is still to be fetched or to be told |

`LifeInv` joins the four properties and adds that an unfinished call has no end
reason and a live one an initiator (`OpenOK`).  None of them is inductive alone:
that only the initiator is joined in a missed call follows from what a ringing
call looks like, that a cancelled conference holds only its host from what a
waiting one looks like.

`SlotInv` says of each request what its stage has secured: from the row lock
on, its call is live and locked (`RowOK`); from the advisory lock on, the member
is locked and in no other call (`Secured`, `SlotOK`); who creates a call has its
id alone (`FreshOK`).  The step that matters is the commit of one request
seen by another (`OthersSurviveCommit`): the two work on different calls, because
both would hold the row, and the commit binds only members it has locked
itself, so none that the other has secured.

The argument about the counts goes once round a run of the sweep: before a
listing nobody's count exceeds his misses; the listing adds a miss to whoever it
does not show; judging takes it.  With a second run the counts belong to nobody,
and the property fails (section 5).

The shift of the claims is a loop over rows, each row two statements, each
statement sent to a connection that may be somebody else's.  `Progress` says how
far the loop has come: of what was read, the stale claims already handled are
gone, everybody in the queue has kept his, `taken` is who has somebody, and each
coordinator has as many members as before, less the claim that is just being
moved, or nobody is left to give.  `Whole` says it of `table` with the rows of
the shift's open transaction on top, for a request whose `clean` is still true,
and that the table beneath is as it was read.  Every answer to a request takes
`clean` from whoever shares the connection or has read what was changed
(`AnsweredShift`), so that a step of another either leaves the shift alone or
stains it; the steps of the shift itself are `DeletedProgress` and
`PlacedProgress`, which count members (`LoadMoves`).  Without the condition
`clean` the property is false, and `ShiftTakesOnlyFree` is (section 5).

The locks: a request that holds a row and waits for a slot is past all rows, and
one that waits for its second slot holds a lower one.  So along a chain of
waiting the stages and then the slots only rise, and a circle is impossible.
Members may be without number there, but those who wait have a connection, and
`PoolIsBounded` makes them finitely many, so that one of them has the highest
slot.

Only model-checked: what needs fairness (`RingingResolves`, `RequestsFinish`,
`GhostsCleared`, `StreaksForgotten`, `NobodyLingers`), which is out of reach of
the prover.  Every other property of a run that passes is the subject of a
theorem.

## 5. Findings

* `calls_limit` — `issueCallToken` counts participants only for those without a
  row.  Who left a full conference gets back in beyond the limit.
* `sessions_lock` — `return rotateAccessByRefreshTokenOnce(…)` in a `try` with a
  `finally` does not await, so the Redis lock is deleted while the rotation is
  still going.  A second tab gets the lock and exchanges the token again, or is
  signed out because it is revoked and no copy of the answer is there yet.  The
  branch without Redis, which shares the promise, is right
  (`OneComputationAlone`).
* `claims_shift` — the repair reads who has no coordinator before its
  transaction and writes with `ON CONFLICT DO UPDATE`: a member who has been
  assigned in between is taken from his coordinator.
* `presence_editor` — the web application sends `service_plan:join` as soon as
  the socket is open; the hub listens only after `ready`.  The editor is not in
  the room of his plan until he opens another one.  The mobile application and
  the broadcast viewers wait for `ready`.

Also met while modelling, without a run of their own:

* Calls: `acceptCall` asks for a participant row, which the initiator has too;
  accepting his own call makes it active while the callee's row still says
  ringing (`callsService.ts:1059`; `declineCall` has the check).  The sweep lists
  empty calls without a lock and looks again only at the status: a member who
  came back in between is joined in a call that ends as empty (`:2153`).
  Deleting the account of the only joined member leaves the call active and
  empty until the sweep (hence the condition in `MeetingHasSomeone`).  With
  `DB_POOL_MAX = 1` a handler that wants a second connection can only time out.
* Sweep: `cron.schedule` does not wait for the previous run, and the runs share
  the counts: with `Ticks = {t1, t2}` TLC finds `RemovedAfterMisses` violated.
  The grace period counts from `joined_at`, which a return does not renew
  (`:1959`).  A run that cannot reach the Room Service drops the counts of the
  calls it skips (`:2051`).  A room that LiveKit does not know lists nobody, so
  everybody in the call is counted as missing.
* Sessions: a refresh that fails between the revocation of the old token and
  the insertion of the new one has lost the session (`authService.ts:1710`); an
  answer that arrives after sign-out sets the cookies again.
* Claims: DDL runs on every request and, inside an open transaction, keeps
  everybody else from the table; a request's `COMMIT` may end another's
  transaction and its own stay open.
* Hub: `leave` is handled at once and overtakes an earlier `join` that is being
  looked up, so that a page may stay in the room of a chat it has closed (that of
  the chat on its screen it is in: `OpenChatIsJoined`); a client removed meanwhile is put into a room all the same; who is
  removed from a chat stays in its room until he reconnects; a failed read of
  the conversations leaves a page that is "ready" in no room; a member who
  reconnects quickly may be announced as offline afterwards (`hurried`).

## 6. Not modelled, and the plan

Inside the calls: `reportCallQuality`, the effects on LiveKit after COMMIT,
row locks on members (foreign keys) and on invitations, crashes of the server
(a transaction then rolls back, as in `Timeout`; the counts of the sweep are
lost, as in `Prune`).  Inside the sessions: access tokens and their list of
revoked ones.  Inside the hub: the fan-out between processes.

Outside: planners, calendar, songbook, bible, feed and the assistant are single
statements over content with hardly a state that two actors share; the user
interfaces (most of the repository's lines) render it.  The mailings,
notification delivery and the backup job mark what they have done in one
statement each; their texts are formatting.

What a continuation would take up:

| Subject | Promise | Theorem |
|---|---|---|
| room deletion, removal of participants and notifications after COMMIT, against tokens issued before and quick returns | the room empties once its call is over | a room that is deleted belongs to a call that is over |
| two processes behind Redis, and a lock that is held until the rotation is over | one chain, as without Redis | `OneComputation` for the repaired lock |
| the claims on a connection of their own | every shift is whole | `ShiftIsWhole` without `clean` |
| lost updates of `calls.metadata`; mailings that are sent once | every report is kept | |

