---------------------------- MODULE PresenceHub ----------------------------
(***************************************************************************)
(* Who is connected, and who listens in which room: one instance of        *)
(* src/realtime/wsHub.ts, await by await, with the pages that talk to it:  *)
(* web-react/src/lib/realtimeWsClient.ts and mobile/src/lib/realtimeWs.ts. *)
(*                                                                         *)
(* A page sends "auth" and goes on talking.  The hub takes several awaits  *)
(* to admit it and listens to nothing meanwhile, the end of the connection *)
(* included: a connection lost then is found out by the heartbeat alone.   *)
(***************************************************************************)
EXTENDS Naturals, Sequences, FiniteSets

CONSTANTS
  Members,     \* the accounts
  Sockets,     \* connections at a time; an identity is used again
  Chats,       \* conversations
  Plans,       \* service plans, whose editors see each other
  Owner,       \* Owner[s]: whose connection s is
  App,         \* App[s]: the program at the other end, "web" or "mobile"
  Screens,     \* Screens[s]: what may come on the screen of s
  MaxInbox,    \* bound: a page with so many messages on their way sends no more
  MaxPending,  \* bound: departures of one member that are being written
  NoRoom

Rooms == Chats \cup Plans

ASSUME HubAssumption ==
  /\ Chats \cap Plans = {} /\ NoRoom \notin Rooms
  /\ IsFiniteSet(Sockets)
  /\ Owner \in [Sockets -> Members]
  /\ App \in [Sockets -> {"web", "mobile"}]
  /\ \A s \in Sockets : Screens[s] \subseteq Rooms \cup {NoRoom}
  /\ \A s \in Sockets : App[s] = "mobile" => Screens[s] \cap Plans = {}
  /\ MaxInbox \in Nat \ {0} /\ MaxPending \in Nat \ {0}

VARIABLES
  \* the pages
  open,     \* open[s]: the chat or plan on its screen
  shown,    \* shown[s]: whom it shows as online (chatStore.onlineMembers)
  inbox,    \* inbox[s]: what it has sent and the hub has not yet received
  \* the hub
  wire,     \* wire[s]: the connection works
  stage,    \* stage[s]: how far handleNewSocket has come
  fetched,  \* fetched[s]: the conversations found for it
  asked,    \* asked[s]: its requests to join that are being looked up
  age,      \* age[s]: ticks since the last pong
  clients,  \* clientsByWs; clientsByMember is the same by member
  inRoom,   \* rooms
  online,   \* onlineMembers
  leaving,  \* leaving[m]: departures whose UPDATE is under way
  \* the database
  rows,     \* conversation_participants with left_at IS NULL
  adding,   \* those inserted whom ensureMemberInRoom is still to be told of
  \* history
  hurried,  \* who came back before his departure was written
  missed    \* for whom something could not be read

page == <<open, shown, inbox>>
hub == <<clients, inRoom, online, leaving>>
db == <<rows, adding>>
history == <<hurried, missed>>
vars == <<page, wire, stage, fetched, asked, age, hub, db, history>>

\* What handleNewSocket is waiting for: the first message, the session and
\* the name, the conversations, their arrival; "done" when it has given up.
Stages == {"done", "auth", "session", "query", "rooms", "ready"}

Auth == [type |-> "auth", room |-> NoRoom]
Join(r) == [type |-> "join", room |-> r]
Leave(r) == [type |-> "leave", room |-> r]
Messages == {Auth} \cup {Join(r) : r \in Rooms} \cup {Leave(r) : r \in Rooms}

Lookups == [room : Rooms, answer : {"none", "yes", "no"}]

\* Every variable has its type.
TypeOK ==
  /\ open \in [Sockets -> Rooms \cup {NoRoom}]
  /\ shown \in [Sockets -> SUBSET Members]
  /\ inbox \in [Sockets -> Seq(Messages)]
  /\ wire \in [Sockets -> BOOLEAN]
  /\ stage \in [Sockets -> Stages]
  /\ fetched \in [Sockets -> SUBSET Chats]
  /\ asked \in [Sockets -> SUBSET Lookups]
  /\ age \in [Sockets -> 0..2]
  /\ clients \subseteq Sockets
  /\ inRoom \in [Rooms -> SUBSET Sockets]
  /\ online \subseteq Members
  /\ leaving \in [Members -> Nat]
  /\ rows \subseteq Members \X Chats
  /\ adding \subseteq Members \X Chats
  /\ hurried \subseteq Members
  /\ missed \subseteq Sockets

Init ==
  /\ open = [s \in Sockets |-> NoRoom]
  /\ shown = [s \in Sockets |-> {}]
  /\ inbox = [s \in Sockets |-> << >>]
  /\ wire = [s \in Sockets |-> FALSE]
  /\ stage = [s \in Sockets |-> "done"]
  /\ fetched = [s \in Sockets |-> {}]
  /\ asked = [s \in Sockets |-> {}]
  /\ age = [s \in Sockets |-> 0]
  /\ clients = {} /\ online = {}
  /\ inRoom = [r \in Rooms |-> {}]
  /\ leaving = [m \in Members |-> 0]
  /\ rows \in SUBSET (Members \X Chats)
  /\ adding = {} /\ hurried = {} /\ missed = {}

-----------------------------------------------------------------------------
\* deliverLocalPresence: all whose socket is OPEN are told.
Tell(CS, ids, is) ==
  [s \in Sockets |-> IF s \notin CS \/ ~wire[s] THEN shown[s]
                     ELSE IF is THEN shown[s] \cup ids ELSE shown[s] \ ids]

\* Mutant: whoever closes a page is taken to have closed them all.
DepartedAny(S) == {m \in Members : \E s \in S \cap clients : Owner[s] = m}

\* Whoever loses his last client is offline; his last_seen_at is written
\* before anybody is told.
Departed(S) == {m \in Members : /\ \E s \in S \cap clients : Owner[s] = m
                                /\ \A s \in clients \ S : Owner[s] # m}

\* removeClient for every socket of S that is a client.
Remove(S) ==
  /\ clients' = clients \ S
  /\ inRoom' = [r \in Rooms |-> inRoom[r] \ (S \cap clients)]
  /\ online' = online \ Departed(S)
  /\ leaving' = [m \in Members |-> IF m \in Departed(S) THEN leaving[m] + 1
                                                       ELSE leaving[m]]

\* The connections of S are over; what was on its way is lost.
Cut(S) ==
  /\ wire' = [s \in Sockets |-> wire[s] /\ s \notin S]
  /\ inbox' = [s \in Sockets |-> IF s \in S THEN << >> ELSE inbox[s]]
  /\ shown' = [s \in Sockets |-> IF s \in S THEN {} ELSE shown[s]]
  /\ open' = [s \in Sockets |-> IF s \in S THEN NoRoom ELSE open[s]]
  /\ missed' = missed \ S

\* Nothing more is going to happen for them, unless something is awaited.
Over(S) == [s \in Sockets |-> IF s \in S /\ stage[s] \in {"auth", "ready"}
                                THEN "done" ELSE stage[s]]

-----------------------------------------------------------------------------
\* Nothing is left of the connection that had this identity before.
Free(s) ==
  /\ ~wire[s] /\ stage[s] = "done" /\ s \notin clients
  /\ asked[s] = {} /\ \A r \in Rooms : s \notin inRoom[r]

\* onopen: the web application sends "auth" and at once asks for the chat or
\* the plan on its screen; the mobile one waits for "ready".
Connect(s, r) ==
  /\ Free(s) /\ leaving[Owner[s]] < MaxPending
  /\ open' = [open EXCEPT ![s] = r]
  /\ inbox' = [inbox EXCEPT ![s] = IF App[s] = "web" /\ r # NoRoom
                                     THEN <<Auth, Join(r)>> ELSE <<Auth>>]
  /\ wire' = [wire EXCEPT ![s] = TRUE]
  /\ stage' = [stage EXCEPT ![s] = "auth"]
  /\ UNCHANGED <<shown, fetched, asked, age, hub, db, history>>

\* Another chat or plan comes on the screen: the web application tells the
\* hub of plans (useServicePlanEditorsPresence), the mobile one of chats
\* (setActiveMessengerConversation).
Speaks(s, r) == r \in IF App[s] = "web" THEN Plans ELSE Chats

Turn(s, r) ==
  LET left == IF Speaks(s, open[s]) THEN <<Leave(open[s])>> ELSE << >>
      entered == IF Speaks(s, r) THEN <<Join(r)>> ELSE << >>
  IN  /\ wire[s] /\ r # open[s]
      /\ Len(inbox[s] \o left \o entered) <= MaxInbox
      /\ open' = [open EXCEPT ![s] = r]
      /\ inbox' = [inbox EXCEPT ![s] = @ \o left \o entered]
      /\ UNCHANGED <<shown, wire, stage, fetched, asked, age, hub, db, history>>

\* The connection ends.  The hub sees it once "ready" has been sent ("close",
\* "error"), if the end is not silent.
Close(s) ==
  /\ wire[s] /\ Cut({s})
  /\ Remove(IF stage[s] = "ready" THEN {s} ELSE {})
  /\ stage' = Over({s})
  /\ age' = IF stage[s] = "ready" THEN [age EXCEPT ![s] = 0] ELSE age
  /\ UNCHANGED <<fetched, asked, db, hurried>>

Vanish(s) ==
  /\ wire[s] /\ Cut({s})
  /\ UNCHANGED <<stage, fetched, asked, age, hub, db, hurried>>

-----------------------------------------------------------------------------
\* The first message; until "ready" nobody listens to the next ones.
ReceiveAuth(s) ==
  /\ inbox[s] # << >> /\ stage[s] = "auth"
  /\ inbox' = [inbox EXCEPT ![s] = Tail(@)]
  /\ stage' = [stage EXCEPT ![s] = "session"]
  /\ UNCHANGED <<open, shown, wire, fetched, asked, age, hub, db, history>>

Unheard(s) ==
  /\ inbox[s] # << >> /\ stage[s] \in {"session", "query", "rooms"}
  /\ inbox' = [inbox EXCEPT ![s] = Tail(@)]
  /\ UNCHANGED <<open, shown, wire, stage, fetched, asked, age, hub, db, history>>

\* fail(): AUTH_TIMEOUT_MS, no session, or too many reconnects.
Reject(s) ==
  /\ stage[s] \in {"auth", "session"}
  /\ Cut({s})
  /\ stage' = [stage EXCEPT ![s] = "done"]
  /\ UNCHANGED <<fetched, asked, age, hub, db, hurried>>

\* The session is good: the client is registered and the others are told,
\* whether or not the connection still works.
Register(s) ==
  LET m == Owner[s]
      new == m \notin online
  IN  /\ stage[s] = "session"
      /\ stage' = [stage EXCEPT ![s] = "query"]
      /\ age' = [age EXCEPT ![s] = 0]
      /\ clients' = clients \cup {s}
      /\ online' = online \cup {m}
      /\ shown' = IF new THEN Tell(clients', {m}, TRUE) ELSE shown
      /\ hurried' = IF ~new THEN hurried
                    ELSE IF leaving[m] > 0 THEN hurried \cup {m} ELSE hurried \ {m}
      /\ UNCHANGED <<open, inbox, wire, fetched, asked, inRoom, leaving, db, missed>>

\* The conversations of the member; an error is ignored.
Fetch(s, found) ==
  /\ stage[s] = "query"
  /\ stage' = [stage EXCEPT ![s] = "rooms"]
  /\ fetched' = [fetched EXCEPT ![s] = IF found THEN {c \in Chats : <<Owner[s], c>> \in rows}
                                                ELSE {}]
  /\ missed' = IF found \/ ~wire[s] THEN missed ELSE missed \cup {s}
  /\ UNCHANGED <<page, wire, asked, age, hub, db, hurried>>

\* Mutant: it does not, like the web application.
AnswerNot(s) == << >>

\* The mobile application answers "ready".
Answer(s) == IF wire[s] /\ App[s] = "mobile" /\ open[s] # NoRoom
               THEN <<Join(open[s])>> ELSE << >>

\* "ready" with the list of those online.
Ready(s) ==
  /\ stage[s] = "rooms"
  /\ stage' = [stage EXCEPT ![s] = IF s \in clients THEN "ready" ELSE "done"]
  /\ fetched' = [fetched EXCEPT ![s] = {}]
  /\ inRoom' = [r \in Rooms |-> IF r \in fetched[s] THEN inRoom[r] \cup {s} ELSE inRoom[r]]
  /\ shown' = IF wire[s] THEN [shown EXCEPT ![s] = online] ELSE shown
  /\ inbox' = [inbox EXCEPT ![s] = @ \o Answer(s)]
  /\ UNCHANGED <<open, wire, asked, age, clients, online, leaving, db, history>>

\* handleClientMessage: a request to join is looked up, leaving is at once.
Receive(s) ==
  LET msg == Head(inbox[s])
  IN  /\ inbox[s] # << >> /\ stage[s] = "ready"
      /\ inbox' = [inbox EXCEPT ![s] = Tail(@)]
      /\ \/ /\ msg.type = "join"
            /\ asked' = [asked EXCEPT ![s] = @ \cup {[room |-> msg.room, answer |-> "none"]}]
            /\ UNCHANGED inRoom
         \/ /\ msg.type = "leave"
            /\ inRoom' = [inRoom EXCEPT ![msg.room] = @ \ {s}]
            /\ UNCHANGED asked
      /\ UNCHANGED <<open, shown, wire, stage, fetched, age, clients, online,
                     leaving, db, history>>

\* isMemberInConversation; memberCanJoinServicePlanPresenceSession says yes
\* to those who edit plans.
LookUp(s, q) ==
  LET yes == q.room \in Plans \/ <<Owner[s], q.room>> \in rows
  IN  /\ q \in asked[s] /\ q.answer = "none"
      /\ asked' = [asked EXCEPT ![s] = (@ \ {q}) \cup
                     {[q EXCEPT !.answer = IF yes THEN "yes" ELSE "no"]}]
      /\ UNCHANGED <<page, wire, stage, fetched, age, hub, db, history>>

\* An error of the look-up is ignored.
Unanswered(s, q) ==
  /\ q \in asked[s] /\ q.answer = "none"
  /\ asked' = [asked EXCEPT ![s] = @ \ {q}]
  /\ missed' = IF wire[s] THEN missed \cup {s} ELSE missed
  /\ UNCHANGED <<page, wire, stage, fetched, age, hub, db, hurried>>

\* The answer arrives, wherever the client may be by now.
Admit(s, q) ==
  /\ q \in asked[s] /\ q.answer = "yes"
  /\ asked' = [asked EXCEPT ![s] = @ \ {q}]
  /\ inRoom' = [inRoom EXCEPT ![q.room] = @ \cup {s}]
  /\ UNCHANGED <<page, wire, stage, fetched, age, clients, online, leaving, db, history>>

Forbid(s, q) ==
  /\ q \in asked[s] /\ q.answer = "no"
  /\ asked' = [asked EXCEPT ![s] = @ \ {q}]
  /\ Cut({s}) /\ Remove({s})
  /\ stage' = Over({s})
  /\ age' = [age EXCEPT ![s] = 0]
  /\ UNCHANGED <<fetched, db, hurried>>

-----------------------------------------------------------------------------
\* Mutant: the heartbeat asks for pongs and never looks at them.
TickAsking(late) ==
  /\ clients # {} /\ late = {}
  /\ age' = [s \in Sockets |-> IF s \in clients /\ age[s] < 2 THEN age[s] + 1 ELSE age[s]]
  /\ UNCHANGED <<page, wire, stage, fetched, asked, hub, db, history>>

\* A tick of the heartbeat, every 25 s: who has not answered for 35 s is
\* removed.  After one unanswered tick that depends on when he last did.
Tick(late) ==
  LET stale == {s \in clients : age[s] = 2 \/ (age[s] = 1 /\ s \in late)}
  IN  /\ clients # {}
      /\ Cut(stale) /\ Remove(stale)
      /\ stage' = Over(stale)
      /\ age' = [s \in Sockets |-> IF s \in clients \ stale THEN age[s] + 1 ELSE 0]
      /\ UNCHANGED <<fetched, asked, db, hurried>>

Pong(s) ==
  /\ wire[s] /\ stage[s] = "ready" /\ age[s] > 0
  /\ age' = [age EXCEPT ![s] = 0]
  /\ UNCHANGED <<page, wire, stage, fetched, asked, hub, db, history>>

\* persistLastSeenAndBroadcastOffline, after the UPDATE.
TellOffline(m) ==
  /\ leaving[m] > 0
  /\ leaving' = [leaving EXCEPT ![m] = @ - 1]
  /\ shown' = Tell(clients, {m}, FALSE)
  /\ UNCHANGED <<open, inbox, wire, stage, fetched, asked, age, clients, inRoom,
                 online, db, history>>

-----------------------------------------------------------------------------
\* A member is added to a chat, and then to its room: ensureMemberInRoom.
AddParticipant(m, c) ==
  /\ <<m, c>> \notin rows
  /\ rows' = rows \cup {<<m, c>>} /\ adding' = adding \cup {<<m, c>>}
  /\ UNCHANGED <<page, wire, stage, fetched, asked, age, hub, history>>

\* Mutant: clients that have not had "ready" are passed over.
EnsureReadyOnly(m, c) ==
  /\ <<m, c>> \in adding /\ adding' = adding \ {<<m, c>>}
  /\ inRoom' = [inRoom EXCEPT ![c] = @ \cup {s \in clients : Owner[s] = m /\ stage[s] = "ready"}]
  /\ UNCHANGED <<page, wire, stage, fetched, asked, age, clients, online, leaving,
                 rows, history>>

\* Mutant: the room gets the member's id.
EnsureMemberId(m, c) ==
  /\ <<m, c>> \in adding /\ adding' = adding \ {<<m, c>>}
  /\ inRoom' = [inRoom EXCEPT ![c] = @ \cup {m}]
  /\ UNCHANGED <<page, wire, stage, fetched, asked, age, clients, online, leaving,
                 rows, history>>

\* ensureMemberInRoomLocal: every client of the member, "ready" or not.
EnsureMemberInRoom(m, c) ==
  /\ <<m, c>> \in adding /\ adding' = adding \ {<<m, c>>}
  /\ inRoom' = [inRoom EXCEPT ![c] = @ \cup {s \in clients : Owner[s] = m}]
  /\ UNCHANGED <<page, wire, stage, fetched, asked, age, clients, online, leaving,
                 rows, history>>

\* Removed from a chat: its room is left as it is.
RemoveParticipant(m, c) ==
  /\ <<m, c>> \in rows /\ rows' = rows \ {<<m, c>>}
  /\ UNCHANGED <<page, wire, stage, fetched, asked, age, hub, adding, history>>

-----------------------------------------------------------------------------
\* What the hub does next for s without anybody's doing.
Handle(s) ==
  \/ ReceiveAuth(s) \/ Unheard(s) \/ Receive(s)
  \/ \E q \in asked[s] : LookUp(s, q) \/ Unanswered(s, q) \/ Admit(s, q) \/ Forbid(s, q)

Progress(s) ==
  Register(s) \/ Reject(s) \/ (\E found \in BOOLEAN : Fetch(s, found)) \/ Ready(s)

Next ==
  \/ \E s \in Sockets :
       \/ \E r \in Screens[s] : Connect(s, r) \/ Turn(s, r)
       \/ Close(s) \/ Vanish(s) \/ Pong(s) \/ Handle(s) \/ Progress(s)
  \/ \E late \in SUBSET Sockets : Tick(late)
  \/ \E m \in Members :
       \/ TellOffline(m)
       \/ \E c \in Chats : AddParticipant(m, c) \/ EnsureMemberInRoom(m, c)
                             \/ RemoveParticipant(m, c)

Spec == Init /\ [][Next]_vars

\* Timers fire and the database answers.
FairSpec ==
  /\ Spec
  /\ \A s \in Sockets : WF_vars(Progress(s)) /\ WF_vars(Handle(s))
  /\ \A m \in Members : WF_vars(TellOffline(m))
  /\ WF_vars(\E late \in SUBSET Sockets : Tick(late))

-----------------------------------------------------------------------------
\* The page of s has been told who is online and hears of every change.
Watching(s) == wire[s] /\ stage[s] = "ready" /\ s \in clients

\* A page shows those who are connected, except that who has left is shown
\* until his departure is written, and who came back before that may be
\* missing (broadcastPresence, persistLastSeenAndBroadcastOffline).
Connected == {Owner[s] : s \in clients}

ShownIsTrue ==
  \A s \in Sockets : Watching(s) =>
    /\ shown[s] \ Connected \subseteq {m \in Members : leaving[m] > 0}
    /\ Connected \ shown[s] \subseteq hurried

\* A web page hears every chat of its member, however adding him and his
\* connecting interleave (handleNewSocket, ensureMemberInRoom).
ChatsAreHeard ==
  \A s \in Sockets, c \in Chats :
    Watching(s) /\ App[s] = "web" /\ s \notin missed
      /\ <<Owner[s], c>> \in rows \ adding => s \in inRoom[c]

\* Whoever has no working connection any more is in the end online for
\* nobody, and everybody has been told, even if his connection broke while
\* it was being admitted and its end was seen by no handler (heartbeat).
Away(m) == \A s \in Sockets : wire[s] => Owner[s] # m

Forgotten(m) == /\ m \notin online /\ leaving[m] = 0
                /\ \A s \in Sockets : m \notin shown[s]

NobodyLingers == \A m \in Members : <>[]Away(m) => <>[]Forgotten(m)

\* A page that has a plan on its screen is in the plan's room, once all it
\* has sent has been handled ("первый join уйдёт после subscribeRealtimeOpen").
Settled(s) == Watching(s) /\ inbox[s] = << >> /\ asked[s] = {} /\ s \notin missed

EditorIsListed ==
  \A s \in Sockets : Settled(s) /\ open[s] \in Plans => s \in inRoom[open[s]]

\* A mobile application is in the room of the chat on its screen, once all it
\* has sent has been handled: whatever was opened and closed while it was
\* being admitted, and although "leave" overtakes the look-up of an earlier
\* "join" (setActiveMessengerConversation, handleClientMessage).
OpenChatIsJoined ==
  \A s \in Sockets :
    Settled(s) /\ App[s] = "mobile" /\ open[s] \in Chats => s \in inRoom[open[s]]
=============================================================================
