--------------------------- MODULE PresenceProofs ---------------------------
(***************************************************************************)
(* Proofs about PresenceHub, for any number of members, connections,       *)
(* chats and plans.                                                        *)
(*                                                                         *)
(* What the hub knows (Registry) is that its sets agree with each other    *)
(* and with the stage of every connection, and that whoever is connected   *)
(* while a departure of his is being written has come back too soon.  That *)
(* makes ShownIsTrue inductive.  ChatsAreHeard needs to be followed from   *)
(* the moment the conversations are fetched (Heard), and that a web page   *)
(* never leaves a chat (Mail).                                             *)
(*                                                                         *)
(* A mobile application does leave chats, and "leave" overtakes "join".    *)
(* What it asks for last is what counts: the request is still on its way,  *)
(* with no "leave" behind it, or has been received (Listening).            *)
(***************************************************************************)
EXTENDS PresenceHub, TLAPS

Registry ==
  /\ \A m \in Members : m \in online <=> \E s \in clients : Owner[s] = m
  /\ \A s \in clients : stage[s] \in {"query", "rooms", "ready"}
  /\ \A s \in Sockets : stage[s] = "ready" => s \in clients
  /\ \A m \in Members : leaving[m] > 0 /\ m \in online => m \in hurried

Heard ==
  \A s \in clients, c \in Chats :
    wire[s] /\ App[s] = "web" /\ s \notin missed /\ <<Owner[s], c>> \in rows \ adding
      => /\ stage[s] = "rooms" => c \in fetched[s] \/ s \in inRoom[c]
         /\ stage[s] = "ready" => s \in inRoom[c]

Mail ==
  \A s \in Sockets : App[s] = "web" =>
    \A i \in 1..Len(inbox[s]) :
      inbox[s][i].type = "leave" => inbox[s][i].room \in Plans

Inv == TypeOK /\ Registry /\ ShownIsTrue /\ Heard /\ Mail

\* Registry says that online is who is connected.
LEMMA OnlineIsConnected == ASSUME TypeOK, Registry PROVE online = Connected
BY HubAssumption DEF TypeOK, Registry, Connected

\* Telling a set of pages of somebody's coming or going keeps what is shown
\* a set of members.
LEMMA TellTyped ==
  ASSUME TypeOK, NEW CS, NEW ids \in SUBSET Members, NEW is \in BOOLEAN
  PROVE  Tell(CS, ids, is) \in [Sockets -> SUBSET Members]
<1>1. \A s \in Sockets : shown[s] \in SUBSET Members
  BY DEF TypeOK
<1> QED
  BY <1>1 DEF Tell

\* Whoever goes because the connections of S are over is shown no longer than
\* his departure takes to be written; the pages that remain see the others as
\* before.
LEMMA GoneIsLeaving ==
  ASSUME TypeOK, ShownIsTrue, NEW S \in SUBSET Sockets, NEW R \in SUBSET S,
         Cut(S), Remove(R), stage' = Over(S), hurried' = hurried
  PROVE  ShownIsTrue'
<1>1. /\ \A m \in Members : leaving[m] \in Nat /\ leaving'[m] \in Nat /\ leaving'[m] >= leaving[m]
      /\ \A m \in Departed(R) : leaving'[m] > 0
  <2>1. /\ \A m \in Members : leaving[m] \in Nat
        /\ Departed(R) \subseteq Members
    BY DEF TypeOK, Departed
  <2>2. \A m \in Members : leaving'[m] = IF m \in Departed(R) THEN leaving[m] + 1 ELSE leaving[m]
    BY DEF Remove
  <2> QED
    BY <2>1, <2>2
<1>2. Connected' \subseteq Connected /\ Connected \ Connected' \subseteq Departed(R)
  <2>1. clients' = clients \ R /\ clients \subseteq Sockets
    BY DEF Remove, TypeOK
  <2>2. \A s \in clients : Owner[s] \in Members
    BY <2>1, HubAssumption
  <2> QED
    BY <2>1, <2>2 DEF Connected, Departed
<1>3. SUFFICES ASSUME NEW p \in Sockets, Watching(p)'
               PROVE  /\ shown'[p] \ Connected' \subseteq {m \in Members : leaving'[m] > 0}
                      /\ Connected' \ shown'[p] \subseteq hurried'
  BY DEF ShownIsTrue
<1>4. p \notin S /\ wire[p] /\ shown'[p] = shown[p]
  BY <1>3 DEF Watching, Cut
<1>5. stage[p] = "ready" /\ p \in clients
  BY <1>3, <1>4 DEF Watching, Over, Remove
<1>6. /\ shown[p] \ Connected \subseteq {m \in Members : leaving[m] > 0}
      /\ Connected \ shown[p] \subseteq hurried
  BY <1>4, <1>5 DEF ShownIsTrue, Watching
<1>7. ASSUME NEW m \in shown'[p] \ Connected' PROVE m \in Members /\ leaving'[m] > 0
  <2>1. CASE m \in Connected
    <3>1. m \in Departed(R)
      BY <1>2, <1>7, <2>1
    <3> QED
      BY <1>1, <3>1 DEF Departed
  <2>2. CASE m \notin Connected
    <3>1. m \in Members /\ leaving[m] > 0
      BY <1>4, <1>6, <1>7, <2>2
    <3> QED
      BY <1>1, <3>1
  <2> QED
    BY <2>1, <2>2
<1> QED
  BY <1>2, <1>4, <1>6, <1>7

\* What the pages send is a message.
LEMMA MessagesAre ==
  /\ Auth \in Messages
  /\ \A r \in Rooms : Join(r) \in Messages /\ Leave(r) \in Messages
BY DEF Messages

\* Only "auth" is about no room.
LEMMA MessagesHaveRooms ==
  ASSUME NEW msg \in Messages, msg.type # "auth" PROVE msg.room \in Rooms
BY DEF Messages, Auth, Join, Leave

\* The web application answers nothing, the mobile one with a request.
LEMMA AnswerTyped ==
  ASSUME TypeOK, NEW s \in Sockets
  PROVE  Answer(s) \in Seq(Messages) /\ (App[s] = "web" => inbox[s] \o Answer(s) = inbox[s])
<1>1. CASE Answer(s) = << >>
  BY <1>1 DEF TypeOK
<1>2. CASE Answer(s) = <<Join(open[s])>> /\ open[s] # NoRoom /\ App[s] = "mobile"
  <2>1. Join(open[s]) \in Messages
    BY <1>2, MessagesAre DEF TypeOK
  <2> QED
    BY <1>2, <2>1
<1> QED
  BY <1>1, <1>2 DEF Answer

\* The initial states satisfy the invariant.
LEMMA InitInv == Init => Inv
<1> SUFFICES ASSUME Init PROVE Inv
  OBVIOUS
<1> USE HubAssumption
<1>1. TypeOK
  BY DEF Init, TypeOK, Stages
<1>2. Registry
  BY DEF Init, Registry
<1>3. ShownIsTrue
  BY DEF Init, ShownIsTrue, Watching
<1>4. Heard
  BY DEF Init, Heard
<1>5. Mail
  BY DEF Init, Mail
<1> QED
  BY <1>1, <1>2, <1>3, <1>4, <1>5 DEF Inv

\* Connect keeps the invariant.
LEMMA ConnectInv == ASSUME Inv, NEW s \in Sockets, NEW r \in Screens[s], Connect(s, r) PROVE Inv'
<1> USE HubAssumption DEF Inv, page, hub, db, history
<1>1. TypeOK'
  <2>1. /\ r # NoRoom => r \in Rooms
        /\ inbox'[s] \in {<<Auth>>, <<Auth, Join(r)>>} /\ (r = NoRoom => inbox'[s] = <<Auth>>)
    BY DEF TypeOK, Connect
  <2>2. inbox'[s] \in Seq(Messages)
    <3>1. CASE r = NoRoom
      <4>1. <<Auth>> \in Seq(Messages)
        BY MessagesAre
      <4> QED
        BY <4>1, <3>1, <2>1
    <3>2. CASE r \in Rooms
      <4>1. Auth \in Messages /\ Join(r) \in Messages
        BY <3>2, MessagesAre
      <4>2. <<Auth>> \in Seq(Messages) /\ <<Auth, Join(r)>> \in Seq(Messages)
        BY <4>1
      <4> QED
        BY <4>2, <2>1
    <3> QED
      BY <3>1, <3>2, <2>1
  <2>3. inbox' \in [Sockets -> Seq(Messages)]
    BY <2>2 DEF TypeOK, Connect
  <2>4. r \in Rooms \cup {NoRoom}
    OBVIOUS
  <2> QED
    BY <2>3, <2>4 DEF TypeOK, Connect, Stages
<1>2. Registry'
  BY DEF TypeOK, Registry, Connect, Free
<1>3. ShownIsTrue'
  BY OnlineIsConnected DEF TypeOK, Registry, ShownIsTrue, Watching, Connected, Connect, Free
<1>4. Heard'
  BY DEF TypeOK, Registry, Heard, Rooms, Connect, Free
<1>5. Mail'
  BY DEF TypeOK, Mail, Auth, Join, Leave, Connect, Free
<1> QED
  BY <1>1, <1>2, <1>3, <1>4, <1>5

\* Turn keeps the invariant.
LEMMA TurnInv == ASSUME Inv, NEW s \in Sockets, NEW r \in Screens[s], Turn(s, r) PROVE Inv'
<1> USE HubAssumption DEF Inv, page, hub, db, history
<1> DEFINE left == IF Speaks(s, open[s]) THEN <<Leave(open[s])>> ELSE << >>
           entered == IF Speaks(s, r) THEN <<Join(r)>> ELSE << >>
<1>a. /\ inbox' = [inbox EXCEPT ![s] = inbox[s] \o left \o entered]
      /\ inbox[s] \in Seq(Messages)
  BY DEF TypeOK, Turn
<1>b. left \in Seq(Messages) /\ entered \in Seq(Messages)
  BY MessagesAre DEF Speaks, Rooms
<1>1. TypeOK'
  <2>1. inbox[s] \o left \in Seq(Messages)
    BY <1>a, <1>b
  <2>2. inbox[s] \o left \o entered \in Seq(Messages)
    BY <2>1, <1>b
  <2>3. inbox' \in [Sockets -> Seq(Messages)]
    BY <1>a, <2>2 DEF TypeOK
  <2> QED
    BY <2>3 DEF TypeOK, Turn
<1>2. Registry'
  BY DEF TypeOK, Registry, Turn, Speaks
<1>3. ShownIsTrue'
  BY OnlineIsConnected DEF TypeOK, Registry, ShownIsTrue, Watching, Connected, Turn, Speaks
<1>4. Heard'
  BY DEF TypeOK, Registry, Heard, Rooms, Turn, Speaks
<1>5. Mail'
  <2> SUFFICES ASSUME NEW t \in Sockets, App[t] = "web",
                      NEW i \in 1..Len(inbox'[t]), inbox'[t][i].type = "leave"
               PROVE  inbox'[t][i].room \in Plans
    BY DEF Mail
  <2>1. CASE t # s
    BY <2>1, <1>a DEF TypeOK, Mail
  <2>2. CASE t = s
    <3>1. inbox'[s] = inbox[s] \o left \o entered
      BY <1>a DEF TypeOK
    <3>2. left = << >> \/ (left = <<Leave(open[s])>> /\ open[s] \in Plans)
      BY <2>2 DEF Speaks
    <3>3. entered = << >> \/ entered = <<Join(r)>>
      OBVIOUS
    <3>4. CASE i \in 1..Len(inbox[s])
      <4>1. inbox'[s][i] = inbox[s][i]
        <5> HIDE DEF left, entered
        <5>1. (inbox[s] \o left)[i] = inbox[s][i]
          BY <3>4, <1>a, <1>b
        <5>2. i \in 1..Len(inbox[s] \o left) /\ inbox[s] \o left \in Seq(Messages)
          BY <3>4, <1>a, <1>b
        <5>3. (inbox[s] \o left \o entered)[i] = (inbox[s] \o left)[i]
          BY <5>2, <1>b
        <5> QED
          BY <5>1, <5>3, <3>1
      <4> QED
        BY <4>1, <3>4, <2>2 DEF Mail
    <3>5. CASE i \notin 1..Len(inbox[s])
      <4>1. inbox'[s][i] \in {Leave(open[s]), Join(r)}
            /\ (left = << >> => inbox'[s][i] = Join(r))
        <5> HIDE DEF left, entered
        <5> DEFINE m == Leave(open[s])
                   n == Join(r)
                   box == inbox[s]
        <5>1. /\ left = << >> \/ left = <<m>>
              /\ entered = << >> \/ entered = <<n>>
          BY <3>2, <3>3
        <5>2. i \in 1..Len(box \o left \o entered) /\ i \notin 1..Len(box)
          BY <3>1, <3>5, <2>2
        <5>3. box \in Seq(Messages)
          BY <1>a
        <5> HIDE DEF m, n, box
        <5>4. (box \o left \o entered)[i] \in {m, n}
              /\ (left = << >> => (box \o left \o entered)[i] = n)
          BY <5>1, <5>2, <5>3, <1>b
        <5> QED
          BY <5>4, <3>1 DEF m, n, box
      <4>2. left # << >> => open[s] \in Plans
        BY <3>2
      <4>3. /\ Join(r).type = "join" /\ Leave(open[s]).type = "leave"
            /\ Leave(open[s]).room = open[s]
        BY DEF Join, Leave
      <4> QED
        BY <4>1, <4>2, <4>3, <2>2
    <3> QED
      BY <3>4, <3>5
  <2> QED
    BY <2>1, <2>2
<1> QED
  BY <1>1, <1>2, <1>3, <1>4, <1>5

\* Close keeps the invariant.
LEMMA CloseInv == ASSUME Inv, NEW s \in Sockets, Close(s) PROVE Inv'
<1> USE HubAssumption DEF Inv, page, hub, db, history
<1>1. TypeOK'
  BY DEF TypeOK, Rooms, Messages, Lookups, Stages, Auth, Join, Leave, Close, Cut, Remove, Departed, Over
<1>2. Registry'
  BY DEF TypeOK, Registry, Close, Cut, Remove, Departed, Over
<1>3. ShownIsTrue'
  BY GoneIsLeaving DEF Close
<1>4. Heard'
  BY DEF TypeOK, Registry, Heard, Rooms, Close, Cut, Remove, Departed, Over
<1>5. Mail'
  BY DEF TypeOK, Mail, Auth, Join, Leave, Close, Cut, Remove, Departed, Over
<1> QED
  BY <1>1, <1>2, <1>3, <1>4, <1>5

\* Vanish keeps the invariant.
LEMMA VanishInv == ASSUME Inv, NEW s \in Sockets, Vanish(s) PROVE Inv'
<1> USE HubAssumption DEF Inv, page, hub, db, history
<1>1. TypeOK'
  <2>1. inbox' \in [Sockets -> Seq(Messages)]
    BY DEF TypeOK, Vanish, Cut
  <2>2. /\ wire' \in [Sockets -> BOOLEAN]
        /\ shown' \in [Sockets -> SUBSET Members]
        /\ open' \in [Sockets -> Rooms \cup {NoRoom}]
        /\ missed' \subseteq Sockets
    BY DEF TypeOK, Vanish, Cut
  <2> QED
    BY <2>1, <2>2 DEF TypeOK, Vanish
<1>2. Registry'
  BY DEF TypeOK, Registry, Vanish, Cut
<1>3. ShownIsTrue'
  BY OnlineIsConnected DEF TypeOK, Registry, ShownIsTrue, Watching, Connected, Vanish, Cut
<1>4. Heard'
  BY DEF TypeOK, Registry, Heard, Rooms, Vanish, Cut
<1>5. Mail'
  BY DEF TypeOK, Mail, Auth, Join, Leave, Vanish, Cut
<1> QED
  BY <1>1, <1>2, <1>3, <1>4, <1>5

\* ReceiveAuth keeps the invariant.
LEMMA ReceiveAuthInv == ASSUME Inv, NEW s \in Sockets, ReceiveAuth(s) PROVE Inv'
<1> USE HubAssumption DEF Inv, page, hub, db, history
<1>1. TypeOK'
  BY DEF TypeOK, Rooms, Messages, Lookups, Stages, Auth, Join, Leave, ReceiveAuth
<1>2. Registry'
  BY DEF TypeOK, Registry, ReceiveAuth
<1>3. ShownIsTrue'
  BY OnlineIsConnected DEF TypeOK, Registry, ShownIsTrue, Watching, Connected, ReceiveAuth
<1>4. Heard'
  BY DEF TypeOK, Registry, Heard, Rooms, ReceiveAuth
<1>5. Mail'
  BY DEF TypeOK, Mail, Auth, Join, Leave, ReceiveAuth
<1> QED
  BY <1>1, <1>2, <1>3, <1>4, <1>5

\* Unheard keeps the invariant.
LEMMA UnheardInv == ASSUME Inv, NEW s \in Sockets, Unheard(s) PROVE Inv'
<1> USE HubAssumption DEF Inv, page, hub, db, history
<1>1. TypeOK'
  <2>1. Tail(inbox[s]) \in Seq(Messages)
    BY DEF TypeOK, Unheard
  <2>2. inbox' \in [Sockets -> Seq(Messages)]
    BY <2>1 DEF TypeOK, Unheard
  <2> QED
    BY <2>2 DEF TypeOK, Unheard
<1>2. Registry'
  BY DEF TypeOK, Registry, Unheard
<1>3. ShownIsTrue'
  BY OnlineIsConnected DEF TypeOK, Registry, ShownIsTrue, Watching, Connected, Unheard
<1>4. Heard'
  BY DEF TypeOK, Registry, Heard, Rooms, Unheard
<1>5. Mail'
  BY DEF TypeOK, Mail, Auth, Join, Leave, Unheard
<1> QED
  BY <1>1, <1>2, <1>3, <1>4, <1>5

\* Reject keeps the invariant.
LEMMA RejectInv == ASSUME Inv, NEW s \in Sockets, Reject(s) PROVE Inv'
<1> USE HubAssumption DEF Inv, page, hub, db, history
<1>1. TypeOK'
  BY DEF TypeOK, Rooms, Messages, Lookups, Stages, Auth, Join, Leave, Reject, Cut
<1>2. Registry'
  BY DEF TypeOK, Registry, Reject, Cut
<1>3. ShownIsTrue'
  BY OnlineIsConnected DEF TypeOK, Registry, ShownIsTrue, Watching, Connected, Reject, Cut
<1>4. Heard'
  BY DEF TypeOK, Registry, Heard, Rooms, Reject, Cut
<1>5. Mail'
  BY DEF TypeOK, Mail, Auth, Join, Leave, Reject, Cut
<1> QED
  BY <1>1, <1>2, <1>3, <1>4, <1>5

\* Register keeps the invariant.
LEMMA RegisterInv == ASSUME Inv, NEW s \in Sockets, Register(s) PROVE Inv'
<1> USE HubAssumption DEF Inv, page, hub, db, history
<1>1. TypeOK'
  <2>1. /\ Owner[s] \in Members
        /\ shown' \in [Sockets -> SUBSET Members]
    <3>1. Owner[s] \in Members
      OBVIOUS
    <3>2. Tell(clients', {Owner[s]}, TRUE) \in [Sockets -> SUBSET Members]
      BY <3>1, TellTyped
    <3> QED
      BY <3>1, <3>2 DEF TypeOK, Register
  <2>2. /\ stage' \in [Sockets -> Stages] /\ age' \in [Sockets -> 0..2]
        /\ clients' \subseteq Sockets /\ online' \subseteq Members /\ hurried' \subseteq Members
    BY <2>1 DEF TypeOK, Register, Stages
  <2> QED
    BY <2>1, <2>2 DEF TypeOK, Register
<1>2. Registry'
  BY DEF TypeOK, Registry, Register, Tell
<1>3. ShownIsTrue'
  <2> DEFINE m == Owner[s]
  <2>1. /\ m \in Members /\ online = Connected /\ Connected' = Connected \cup {m}
        /\ leaving' = leaving /\ wire' = wire
    <3>1. /\ m \in Members /\ online = Connected
      BY OnlineIsConnected
    <3>2. clients' = clients \cup {s} /\ leaving' = leaving /\ wire' = wire
      BY DEF Register
    <3> QED
      BY <3>1, <3>2 DEF Connected
  <2>2. SUFFICES ASSUME NEW p \in Sockets, Watching(p)'
                 PROVE  /\ shown'[p] \ Connected' \subseteq {n \in Members : leaving'[n] > 0}
                        /\ Connected' \ shown'[p] \subseteq hurried'
    BY DEF ShownIsTrue
  <2>3. Watching(p) /\ p \in clients' /\ wire[p]
    <3>1. stage' = [stage EXCEPT ![s] = "query"] /\ stage'[p] = "ready"
      BY <2>2 DEF Watching, Register
    <3>2. stage[p] = "ready" /\ wire[p]
      BY <2>1, <2>2, <3>1 DEF TypeOK, Watching
    <3> QED
      BY <2>2, <3>2 DEF Watching, Registry
  <2>4. /\ shown[p] \ Connected \subseteq {n \in Members : leaving[n] > 0}
        /\ Connected \ shown[p] \subseteq hurried
    BY <2>3 DEF ShownIsTrue
  <2>5. CASE m \in online
    <3>1. shown' = shown /\ hurried' = hurried /\ Connected' = Connected
      BY <2>1, <2>5 DEF Register
    <3> QED
      BY <2>1, <2>4, <3>1
  <2>6. CASE m \notin online
    <3>1. shown'[p] = shown[p] \cup {m}
      BY <2>3, <2>6 DEF Register, Tell
    <3>2. hurried \ {m} \subseteq hurried'
      BY <2>6 DEF Register
    <3> QED
      BY <2>1, <2>4, <3>1, <3>2
  <2> QED
    BY <2>5, <2>6
<1>4. Heard'
  BY DEF TypeOK, Registry, Heard, Rooms, Register, Tell
<1>5. Mail'
  BY DEF TypeOK, Mail, Auth, Join, Leave, Register, Tell
<1> QED
  BY <1>1, <1>2, <1>3, <1>4, <1>5

\* Fetch keeps the invariant.
LEMMA FetchInv == ASSUME Inv, NEW s \in Sockets, NEW found \in BOOLEAN, Fetch(s, found) PROVE Inv'
<1> USE HubAssumption DEF Inv, page, hub, db, history
<1>1. TypeOK'
  BY DEF TypeOK, Rooms, Messages, Lookups, Stages, Auth, Join, Leave, Fetch
<1>2. Registry'
  BY DEF TypeOK, Registry, Fetch
<1>3. ShownIsTrue'
  BY OnlineIsConnected DEF TypeOK, Registry, ShownIsTrue, Watching, Connected, Fetch
<1>4. Heard'
  BY DEF TypeOK, Registry, Heard, Rooms, Fetch
<1>5. Mail'
  BY DEF TypeOK, Mail, Auth, Join, Leave, Fetch
<1> QED
  BY <1>1, <1>2, <1>3, <1>4, <1>5

\* Ready keeps the invariant.
LEMMA ReadyInv == ASSUME Inv, NEW s \in Sockets, Ready(s) PROVE Inv'
<1> USE HubAssumption DEF Inv, page, hub, db, history
<1>1. TypeOK'
  <2>1. inbox' \in [Sockets -> Seq(Messages)]
    <3>1. inbox[s] \o Answer(s) \in Seq(Messages)
      BY AnswerTyped DEF TypeOK
    <3> QED
      BY <3>1 DEF TypeOK, Ready
  <2>2. /\ stage' \in [Sockets -> Stages] /\ fetched' \in [Sockets -> SUBSET Chats]
        /\ inRoom' \in [Rooms -> SUBSET Sockets] /\ shown' \in [Sockets -> SUBSET Members]
    BY DEF TypeOK, Ready, Stages
  <2> QED
    BY <2>1, <2>2 DEF TypeOK, Ready
<1>2. Registry'
  BY DEF TypeOK, Registry, Ready
<1>3. ShownIsTrue'
  BY OnlineIsConnected DEF TypeOK, Registry, ShownIsTrue, Watching, Connected, Ready
<1>4. Heard'
  BY DEF TypeOK, Registry, Heard, Rooms, Ready
<1>5. Mail'
  <2>1. App[s] = "web" => inbox'[s] = inbox[s]
    BY AnswerTyped DEF TypeOK, Ready
  <2>2. \A t \in Sockets \ {s} : inbox'[t] = inbox[t]
    BY DEF TypeOK, Ready
  <2>3. \A t \in Sockets : App[t] = "web" => inbox'[t] = inbox[t]
    BY <2>1, <2>2
  <2> QED
    BY <2>3 DEF Mail
<1> QED
  BY <1>1, <1>2, <1>3, <1>4, <1>5

\* Receive keeps the invariant.
LEMMA ReceiveInv == ASSUME Inv, NEW s \in Sockets, Receive(s) PROVE Inv'
<1> USE HubAssumption DEF Inv, page, hub, db, history
<1>a. /\ Head(inbox[s]) \in Messages /\ Tail(inbox[s]) \in Seq(Messages)
      /\ inbox' = [inbox EXCEPT ![s] = Tail(inbox[s])]
  BY DEF TypeOK, Receive
<1>b. Head(inbox[s]).type # "auth" /\ Head(inbox[s]).room \in Rooms
  BY <1>a, MessagesHaveRooms DEF Receive
<1>1. TypeOK'
  <2>1. inbox' \in [Sockets -> Seq(Messages)]
    BY <1>a DEF TypeOK
  <2>2. PICK q \in Lookups : q = [room |-> Head(inbox[s]).room, answer |-> "none"]
    BY <1>b DEF Lookups
  <2>3. asked' \in [Sockets -> SUBSET Lookups] /\ inRoom' \in [Rooms -> SUBSET Sockets]
    <3>1. CASE UNCHANGED inRoom
      <4>1. UNCHANGED asked \/ asked' = [asked EXCEPT ![s] = asked[s] \cup {q}]
        BY <3>1, <2>2 DEF TypeOK, Receive
      <4>2. asked[s] \cup {q} \in SUBSET Lookups
        BY <2>2 DEF TypeOK
      <4>3. asked' \in [Sockets -> SUBSET Lookups]
        BY <4>1, <4>2 DEF TypeOK
      <4> QED
        BY <3>1, <4>3 DEF TypeOK
    <3>2. CASE UNCHANGED asked /\ inRoom' = [inRoom EXCEPT ![Head(inbox[s]).room] = @ \ {s}]
      BY <3>2, <1>b DEF TypeOK
    <3> QED
      BY <3>1, <3>2 DEF Receive
  <2> QED
    BY <2>1, <2>3 DEF TypeOK, Receive
<1>2. Registry'
  BY DEF TypeOK, Registry, Receive
<1>3. ShownIsTrue'
  BY OnlineIsConnected DEF TypeOK, Registry, ShownIsTrue, Watching, Connected, Receive
<1>4. Heard'
  <2>1. CASE inRoom' = inRoom
    BY <2>1 DEF TypeOK, Registry, Heard, Receive
  <2>2. CASE /\ Head(inbox[s]).type = "leave"
             /\ inRoom' = [inRoom EXCEPT ![Head(inbox[s]).room] = @ \ {s}]
    <3>1. Head(inbox[s]) = inbox[s][1] /\ 1 \in 1..Len(inbox[s])
      BY DEF TypeOK, Receive
    <3>2. App[s] = "web" => Head(inbox[s]).room \notin Chats
      BY <2>2, <3>1 DEF Mail
    <3>3. \A t \in Sockets, c \in Chats : App[t] = "web" /\ t \in inRoom[c] => t \in inRoom'[c]
      BY <2>2, <3>2, <1>b DEF TypeOK, Rooms
    <3> QED
      BY <3>3 DEF TypeOK, Registry, Heard, Receive
  <2> QED
    BY <2>1, <2>2 DEF Receive
<1>5. Mail'
  <2>1. /\ inbox' = [inbox EXCEPT ![s] = Tail(inbox[s])] /\ inbox[s] # << >>
        /\ inbox \in [Sockets -> Seq(Messages)]
    BY DEF TypeOK, Receive
  <2>2. \A i \in 1..Len(inbox'[s]) : i + 1 \in 1..Len(inbox[s]) /\ inbox'[s][i] = inbox[s][i + 1]
    <3> DEFINE mail == inbox[s]
    <3>1. mail \in Seq(Messages) /\ mail # << >> /\ inbox'[s] = Tail(mail)
      BY <2>1
    <3> HIDE DEF mail
    <3>2. \A i \in 1..Len(Tail(mail)) : i + 1 \in 1..Len(mail) /\ Tail(mail)[i] = mail[i + 1]
      BY <3>1 DEF Inv
    <3> QED
      BY <3>1, <3>2 DEF mail
  <2>3. \A t \in Sockets \ {s} : inbox'[t] = inbox[t]
    BY <2>1
  <2> SUFFICES ASSUME NEW t \in Sockets, App[t] = "web", NEW i \in 1..Len(inbox'[t]),
                      inbox'[t][i].type = "leave"
               PROVE  inbox'[t][i].room \in Plans
    BY DEF Mail
  <2>4. \A j \in 1..Len(inbox[t]) : inbox[t][j].type = "leave" => inbox[t][j].room \in Plans
    BY DEF Mail
  <2>5. CASE t = s
    BY <2>2, <2>4, <2>5
  <2>6. CASE t # s
    BY <2>3, <2>4, <2>6
  <2> QED
    BY <2>5, <2>6
<1> QED
  BY <1>1, <1>2, <1>3, <1>4, <1>5

\* LookUp keeps the invariant.
LEMMA LookUpInv == ASSUME Inv, NEW s \in Sockets, NEW q \in asked[s], LookUp(s, q) PROVE Inv'
<1> USE HubAssumption DEF Inv, page, hub, db, history
<1>1. TypeOK'
  <2>1. q \in Lookups
    BY DEF TypeOK
  <2>2. \A a \in {"yes", "no"} : [q EXCEPT !.answer = a] \in Lookups
    BY <2>1 DEF Lookups
  <2>3. asked' \in [Sockets -> SUBSET Lookups]
    BY <2>2 DEF TypeOK, LookUp
  <2> QED
    BY <2>3 DEF TypeOK, LookUp
<1>2. Registry'
  BY DEF TypeOK, Registry, LookUp
<1>3. ShownIsTrue'
  BY OnlineIsConnected DEF TypeOK, Registry, ShownIsTrue, Watching, Connected, LookUp
<1>4. Heard'
  BY DEF TypeOK, Registry, Heard, Rooms, LookUp
<1>5. Mail'
  BY DEF TypeOK, Mail, Auth, Join, Leave, LookUp
<1> QED
  BY <1>1, <1>2, <1>3, <1>4, <1>5

\* Unanswered keeps the invariant.
LEMMA UnansweredInv == ASSUME Inv, NEW s \in Sockets, NEW q \in asked[s], Unanswered(s, q) PROVE Inv'
<1> USE HubAssumption DEF Inv, page, hub, db, history
<1>1. TypeOK'
  BY DEF TypeOK, Rooms, Messages, Lookups, Stages, Auth, Join, Leave, Unanswered
<1>2. Registry'
  BY DEF TypeOK, Registry, Unanswered
<1>3. ShownIsTrue'
  BY OnlineIsConnected DEF TypeOK, Registry, ShownIsTrue, Watching, Connected, Unanswered
<1>4. Heard'
  BY DEF TypeOK, Registry, Heard, Rooms, Unanswered
<1>5. Mail'
  BY DEF TypeOK, Mail, Auth, Join, Leave, Unanswered
<1> QED
  BY <1>1, <1>2, <1>3, <1>4, <1>5

\* Admit keeps the invariant.
LEMMA AdmitInv == ASSUME Inv, NEW s \in Sockets, NEW q \in asked[s], Admit(s, q) PROVE Inv'
<1> USE HubAssumption DEF Inv, page, hub, db, history
<1>1. TypeOK'
  <2>1. q.room \in Rooms /\ q \in Lookups
    BY DEF TypeOK, Lookups, Rooms
  <2>2. asked' \in [Sockets -> SUBSET Lookups]
    BY DEF TypeOK, Admit
  <2>3. inRoom' \in [Rooms -> SUBSET Sockets]
    BY <2>1 DEF TypeOK, Admit
  <2> QED
    BY <2>2, <2>3 DEF TypeOK, Admit
<1>2. Registry'
  BY DEF TypeOK, Registry, Admit
<1>3. ShownIsTrue'
  BY OnlineIsConnected DEF TypeOK, Registry, ShownIsTrue, Watching, Connected, Admit
<1>4. Heard'
  BY DEF TypeOK, Registry, Heard, Rooms, Admit
<1>5. Mail'
  BY DEF TypeOK, Mail, Auth, Join, Leave, Admit
<1> QED
  BY <1>1, <1>2, <1>3, <1>4, <1>5

\* Forbid keeps the invariant.
LEMMA ForbidInv == ASSUME Inv, NEW s \in Sockets, NEW q \in asked[s], Forbid(s, q) PROVE Inv'
<1> USE HubAssumption DEF Inv, page, hub, db, history
<1>1. TypeOK'
  BY DEF TypeOK, Rooms, Messages, Lookups, Stages, Auth, Join, Leave, Forbid, Cut, Remove, Departed, Over
<1>2. Registry'
  BY DEF TypeOK, Registry, Forbid, Cut, Remove, Departed, Over
<1>3. ShownIsTrue'
  BY GoneIsLeaving DEF Forbid
<1>4. Heard'
  BY DEF TypeOK, Registry, Heard, Rooms, Forbid, Cut, Remove, Departed, Over
<1>5. Mail'
  BY DEF TypeOK, Mail, Auth, Join, Leave, Forbid, Cut, Remove, Departed, Over
<1> QED
  BY <1>1, <1>2, <1>3, <1>4, <1>5

\* Tick keeps the invariant.
LEMMA TickInv == ASSUME Inv, NEW late \in SUBSET Sockets, Tick(late) PROVE Inv'
<1> USE HubAssumption DEF Inv, page, hub, db, history
<1>1. TypeOK'
  <2> DEFINE stale == {s \in clients : age[s] = 2 \/ (age[s] = 1 /\ s \in late)}
  <2>1. Cut(stale) /\ Remove(stale) /\ stage' = Over(stale)
        /\ age' = [s \in Sockets |-> IF s \in clients \ stale THEN age[s] + 1 ELSE 0]
    BY DEF Tick
  <2>2. \A s \in clients \ stale : age[s] + 1 \in 0..2
    BY DEF TypeOK
  <2>3. age' \in [Sockets -> 0..2]
    BY <2>1, <2>2 DEF TypeOK
  <2> HIDE DEF stale
  <2>4. /\ wire' \in [Sockets -> BOOLEAN]
        /\ shown' \in [Sockets -> SUBSET Members]
        /\ open' \in [Sockets -> Rooms \cup {NoRoom}]
        /\ missed' \subseteq Sockets
        /\ inbox' \in [Sockets -> Seq(Messages)]
    BY <2>1 DEF TypeOK, Cut
  <2>5. /\ clients' \subseteq Sockets /\ inRoom' \in [Rooms -> SUBSET Sockets]
        /\ online' \subseteq Members /\ leaving' \in [Members -> Nat]
    BY <2>1 DEF TypeOK, Remove
  <2>6. stage' \in [Sockets -> Stages]
    BY <2>1 DEF TypeOK, Over, Stages
  <2> QED
    BY <2>3, <2>4, <2>5, <2>6 DEF TypeOK, Tick
<1>2. Registry'
  BY DEF TypeOK, Registry, Tick, Cut, Remove, Departed, Over
<1>3. ShownIsTrue'
  BY GoneIsLeaving DEF Tick, TypeOK
<1>4. Heard'
  BY DEF TypeOK, Registry, Heard, Rooms, Tick, Cut, Remove, Departed, Over
<1>5. Mail'
  BY DEF TypeOK, Mail, Auth, Join, Leave, Tick, Cut, Remove, Departed, Over
<1> QED
  BY <1>1, <1>2, <1>3, <1>4, <1>5

\* Pong keeps the invariant.
LEMMA PongInv == ASSUME Inv, NEW s \in Sockets, Pong(s) PROVE Inv'
<1> USE HubAssumption DEF Inv, page, hub, db, history
<1>1. TypeOK'
  BY DEF TypeOK, Rooms, Messages, Lookups, Stages, Auth, Join, Leave, Pong
<1>2. Registry'
  BY DEF TypeOK, Registry, Pong
<1>3. ShownIsTrue'
  BY OnlineIsConnected DEF TypeOK, Registry, ShownIsTrue, Watching, Connected, Pong
<1>4. Heard'
  BY DEF TypeOK, Registry, Heard, Rooms, Pong
<1>5. Mail'
  BY DEF TypeOK, Mail, Auth, Join, Leave, Pong
<1> QED
  BY <1>1, <1>2, <1>3, <1>4, <1>5

\* TellOffline keeps the invariant.
LEMMA TellOfflineInv == ASSUME Inv, NEW m \in Members, TellOffline(m) PROVE Inv'
<1> USE HubAssumption DEF Inv, page, hub, db, history
<1>1. TypeOK'
  BY DEF TypeOK, Rooms, Messages, Lookups, Stages, Auth, Join, Leave, TellOffline, Tell
<1>2. Registry'
  BY DEF TypeOK, Registry, TellOffline, Tell
<1>3. ShownIsTrue'
  BY OnlineIsConnected DEF TypeOK, Registry, ShownIsTrue, Watching, Connected, TellOffline, Tell
<1>4. Heard'
  BY DEF TypeOK, Registry, Heard, Rooms, TellOffline, Tell
<1>5. Mail'
  BY DEF TypeOK, Mail, Auth, Join, Leave, TellOffline, Tell
<1> QED
  BY <1>1, <1>2, <1>3, <1>4, <1>5

\* AddParticipant keeps the invariant.
LEMMA AddParticipantInv == ASSUME Inv, NEW m \in Members, NEW c \in Chats, AddParticipant(m, c) PROVE Inv'
<1> USE HubAssumption DEF Inv, page, hub, db, history
<1>1. TypeOK'
  BY DEF TypeOK, Rooms, Messages, Lookups, Stages, Auth, Join, Leave, AddParticipant
<1>2. Registry'
  BY DEF TypeOK, Registry, AddParticipant
<1>3. ShownIsTrue'
  BY OnlineIsConnected DEF TypeOK, Registry, ShownIsTrue, Watching, Connected, AddParticipant
<1>4. Heard'
  BY DEF TypeOK, Registry, Heard, Rooms, AddParticipant
<1>5. Mail'
  BY DEF TypeOK, Mail, Auth, Join, Leave, AddParticipant
<1> QED
  BY <1>1, <1>2, <1>3, <1>4, <1>5

\* EnsureMemberInRoom keeps the invariant.
LEMMA EnsureMemberInRoomInv == ASSUME Inv, NEW m \in Members, NEW c \in Chats, EnsureMemberInRoom(m, c) PROVE Inv'
<1> USE HubAssumption DEF Inv, page, hub, db, history
<1>1. TypeOK'
  BY DEF TypeOK, Rooms, Messages, Lookups, Stages, Auth, Join, Leave, EnsureMemberInRoom
<1>2. Registry'
  BY DEF TypeOK, Registry, EnsureMemberInRoom
<1>3. ShownIsTrue'
  BY OnlineIsConnected DEF TypeOK, Registry, ShownIsTrue, Watching, Connected, EnsureMemberInRoom
<1>4. Heard'
  BY DEF TypeOK, Registry, Heard, Rooms, EnsureMemberInRoom
<1>5. Mail'
  BY DEF TypeOK, Mail, Auth, Join, Leave, EnsureMemberInRoom
<1> QED
  BY <1>1, <1>2, <1>3, <1>4, <1>5

\* RemoveParticipant keeps the invariant.
LEMMA RemoveParticipantInv == ASSUME Inv, NEW m \in Members, NEW c \in Chats, RemoveParticipant(m, c) PROVE Inv'
<1> USE HubAssumption DEF Inv, page, hub, db, history
<1>1. TypeOK'
  BY DEF TypeOK, Rooms, Messages, Lookups, Stages, Auth, Join, Leave, RemoveParticipant
<1>2. Registry'
  BY DEF TypeOK, Registry, RemoveParticipant
<1>3. ShownIsTrue'
  BY OnlineIsConnected DEF TypeOK, Registry, ShownIsTrue, Watching, Connected, RemoveParticipant
<1>4. Heard'
  BY DEF TypeOK, Registry, Heard, Rooms, RemoveParticipant
<1>5. Mail'
  BY DEF TypeOK, Mail, Auth, Join, Leave, RemoveParticipant
<1> QED
  BY <1>1, <1>2, <1>3, <1>4, <1>5

\* A step that changes nothing keeps the invariant.
LEMMA StutterInv == ASSUME Inv, UNCHANGED vars PROVE Inv'
BY DEF Inv, vars, page, hub, db, history, TypeOK, Registry, ShownIsTrue, Watching,
       Connected, Heard, Mail

\* Every step keeps the invariant.
LEMMA NextInv == Inv /\ [Next]_vars => Inv'
<1> SUFFICES ASSUME Inv, [Next]_vars PROVE Inv'
  OBVIOUS
<1>1. ASSUME NEW s \in Sockets, NEW r \in Screens[s], Connect(s, r) \/ Turn(s, r) PROVE Inv'
  BY <1>1, ConnectInv, TurnInv
<1>2. ASSUME NEW s \in Sockets, Close(s) \/ Vanish(s) \/ Pong(s) PROVE Inv'
  BY <1>2, CloseInv, VanishInv, PongInv
<1>3. ASSUME NEW s \in Sockets, Handle(s) PROVE Inv'
  BY <1>3, ReceiveAuthInv, UnheardInv, ReceiveInv, LookUpInv, UnansweredInv, AdmitInv,
     ForbidInv DEF Handle
<1>4. ASSUME NEW s \in Sockets, Progress(s) PROVE Inv'
  BY <1>4, RegisterInv, RejectInv, FetchInv, ReadyInv DEF Progress
<1>5. ASSUME NEW late \in SUBSET Sockets, Tick(late) PROVE Inv'
  BY <1>5, TickInv
<1>6. ASSUME NEW m \in Members, TellOffline(m) PROVE Inv'
  BY <1>6, TellOfflineInv
<1>7. ASSUME NEW m \in Members, NEW c \in Chats,
             AddParticipant(m, c) \/ EnsureMemberInRoom(m, c) \/ RemoveParticipant(m, c)
      PROVE  Inv'
  BY <1>7, AddParticipantInv, EnsureMemberInRoomInv, RemoveParticipantInv
<1>8. CASE UNCHANGED vars
  BY <1>8, StutterInv
<1> QED
  BY <1>1, <1>2, <1>3, <1>4, <1>5, <1>6, <1>7, <1>8 DEF Next

\* The invariant holds in every reachable state.
LEMMA Always == Spec => []Inv
<1>1. Init => Inv
  BY InitInv
<1>2. Inv /\ [Next]_vars => Inv'
  BY NextInv
<1> QED
  BY <1>1, <1>2, PTL DEF Spec

\* Every variable keeps its type, whatever pages, connections and the
\* database do (wsHub.ts).
THEOREM HubTyped == Spec => []TypeOK
<1>1. Inv => TypeOK
  BY DEF Inv
<1> QED
  BY <1>1, Always, PTL

\* What the pages show is what the hub knows, but for departures that are
\* being written and members who came back too soon (broadcastPresence).
THEOREM ShownTrue == Spec => []ShownIsTrue
<1>1. Inv => ShownIsTrue
  BY DEF Inv
<1> QED
  BY <1>1, Always, PTL

\* No web page misses a chat of its member: connecting and being added to a
\* chat may interleave in any way (handleNewSocket, ensureMemberInRoom).
THEOREM ChatsHeard == Spec => []ChatsAreHeard
<1>1. Inv => ChatsAreHeard
  BY DEF Inv, Heard, ChatsAreHeard, Watching
<1> QED
  BY <1>1, Always, PTL
-----------------------------------------------------------------------------
(* What a mobile application has on its screen *)

\* A request to join c is under way, and none to leave it comes after.
Promised(box, c) ==
  \E i \in 1..Len(box) :
    box[i] = Join(c) /\ \A j \in (i + 1)..Len(box) : box[j] # Leave(c)

Unleft(box, c) == \A i \in 1..Len(box) : box[i] # Leave(c)

\* The request to join the chat on the screen is still under way, or it has
\* been received and the chat has not been left since.
Listens(s) ==
  wire[s] /\ stage[s] = "ready" /\ App[s] = "mobile" /\ s \notin missed /\ open[s] \in Chats
    => \/ Promised(inbox[s], open[s])
       \/ /\ Unleft(inbox[s], open[s])
          /\ s \in inRoom[open[s]] \/ \E q \in asked[s] : q.room = open[s]

Listening == \A s \in Sockets : Listens(s)

\* Whoever asks last is promised.
LEMMA LastIsPromised ==
  ASSUME NEW box \in Seq(Messages), NEW c PROVE Promised(box \o <<Join(c)>>, c)
<1> DEFINE n == Len(box) + 1
           m == Join(c)
<1> HIDE DEF m
<1>1. Len(box \o <<m>>) = n /\ (box \o <<m>>)[n] = m /\ n \in 1..n
  OBVIOUS
<1>2. (n + 1)..n = {}
  OBVIOUS
<1> QED
  BY <1>1, <1>2 DEF Promised, m

\* What is left when the first message has been received.
LEMMA RestOfMail ==
  ASSUME NEW box \in Seq(Messages), box # << >>
  PROVE  /\ Tail(box) \in Seq(Messages)
         /\ Head(box) = box[1] /\ 1 \in 1..Len(box)
         /\ \A i \in 1..Len(Tail(box)) : i + 1 \in 1..Len(box) /\ Tail(box)[i] = box[i + 1]
         /\ \A i \in 1..Len(box) : i # 1 =>
              i - 1 \in 1..Len(Tail(box)) /\ Tail(box)[i - 1] = box[i]
         /\ Len(Tail(box)) = Len(box) - 1 /\ Len(box) \in Nat
OBVIOUS

\* A message is received: the promise stays or becomes a request.
LEMMA PromiseReceived ==
  ASSUME NEW box \in Seq(Messages), box # << >>, NEW c, Promised(box, c)
  PROVE  Promised(Tail(box), c) \/ (Head(box) = Join(c) /\ Unleft(Tail(box), c))
<1>1. PICK i \in 1..Len(box) :
        box[i] = Join(c) /\ \A j \in (i + 1)..Len(box) : box[j] # Leave(c)
  BY DEF Promised
<1>2. ASSUME NEW j \in 1..Len(Tail(box)), j >= i PROVE Tail(box)[j] # Leave(c)
  <2>1. j + 1 \in (i + 1)..Len(box) /\ Tail(box)[j] = box[j + 1]
    BY <1>2, RestOfMail
  <2> QED
    BY <1>1, <2>1
<1>3. CASE i = 1
  <2>1. Head(box) = Join(c)
    BY <1>1, <1>3, RestOfMail
  <2>2. \A j \in 1..Len(Tail(box)) : j >= i
    BY <1>3
  <2> QED
    BY <1>2, <2>1, <2>2 DEF Unleft
<1>4. CASE i # 1
  <2>1. i - 1 \in 1..Len(Tail(box)) /\ Tail(box)[i - 1] = Join(c)
    BY <1>1, <1>4, RestOfMail
  <2>2. \A j \in ((i - 1) + 1)..Len(Tail(box)) : j \in 1..Len(Tail(box)) /\ j >= i
    BY <1>4, RestOfMail
  <2>3. \A j \in ((i - 1) + 1)..Len(Tail(box)) : Tail(box)[j] # Leave(c)
    BY <1>2, <2>2
  <2> QED
    BY <2>1, <2>3 DEF Promised
<1> QED
  BY <1>3, <1>4

\* Nor is anything left by receiving a message where no other leaves it.
LEMMA UnleftReceived ==
  ASSUME NEW box \in Seq(Messages), box # << >>, NEW c, Unleft(box, c)
  PROVE  Unleft(Tail(box), c) /\ Head(box) # Leave(c)
BY RestOfMail DEF Unleft

\* What does not disturb a page that is listening.
Undisturbed(t) ==
  wire'[t] /\ stage'[t] = "ready" /\ t \notin missed' =>
    /\ wire[t] /\ stage[t] = "ready" /\ t \notin missed
    /\ inbox'[t] = inbox[t] /\ open'[t] = open[t]
    /\ \A r \in Rooms : t \in inRoom[r] => t \in inRoom'[r]
    /\ \A q \in asked[t] : t \in inRoom'[q.room] \/ \E p \in asked'[t] : p.room = q.room

\* It goes on listening.
LEMMA UndisturbedListens ==
  ASSUME NEW t \in Sockets, Listens(t), Undisturbed(t) PROVE Listens(t)'
<1>1. SUFFICES ASSUME wire'[t], stage'[t] = "ready", App[t] = "mobile", t \notin missed',
                      open'[t] \in Chats
               PROVE  \/ Promised(inbox'[t], open'[t])
                      \/ /\ Unleft(inbox'[t], open'[t])
                         /\ \/ t \in inRoom'[open'[t]]
                            \/ \E q \in asked'[t] : q.room = open'[t]
  BY DEF Listens, Promised, Unleft, Join, Leave
<1>2. /\ inbox'[t] = inbox[t] /\ open'[t] = open[t]
      /\ open[t] \in Rooms
      /\ \/ Promised(inbox[t], open[t])
         \/ /\ Unleft(inbox[t], open[t])
            /\ t \in inRoom[open[t]] \/ \E q \in asked[t] : q.room = open[t]
  BY <1>1 DEF Listens, Undisturbed, Rooms
<1>3. t \in inRoom[open[t]] \/ (\E q \in asked[t] : q.room = open[t])
        => t \in inRoom'[open[t]] \/ \E q \in asked'[t] : q.room = open[t]
  BY <1>1, <1>2 DEF Undisturbed
<1> QED
  BY <1>2, <1>3

\* A step that disturbs no page, or only pages that listen all the same.
LEMMA ListeningKept ==
  ASSUME Listening, \A t \in Sockets : Undisturbed(t) \/ Listens(t)' PROVE Listening'
<1>1. \A t \in Sockets : Listens(t)'
  BY UndisturbedListens DEF Listening
<1> QED
  BY <1>1 DEF Listening

\* Connections that end leave the pages of the others alone.
LEMMA CutUndisturbed ==
  ASSUME TypeOK, NEW S \in SUBSET Sockets, Cut(S), stage' = Over(S),
         \/ \E R \in SUBSET S : Remove(R)
         \/ UNCHANGED inRoom,
         NEW t \in Sockets, t \in S \/ asked'[t] = asked[t]
  PROVE  Undisturbed(t)
<1>1. CASE t \in S
  BY <1>1 DEF Cut, Undisturbed
<1>2. CASE t \notin S
  <2>1. /\ wire'[t] => wire[t]
        /\ inbox'[t] = inbox[t] /\ open'[t] = open[t] /\ stage'[t] = stage[t]
    BY <1>2 DEF Cut, Over
  <2>2. t \in missed => t \in missed'
    BY <1>2 DEF Cut
  <2>3. \A r \in Rooms : t \in inRoom[r] => t \in inRoom'[r]
    BY <1>2 DEF Remove
  <2> QED
    BY <1>2, <2>1, <2>2, <2>3 DEF Undisturbed
<1> QED
  BY <1>1, <1>2

\* Something else comes on the screen, and the last thing that is sent is the
\* request to join it.
LEMMA TurnListens ==
  ASSUME TypeOK, Listening, NEW s \in Sockets, NEW r \in Screens[s], Turn(s, r)
  PROVE  Listening'
<1> DEFINE left == IF Speaks(s, open[s]) THEN <<Leave(open[s])>> ELSE << >>
           box == inbox[s] \o left
<1>1. \A t \in Sockets \ {s} : Undisturbed(t)
  BY DEF TypeOK, Turn, Undisturbed, hub, db, history
<1>2. Listens(s)'
  <2>1. SUFFICES ASSUME App[s] = "mobile", r \in Chats PROVE Promised(inbox'[s], open'[s])
    BY DEF Listens, Promised, Join, Leave, Turn, TypeOK
  <2>2. inbox'[s] = box \o <<Join(r)>> /\ open'[s] = r
    BY <2>1 DEF Turn, Speaks, TypeOK
  <2>3. box \in Seq(Messages)
    <3>1. left \in Seq(Messages)
      BY MessagesAre DEF Speaks, Rooms
    <3>2. inbox[s] \in Seq(Messages)
      BY DEF TypeOK
    <3> QED
      BY <3>1, <3>2
  <2> HIDE DEF box
  <2> QED
    BY <2>2, <2>3, LastIsPromised
<1> QED
  BY <1>1, <1>2, ListeningKept

\* The mobile application answers "ready" with what is on its screen by then.
LEMMA ReadyListens ==
  ASSUME TypeOK, Listening, NEW s \in Sockets, Ready(s) PROVE Listening'
<1>1. \A t \in Sockets \ {s} : Undisturbed(t)
  BY DEF TypeOK, Ready, Undisturbed, hub, db, history
<1>2. Listens(s)'
  <2>1. SUFFICES ASSUME wire'[s], App[s] = "mobile", open'[s] \in Chats
                 PROVE  Promised(inbox'[s], open'[s])
    BY DEF Listens, Promised, Join, Leave
  <2>2. open'[s] = open[s] /\ open[s] # NoRoom /\ wire[s]
    BY <2>1, HubAssumption DEF Ready, Rooms
  <2>3. inbox'[s] = inbox[s] \o <<Join(open[s])>> /\ inbox[s] \in Seq(Messages)
    BY <2>1, <2>2 DEF Ready, Answer, TypeOK
  <2> QED
    BY <2>2, <2>3, LastIsPromised
<1> QED
  BY <1>1, <1>2, ListeningKept

\* A promise is received and becomes a request that is looked up.
LEMMA ReceiveListens ==
  ASSUME TypeOK, Listening, NEW s \in Sockets, Receive(s) PROVE Listening'
<1> DEFINE box == inbox[s]
           msg == Head(inbox[s])
           c == open[s]
           asks == [room |-> msg.room, answer |-> "none"]
<1>0. /\ box \in Seq(Messages) /\ box # << >> /\ inbox'[s] = Tail(box) /\ open' = open
      /\ wire' = wire /\ stage' = stage /\ missed' = missed
  BY DEF TypeOK, Receive, db, history
<1>a. \/ msg.type = "join" /\ asked'[s] = asked[s] \cup {asks} /\ inRoom' = inRoom
      \/ /\ msg.type = "leave" /\ asked' = asked
         /\ inRoom' = [inRoom EXCEPT ![msg.room] = @ \ {s}]
  BY DEF TypeOK, Receive
<1>1. ASSUME NEW t \in Sockets \ {s} PROVE Undisturbed(t)
  <2>1. inbox'[t] = inbox[t] /\ asked'[t] = asked[t]
    BY DEF TypeOK, Receive
  <2>2. \A r \in Rooms : t \in inRoom[r] => t \in inRoom'[r]
    <3>1. CASE inRoom' = inRoom
      BY <3>1
    <3>2. CASE inRoom' = [inRoom EXCEPT ![msg.room] = @ \ {s}]
      <4> HIDE DEF msg
      <4> QED
        BY <3>2 DEF TypeOK
    <3> QED
      BY <1>a, <3>1, <3>2
  <2> QED
    BY <1>0, <2>1, <2>2 DEF Undisturbed
<1>2. Listens(s)'
  <2>1. SUFFICES ASSUME wire[s], stage[s] = "ready", App[s] = "mobile", s \notin missed, c \in Chats
                 PROVE  \/ Promised(Tail(box), c)
                        \/ /\ Unleft(Tail(box), c)
                           /\ s \in inRoom'[c] \/ \E q \in asked'[s] : q.room = c
    BY <1>0 DEF Listens, Promised, Unleft, Join, Leave
  <2>2. msg \in Messages
    BY <1>0
  <2>3. \/ Promised(box, c)
        \/ /\ Unleft(box, c)
           /\ s \in inRoom[c] \/ \E q \in asked[s] : q.room = c
    BY <2>1 DEF Listening, Listens
  <2>4. CASE Promised(box, c)
    <3>1. CASE Promised(Tail(box), c)
      BY <3>1
    <3>2. CASE msg = Join(c) /\ Unleft(Tail(box), c)
      <4>1. asks \in asked'[s] /\ asks.room = c
        BY <1>a, <3>2 DEF Join
      <4> QED
        BY <3>2, <4>1
    <3> QED
      BY <1>0, <2>4, <3>1, <3>2, PromiseReceived
  <2>5. CASE /\ Unleft(box, c)
             /\ s \in inRoom[c] \/ \E q \in asked[s] : q.room = c
    <3>1. Unleft(Tail(box), c) /\ msg # Leave(c)
      BY <1>0, <2>5, UnleftReceived
    <3>2. msg.type = "leave" => msg.room # c
      BY <2>2, <3>1 DEF Messages, Auth, Join, Leave
    <3>3. s \in inRoom[c] => s \in inRoom'[c]
      BY <1>a, <2>1, <3>2 DEF TypeOK, Rooms
    <3>4. asked[s] \subseteq asked'[s]
      BY <1>a
    <3> QED
      BY <2>5, <3>1, <3>3, <3>4
  <2> QED
    BY <2>3, <2>4, <2>5
<1> QED
  BY <1>1, <1>2, ListeningKept

\* A request is looked up, and answered by being let in; else the page cannot
\* know, or is sent away.
LEMMA LookUpListens ==
  ASSUME TypeOK, Listening, NEW s \in Sockets, NEW q \in asked[s],
         LookUp(s, q) \/ Unanswered(s, q) \/ Admit(s, q) \/ Forbid(s, q)
  PROVE  Listening'
<1>1. CASE LookUp(s, q)
  <2>1. PICK p : p.room = q.room /\ asked' = [asked EXCEPT ![s] = (@ \ {q}) \cup {p}]
    <3>1. q \in Lookups
      BY DEF TypeOK
    <3>2. PICK a : asked' = [asked EXCEPT ![s] = (@ \ {q}) \cup {[q EXCEPT !.answer = a]}]
      BY <1>1 DEF LookUp
    <3>3. [q EXCEPT !.answer = a].room = q.room
      BY <3>1 DEF Lookups
    <3> QED
      BY <3>2, <3>3
  <2>2. \A t \in Sockets : \A x \in asked[t] : \E y \in asked'[t] : y.room = x.room
    BY <2>1 DEF TypeOK
  <2>3. UNCHANGED <<page, wire, stage, hub, history>>
    BY <1>1 DEF LookUp
  <2>4. \A t \in Sockets : Undisturbed(t)
    BY <2>2, <2>3 DEF Undisturbed, page, hub, history
  <2> QED
    BY <2>4, ListeningKept
<1>2. CASE Unanswered(s, q)
  <2>1. \A t \in Sockets : t # s => asked'[t] = asked[t]
    BY <1>2 DEF Unanswered, TypeOK
  <2>2. \A t \in Sockets : Undisturbed(t)
    BY <1>2, <2>1 DEF Unanswered, Undisturbed, page, hub
  <2> QED
    BY <2>2, ListeningKept
<1>3. CASE Admit(s, q)
  <2>1. q.room \in Rooms
    BY DEF TypeOK, Lookups
  <2>2. /\ \A r \in Rooms : inRoom[r] \subseteq inRoom'[r]
        /\ s \in inRoom'[q.room]
        /\ \A t \in Sockets : \A x \in asked[t] : x \in asked'[t] \/ (t = s /\ x = q)
    BY <1>3, <2>1 DEF Admit, TypeOK
  <2>3. UNCHANGED <<page, wire, stage, history>>
    BY <1>3 DEF Admit
  <2>4. \A t \in Sockets : Undisturbed(t)
    BY <2>2, <2>3 DEF Undisturbed, page, history
  <2> QED
    BY <2>4, ListeningKept
<1>4. CASE Forbid(s, q)
  <2>1. Cut({s}) /\ Remove({s}) /\ stage' = Over({s})
    BY <1>4 DEF Forbid
  <2>2. \A t \in Sockets : t \in {s} \/ asked'[t] = asked[t]
    BY <1>4 DEF Forbid, TypeOK
  <2>3. \A t \in Sockets : Undisturbed(t)
    BY <2>1, <2>2, CutUndisturbed
  <2> QED
    BY <2>3, ListeningKept
<1> QED
  BY <1>1, <1>2, <1>3, <1>4

\* The end of connections.
LEMMA EndsListening ==
  ASSUME TypeOK, Listening,
         \/ \E s \in Sockets : Close(s) \/ Vanish(s) \/ Reject(s)
         \/ \E late \in SUBSET Sockets : Tick(late)
  PROVE  Listening'
<1>1. ASSUME NEW s \in Sockets, Close(s) PROVE Listening'
  <2>1. Cut({s}) /\ (\E R \in SUBSET {s} : Remove(R)) /\ stage' = Over({s}) /\ asked' = asked
    BY <1>1 DEF Close
  <2>2. \A t \in Sockets : Undisturbed(t)
    BY <2>1, CutUndisturbed
  <2> QED
    BY <2>2, ListeningKept
<1>2. ASSUME NEW s \in Sockets, Vanish(s) \/ Reject(s) PROVE Listening'
  <2>1. \A t \in Sockets : Undisturbed(t)
    BY <1>2 DEF Vanish, Reject, Cut, Undisturbed, hub, TypeOK
  <2> QED
    BY <2>1, ListeningKept
<1>3. ASSUME NEW late \in SUBSET Sockets, Tick(late) PROVE Listening'
  <2>1. PICK S \in SUBSET Sockets : Cut(S) /\ Remove(S) /\ stage' = Over(S) /\ asked' = asked
    BY <1>3 DEF Tick, TypeOK
  <2>2. \A t \in Sockets : Undisturbed(t)
    BY <2>1, CutUndisturbed
  <2> QED
    BY <2>2, ListeningKept
<1> QED
  BY <1>1, <1>2, <1>3

\* The steps that do not concern what is on a screen.
LEMMA AsideListening ==
  ASSUME TypeOK, Listening,
         \/ \E s \in Sockets : \/ \E r \in Screens[s] : Connect(s, r)
                               \/ Pong(s) \/ ReceiveAuth(s) \/ Unheard(s) \/ Register(s)
                               \/ \E found \in BOOLEAN : Fetch(s, found)
         \/ \E m \in Members : \/ TellOffline(m)
                               \/ \E c \in Chats : \/ AddParticipant(m, c)
                                                   \/ RemoveParticipant(m, c)
                                                   \/ EnsureMemberInRoom(m, c)
         \/ UNCHANGED vars
  PROVE  Listening'
<1> USE DEF TypeOK, Undisturbed, page, hub, db, history
<1>1. ASSUME NEW s \in Sockets, NEW r \in Screens[s], Connect(s, r)
      PROVE  \A t \in Sockets : Undisturbed(t)
  BY <1>1 DEF Connect
<1>2. ASSUME NEW s \in Sockets, Pong(s) \/ ReceiveAuth(s) PROVE \A t \in Sockets : Undisturbed(t)
  BY <1>2 DEF Pong, ReceiveAuth
<1>3. ASSUME NEW s \in Sockets, Unheard(s) PROVE \A t \in Sockets : Undisturbed(t)
  BY <1>3 DEF Unheard
<1>4. ASSUME NEW s \in Sockets, Register(s) PROVE \A t \in Sockets : Undisturbed(t)
  BY <1>4 DEF Register
<1>5. ASSUME NEW s \in Sockets, NEW found \in BOOLEAN, Fetch(s, found)
      PROVE  \A t \in Sockets : Undisturbed(t)
  BY <1>5 DEF Fetch
<1>6. ASSUME NEW m \in Members, TellOffline(m) PROVE \A t \in Sockets : Undisturbed(t)
  BY <1>6 DEF TellOffline
<1>7. ASSUME NEW m \in Members, NEW c \in Chats,
             \/ AddParticipant(m, c) \/ RemoveParticipant(m, c) \/ EnsureMemberInRoom(m, c)
      PROVE  \A t \in Sockets : Undisturbed(t)
  BY <1>7 DEF AddParticipant, RemoveParticipant, EnsureMemberInRoom
<1>8. CASE UNCHANGED vars
  <2>1. \A t \in Sockets : Undisturbed(t)
    BY <1>8 DEF vars
  <2> QED
    BY <2>1, ListeningKept
<1> QED
  BY <1>1, <1>2, <1>3, <1>4, <1>5, <1>6, <1>7, <1>8, ListeningKept

\* Every step keeps every mobile application listening.
LEMMA ListeningNext == TypeOK /\ Listening /\ [Next]_vars => Listening'
<1> SUFFICES ASSUME TypeOK, Listening, [Next]_vars PROVE Listening'
  OBVIOUS
<1>1. ASSUME NEW s \in Sockets, NEW r \in Screens[s], Connect(s, r) \/ Turn(s, r)
      PROVE  Listening'
  BY <1>1, TurnListens, AsideListening
<1>2. ASSUME NEW s \in Sockets, Close(s) \/ Vanish(s) \/ Pong(s) PROVE Listening'
  BY <1>2, EndsListening, AsideListening
<1>3. ASSUME NEW s \in Sockets, Handle(s) PROVE Listening'
  BY <1>3, ReceiveListens, LookUpListens, AsideListening DEF Handle
<1>4. ASSUME NEW s \in Sockets, Progress(s) PROVE Listening'
  BY <1>4, ReadyListens, EndsListening, AsideListening DEF Progress
<1>5. ASSUME NEW late \in SUBSET Sockets, Tick(late) PROVE Listening'
  BY <1>5, EndsListening
<1>6. ASSUME NEW m \in Members,
             \/ TellOffline(m)
             \/ \E c \in Chats : \/ AddParticipant(m, c) \/ EnsureMemberInRoom(m, c)
                                 \/ RemoveParticipant(m, c)
      PROVE  Listening'
  BY <1>6, AsideListening
<1>7. CASE UNCHANGED vars
  BY <1>7, AsideListening
<1> QED
  BY <1>1, <1>2, <1>3, <1>4, <1>5, <1>6, <1>7 DEF Next

\* A mobile application is in the room of the chat on its screen once
\* everything it has sent has been handled, however many chats have been
\* opened and closed before (setActiveMessengerConversation).
THEOREM OpenChatsJoined == Spec => []OpenChatIsJoined
<1>1. Init => Listening
  BY DEF Init, Listening, Listens
<1>2. Listening => OpenChatIsJoined
  <2> SUFFICES ASSUME Listening, NEW s \in Sockets, Settled(s), App[s] = "mobile",
                      open[s] \in Chats
               PROVE  s \in inRoom[open[s]]
    BY DEF OpenChatIsJoined
  <2>1. ~Promised(inbox[s], open[s])
    BY DEF Settled, Promised
  <2> QED
    BY <2>1 DEF Listening, Listens, Settled, Watching
<1> QED
  BY <1>1, <1>2, HubTyped, ListeningNext, PTL DEF Spec

=============================================================================
