-------------------------------- MODULE Calls --------------------------------
(***************************************************************************)
(* The life cycle of audio and video calls: src/services/callsService.ts.  *)
(*                                                                         *)
(* The state is the database's: the rows of calls, call_participants and   *)
(* call_invitations, the conversation memberships the handlers consult and *)
(* the accounts the rows refer to.  Every database transaction is one      *)
(* action; what a handler keeps from a read made outside its transaction   *)
(* is a variable (drafts, emptyFound), so that other handlers can run      *)
(* between the read and the write.  The interleavings inside one           *)
(* transaction are the subject of module CallSlots.                        *)
(*                                                                         *)
(* Time is abstract: the sweeper may find any ringing call past its        *)
(* timeout, and any empty call old enough, at any moment.                  *)
(***************************************************************************)
EXTENDS Naturals, FiniteSets

CONSTANTS
  Members,            \* every account that exists at the start
  CallIds,            \* the calls of the run
  InviteIds,          \* the invitations of the run
  Conversations,      \* the chats of the run
  ConvType,           \* [Conversations -> {"private", "group"}]
  InitialMembers,     \* [Conversations -> SUBSET Members]
  Managers,           \* [Conversations -> SUBSET Members]: owners and admins
  MaxParticipants,    \* max_group_participants of the call settings
  MaxUseChoices,      \* the max_uses values asked for; 0 stands for NULL
  Movers,             \* members who may leave or enter a group chat
  Deletable,          \* members whose account may be deleted
  DeletableConvs,     \* chats that may be deleted
  NoMember, NoConv, NoCall

ASSUME CallsAssumption ==
  /\ MaxParticipants \in Nat \ {0, 1}
  /\ ConvType \in [Conversations -> {"private", "group"}]
  /\ InitialMembers \in [Conversations -> SUBSET Members]
  /\ Managers \in [Conversations -> SUBSET Members]
  /\ MaxUseChoices \subseteq Nat
  /\ Movers \subseteq Members
  /\ Deletable \subseteq Members
  /\ DeletableConvs \subseteq Conversations
  /\ NoMember \notin Members
  /\ NoConv \notin Conversations
  /\ NoCall \notin CallIds

VARIABLES
  calls,        \* the rows of calls
  part,         \* part[c][m]: the status of m's row in call_participants
  invites,      \* the rows of call_invitations
  drafts,       \* invitations createInvitation has checked and not stored;
                \* link: the call has still to be opened for links
  emptyFound,   \* calls the running sweep has read as empty
  convMembers,  \* conversation_participants with left_at IS NULL
  accounts      \* the rows of members

vars == <<calls, part, invites, drafts, emptyFound, convMembers, accounts>>
external == <<convMembers, accounts>>

-----------------------------------------------------------------------------
(* Rows *)

LiveStatus == {"ringing", "waiting", "active"}
EndStatus == {"ended", "declined", "missed", "cancelled"}
CallStatus == {"unused", "deleted"} \cup LiveStatus \cup EndStatus

EndReason == {"none", "ended", "ended_by_moderator", "declined", "cancelled",
              "no_answer", "all_left", "ghost_cleanup", "expired_empty",
              "stale_direct"}

\* "absent" is a missing row; the code never writes "invited" or "busy".
PartStatus == {"absent", "invited", "ringing", "joined", "left", "declined",
               "missed", "busy"}
InCallStatus == {"invited", "ringing", "joined"}

CallRow == [type : {"direct", "group"}, status : CallStatus,
            conv : Conversations \cup {NoConv}, access : {"closed", "link"},
            by : Members \cup {NoMember}, reason : EndReason]

EmptyRow(s) == [type |-> "direct", status |-> s, conv |-> NoConv,
                access |-> "closed", by |-> NoMember, reason |-> "none"]

\* used counts only the uses of a limited invitation: nothing reads the count
\* of an unlimited one.
InviteRow == [call : CallIds \cup {NoCall}, by : Members \cup {NoMember},
              max : Nat, used : Nat,
              state : {"unused", "live", "expired", "revoked", "deleted"}]

EmptyInvite(s) == [call |-> NoCall, by |-> NoMember, max |-> 0, used |-> 0,
                   state |-> s]

Draft == [call : CallIds, by : Members, max : MaxUseChoices, link : BOOLEAN]

TypeOK ==
  /\ calls \in [CallIds -> CallRow]
  /\ part \in [CallIds -> [Members -> PartStatus]]
  /\ invites \in [InviteIds -> InviteRow]
  /\ drafts \subseteq Draft
  /\ emptyFound \subseteq CallIds
  /\ convMembers \in [Conversations -> SUBSET Members]
  /\ accounts \subseteq Members

Init ==
  /\ calls = [c \in CallIds |-> EmptyRow("unused")]
  /\ part = [c \in CallIds |-> [m \in Members |-> "absent"]]
  /\ invites = [i \in InviteIds |-> EmptyInvite("unused")]
  /\ drafts = {}
  /\ emptyFound = {}
  /\ convMembers = InitialMembers
  /\ accounts = Members

-----------------------------------------------------------------------------
(* What the handlers ask of the rows *)

Live(c) == calls[c].status \in LiveStatus
Meeting(c) == calls[c].status \in {"waiting", "active"}

Joined(c) == {m \in Members : part[c][m] = "joined"}

Busy(m, c) == Live(c) /\ part[c][m] \in InCallStatus

\* Mutant: whoever is only being rung counts as free.
MemberFreeUnlessJoined(m, c) ==
  \A d \in CallIds \ {c} : ~(Live(d) /\ part[d][m] = "joined")

\* assertMemberFreeInTx: c is excluded from the search.
MemberFree(m, c) == \A d \in CallIds \ {c} : ~Busy(m, d)

InConversation(m, v) == v # NoConv /\ m \in convMembers[v]

CanManage(m, v) == InConversation(m, v) /\ m \in Managers[v]

\* Mutant: the two arguments of the update swapped.
FinalizedSwapped(row, s, r) ==
  IF row.status \in LiveStatus
  THEN [row EXCEPT !.status = r, !.reason = s]
  ELSE row

Finalized(row, s, r) ==
  IF row.status \in LiveStatus
  THEN [row EXCEPT !.status = s, !.reason = r]
  ELSE row

\* Mutant: nobody's arrival promotes a waiting call.
NotActivated(row) == row

Activated(row) ==
  IF row.status = "waiting" THEN [row EXCEPT !.status = "active"] ELSE row

\* Mutant: one too many.
FullBeyond(c) == Cardinality(Joined(c)) > MaxParticipants

Full(c) == Cardinality(Joined(c)) >= MaxParticipants

-----------------------------------------------------------------------------
(* Creating a call *)

\* createDirectCall: from a private chat of both, neither of them busy.
CreateDirectCall(c, a, b, v) ==
  /\ calls[c].status = "unused"
  /\ a # b
  /\ ConvType[v] = "private"
  /\ {a, b} \subseteq convMembers[v] \cap accounts
  /\ MemberFree(a, c)
  /\ MemberFree(b, c)
  /\ calls' = [calls EXCEPT ![c] =
       [type |-> "direct", status |-> "ringing", conv |-> v,
        access |-> "closed", by |-> a, reason |-> "none"]]
  /\ part' = [part EXCEPT ![c] =
       [m \in Members |-> IF m = a THEN "joined"
                          ELSE IF m = b THEN "ringing" ELSE "absent"]]
  /\ UNCHANGED <<invites, drafts, emptyFound, external>>

\* createInvitationRaw: a fresh row, neither used nor revoked.
NewInvite(c, m, max) ==
  [call |-> c, by |-> m, max |-> max, used |-> 0, state |-> "live"]

\* The transaction createGroupCall and createStandaloneLinkCall share: the
\* initiator joins a waiting room and an unlimited invitation is stored.
OpenMeeting(c, a, v, access, i) ==
  /\ calls[c].status = "unused"
  /\ a \in accounts
  /\ MemberFree(a, c)
  /\ invites[i].state = "unused"
  /\ calls' = [calls EXCEPT ![c] =
       [type |-> "group", status |-> "waiting", conv |-> v,
        access |-> access, by |-> a, reason |-> "none"]]
  /\ part' = [part EXCEPT ![c] =
       [m \in Members |-> IF m = a THEN "joined" ELSE "absent"]]
  /\ invites' = [invites EXCEPT ![i] = NewInvite(c, a, 0)]
  /\ UNCHANGED <<drafts, emptyFound, external>>

\* A closed conference needs a group chat; a link conference any chat.
CreateGroupCall(c, a, v, access, i) ==
  /\ access = "closed" => ConvType[v] = "group"
  /\ a \in convMembers[v]
  /\ OpenMeeting(c, a, v, access, i)

CreateStandaloneLinkCall(c, a, i) == OpenMeeting(c, a, NoConv, "link", i)

-----------------------------------------------------------------------------
(* Answering, refusing, cancelling a direct call *)

\* The code asks for a participant row, not for the callee's.
AcceptCall(c, m) ==
  /\ calls[c].type = "direct"
  /\ calls[c].status = "ringing"
  /\ part[c][m] # "absent"
  /\ MemberFree(m, c)
  /\ part' = [part EXCEPT ![c][m] = "joined"]
  /\ calls' = [calls EXCEPT ![c].status = "active"]
  /\ UNCHANGED <<invites, drafts, emptyFound, external>>

DeclineCall(c, m) ==
  /\ calls[c].type = "direct"
  /\ calls[c].status = "ringing"
  /\ part[c][m] # "absent"
  /\ calls[c].by # m
  /\ part' = [part EXCEPT ![c][m] = "declined"]
  /\ calls' = [calls EXCEPT ![c] = Finalized(@, "declined", "declined")]
  /\ UNCHANGED <<invites, drafts, emptyFound, external>>

CancelCall(c, m) ==
  /\ calls[c].by = m
  /\ \/ calls[c].status = "ringing"
     \/ calls[c].type = "group" /\ calls[c].status = "waiting"
  /\ calls' = [calls EXCEPT ![c] = Finalized(@, "cancelled", "cancelled")]
  /\ UNCHANGED <<part, invites, drafts, emptyFound, external>>

-----------------------------------------------------------------------------
(* endCall: hanging up, ending for all, leaving *)

HangUpDirect(c, m) ==
  /\ Live(c)
  /\ calls[c].type = "direct"
  /\ part[c][m] # "absent"
  /\ calls' = [calls EXCEPT ![c] =
       Finalized(@, IF @.status = "ringing" THEN "cancelled" ELSE "ended",
                 "ended")]
  /\ UNCHANGED <<part, invites, drafts, emptyFound, external>>

MayEndGroup(c, m) ==
  /\ Live(c)
  /\ calls[c].type = "group"
  /\ m \in accounts
  /\ part[c][m] # "absent" \/ InConversation(m, calls[c].conv)

\* role 'moderator' is never written; role 'initiator' is the initiator's.
IsModerator(c, m) == calls[c].by = m \/ CanManage(m, calls[c].conv)

EndForAll(c, m) ==
  /\ MayEndGroup(c, m)
  /\ IsModerator(c, m)
  /\ Meeting(c)
  /\ calls' = [calls EXCEPT ![c] = Finalized(@, "ended", "ended_by_moderator")]
  /\ UNCHANGED <<part, invites, drafts, emptyFound, external>>

\* Mutant: the last to leave does not end the call.
LeaveWithoutEnding(c, m) ==
  /\ MayEndGroup(c, m)
  /\ part' = [part EXCEPT ![c][m] = IF @ = "absent" THEN @ ELSE "left"]
  /\ calls' = [calls EXCEPT ![c] = Activated(@)]
  /\ UNCHANGED <<invites, drafts, emptyFound, external>>

\* Mutant: the host's leaving ends the conference for everybody.
LeaveEndsForHost(c, m) ==
  /\ MayEndGroup(c, m)
  /\ part' = [part EXCEPT ![c][m] = IF @ = "absent" THEN @ ELSE "left"]
  /\ calls' = [calls EXCEPT ![c] =
       IF Joined(c)' = {} \/ m = @.by THEN Finalized(@, "ended", "all_left")
                                      ELSE Activated(@)]
  /\ UNCHANGED <<invites, drafts, emptyFound, external>>

\* A member of the chat without a row changes no row, and still promotes a
\* waiting call.
LeaveGroupCall(c, m) ==
  /\ MayEndGroup(c, m)
  /\ part' = [part EXCEPT ![c][m] = IF @ = "absent" THEN @ ELSE "left"]
  /\ calls' = [calls EXCEPT ![c] =
       IF Joined(c)' = {} THEN Finalized(@, "ended", "all_left")
                          ELSE Activated(@)]
  /\ UNCHANGED <<invites, drafts, emptyFound, external>>

-----------------------------------------------------------------------------
(* issueCallToken: connecting to the media room *)

\* Mutant: the access mode is not looked at.
IssueTokenAnyAccess(c, m) ==
  /\ Live(c)
  /\ part[c][m] = "absent"
  /\ m \in accounts
  /\ MemberFree(m, c)
  /\ calls[c].type = "group"
  /\ InConversation(m, calls[c].conv)
  /\ ~Full(c)
  /\ part' = [part EXCEPT ![c][m] = "joined"]
  /\ calls' = [calls EXCEPT ![c] = Activated(@)]
  /\ UNCHANGED <<invites, drafts, emptyFound, external>>

\* Without a row: only a member of the chat of a closed conference.
IssueTokenFirstJoin(c, m) ==
  /\ Live(c)
  /\ part[c][m] = "absent"
  /\ m \in accounts
  /\ MemberFree(m, c)
  /\ calls[c].type = "group"
  /\ calls[c].access = "closed"
  /\ InConversation(m, calls[c].conv)
  /\ ~Full(c)
  /\ part' = [part EXCEPT ![c][m] = "joined"]
  /\ calls' = [calls EXCEPT ![c] = Activated(@)]
  /\ UNCHANGED <<invites, drafts, emptyFound, external>>

\* Mutant: the callee may connect before accepting.
IssueTokenUnanswered(c, m) ==
  /\ Live(c)
  /\ part[c][m] # "absent"
  /\ part[c][m] \in InCallStatus \/ MemberFree(m, c)
  /\ part' = [part EXCEPT ![c][m] = "joined"]
  /\ UNCHANGED <<calls, invites, drafts, emptyFound, external>>

\* Mutant: the status of the call is not looked at.
IssueTokenWhenOver(c, m) ==
  /\ part[c][m] # "absent"
  /\ part[c][m] \in InCallStatus \/ MemberFree(m, c)
  /\ calls[c].type = "direct" =>
       /\ m = calls[c].by \/ calls[c].status # "ringing"
       /\ part[c][m] \notin {"declined", "missed"}
  /\ part' = [part EXCEPT ![c][m] = "joined"]
  /\ UNCHANGED <<calls, invites, drafts, emptyFound, external>>

\* With a row: a refresh, or the return of someone who left.  The limit on
\* participants is not looked at and a waiting call is not promoted.
IssueTokenExisting(c, m) ==
  /\ Live(c)
  /\ part[c][m] # "absent"
  /\ part[c][m] \in InCallStatus \/ MemberFree(m, c)
  /\ calls[c].type = "direct" =>
       /\ m = calls[c].by \/ calls[c].status # "ringing"
       /\ part[c][m] \notin {"declined", "missed"}
  /\ part' = [part EXCEPT ![c][m] = "joined"]
  /\ UNCHANGED <<calls, invites, drafts, emptyFound, external>>

-----------------------------------------------------------------------------
(* Invitations *)

\* createInvitation reads the call and the caller's rights outside any
\* transaction ...
CheckInvitation(c, m, max, link) ==
  /\ drafts = {}                  \* bound: one request of this kind at a time
  /\ m \in accounts
  /\ calls[c].type = "group"
  /\ Meeting(c)
  /\ calls[c].by = m \/ CanManage(m, calls[c].conv)
  /\ drafts' = {[call |-> c, by |-> m, max |-> max,
                 link |-> link /\ calls[c].access # "link"]}
  /\ UNCHANGED <<calls, part, invites, emptyFound, external>>

\* ... opens the call for links, in a statement of its own ...
OpenAccess(d) ==
  /\ d \in drafts
  /\ d.link
  /\ calls' = [calls EXCEPT ![d.call].access = "link"]
  /\ drafts' = (drafts \ {d}) \cup {[d EXCEPT !.link = FALSE]}
  /\ UNCHANGED <<part, invites, emptyFound, external>>

\* ... and stores the invitation, whatever became of the call meanwhile.
StoreInvitation(d, i) ==
  /\ d \in drafts
  /\ ~d.link
  /\ invites[i].state = "unused"
  /\ invites' = [invites EXCEPT ![i] = NewInvite(d.call, d.by, d.max)]
  /\ drafts' = drafts \ {d}
  /\ UNCHANGED <<calls, part, emptyFound, external>>

\* The caller's rights, read just before, are taken to be still the same.
RevokeInvitation(i, m) ==
  LET c == invites[i].call IN
  /\ invites[i].state \in {"live", "expired"}
  /\ m \in accounts
  /\ calls[c].by = m \/ CanManage(m, calls[c].conv)
  /\ invites' = [invites EXCEPT ![i].state = "revoked"]
  /\ UNCHANGED <<calls, part, drafts, emptyFound, external>>

\* expires_at passes.
ExpireInvitation(i) ==
  /\ invites[i].state = "live"
  /\ invites' = [invites EXCEPT ![i].state = "expired"]
  /\ UNCHANGED <<calls, part, drafts, emptyFound, external>>

\* The end of cleanupStaleCalls: long expired invitations are revoked.
SweepInvitation(i) ==
  /\ invites[i].state = "expired"
  /\ invites' = [invites EXCEPT ![i].state = "revoked"]
  /\ UNCHANGED <<calls, part, drafts, emptyFound, external>>

\* Mutant: one use too many.
UsableOnceMore(i) ==
  /\ invites[i].state = "live"
  /\ invites[i].max = 0 \/ invites[i].used <= invites[i].max

Usable(i) ==
  /\ invites[i].state = "live"
  /\ invites[i].max = 0 \/ invites[i].used < invites[i].max

\* joinViaInvitation; the issueCallToken it ends with is a transaction of its
\* own, IssueTokenExisting.
JoinViaInvitation(i, m) ==
  LET c == invites[i].call
      already == part[c][m] = "joined"
  IN
  /\ Usable(i)
  /\ m \in accounts
  /\ Meeting(c)
  /\ calls[c].access = "closed" => InConversation(m, calls[c].conv)
  /\ already \/ (MemberFree(m, c) /\ ~Full(c))
  /\ part' = [part EXCEPT ![c][m] = "joined"]
  /\ invites' = [invites EXCEPT ![i].used =
       IF already \/ invites[i].max = 0 THEN @ ELSE @ + 1]
  /\ calls' = [calls EXCEPT ![c] = Activated(@)]
  /\ UNCHANGED <<drafts, emptyFound, external>>

-----------------------------------------------------------------------------
(* cleanupStaleCalls, every fifteen seconds *)

\* Mutant: the sweep looks for a callee who is still being rung.
MissRingingIfRung(c) ==
  /\ calls[c].status = "ringing"
  /\ \E m \in Members : part[c][m] = "ringing"
  /\ part' = [part EXCEPT ![c] =
       [m \in Members |-> IF @[m] = "ringing" THEN "missed" ELSE @[m]]]
  /\ calls' = [calls EXCEPT ![c] = Finalized(@, "missed", "no_answer")]
  /\ UNCHANGED <<invites, drafts, emptyFound, external>>

\* Mutant: the callee's row is forgotten.
MissRingingRowLeft(c) ==
  /\ calls[c].status = "ringing"
  /\ calls' = [calls EXCEPT ![c] = Finalized(@, "missed", "no_answer")]
  /\ UNCHANGED <<part, invites, drafts, emptyFound, external>>

\* The ring timeout: the status is read again under the row lock.
MissRinging(c) ==
  /\ calls[c].status = "ringing"
  /\ part' = [part EXCEPT ![c] =
       [m \in Members |-> IF @[m] = "ringing" THEN "missed" ELSE @[m]]]
  /\ calls' = [calls EXCEPT ![c] = Finalized(@, "missed", "no_answer")]
  /\ UNCHANGED <<invites, drafts, emptyFound, external>>

\* The last transaction of reconcileGhostParticipants, for the members G the
\* sweep has counted absent (module GhostSweep says which).
ClearGhosts(c, G) ==
  /\ Meeting(c)
  /\ G # {}
  /\ part' = [part EXCEPT ![c] =
       [m \in Members |-> IF m \in G /\ @[m] = "joined" THEN "left" ELSE @[m]]]
  /\ calls' = [calls EXCEPT ![c] =
       IF Joined(c)' = {} THEN Finalized(@, "ended", "ghost_cleanup") ELSE @]
  /\ UNCHANGED <<invites, drafts, emptyFound, external>>

\* The sweep lists the calls nobody has joined ...
FindEmpty(c) ==
  /\ Meeting(c)
  /\ Joined(c) = {}
  /\ emptyFound' = emptyFound \cup {c}
  /\ UNCHANGED <<calls, part, invites, drafts, external>>

\* ... and ends each of them if it is still a meeting.
EndEmpty(c) ==
  /\ c \in emptyFound
  /\ emptyFound' = emptyFound \ {c}
  /\ calls' = [calls EXCEPT ![c] =
       IF @.status \in {"waiting", "active"}
       THEN Finalized(@, "ended", IF @.type = "group" THEN "expired_empty"
                                                      ELSE "stale_direct")
       ELSE @]
  /\ UNCHANGED <<part, invites, drafts, external>>

-----------------------------------------------------------------------------
(* What other parts of the program do to these rows *)

\* The messenger: somebody leaves a group chat, is removed, or (re)enters.
\* Nobody is left to let anyone into an empty chat.
LeaveConversation(v, m) ==
  /\ ConvType[v] = "group"
  /\ m \in convMembers[v]
  /\ convMembers' = [convMembers EXCEPT ![v] = @ \ {m}]
  /\ UNCHANGED <<calls, part, invites, drafts, emptyFound, accounts>>

EnterConversation(v, m) ==
  /\ ConvType[v] = "group"
  /\ convMembers[v] # {}
  /\ m \in accounts
  /\ convMembers' = [convMembers EXCEPT ![v] = @ \cup {m}]
  /\ UNCHANGED <<calls, part, invites, drafts, emptyFound, accounts>>

\* ON DELETE CASCADE from the calls in C and the member m (NoMember: nobody).
Cascade(C, m) ==
  /\ calls' = [c \in CallIds |-> IF c \in C THEN EmptyRow("deleted")
                                            ELSE calls[c]]
  /\ part' = [c \in CallIds |-> [n \in Members |->
                IF c \in C \/ n = m THEN "absent" ELSE part[c][n]]]
  /\ invites' = [i \in InviteIds |->
                IF invites[i].call \in C \/ invites[i].by = m
                THEN IF invites[i].state = "unused" THEN invites[i]
                                                    ELSE EmptyInvite("deleted")
                ELSE invites[i]]
  /\ drafts' = {d \in drafts : d.call \notin C /\ d.by # m}
  /\ UNCHANGED emptyFound

\* deleteUser: DELETE FROM members, with what refers to the row.
DeleteUser(m) ==
  /\ m \in accounts
  /\ accounts' = accounts \ {m}
  /\ convMembers' = [v \in Conversations |-> convMembers[v] \ {m}]
  /\ Cascade({c \in CallIds : calls[c].by = m}, m)

\* Deleting a chat deletes its calls, the live ones included.
DeleteConversation(v) ==
  /\ convMembers[v] # {}
  /\ convMembers' = [convMembers EXCEPT ![v] = {}]
  /\ UNCHANGED accounts
  /\ Cascade({c \in CallIds : calls[c].conv = v}, NoMember)

-----------------------------------------------------------------------------

Request(c, m) ==
  \/ \E b \in Members, v \in Conversations : CreateDirectCall(c, m, b, v)
  \/ \E v \in Conversations, x \in {"closed", "link"}, i \in InviteIds :
        CreateGroupCall(c, m, v, x, i)
  \/ \E i \in InviteIds : CreateStandaloneLinkCall(c, m, i)
  \/ AcceptCall(c, m)
  \/ DeclineCall(c, m)
  \/ CancelCall(c, m)
  \/ HangUpDirect(c, m)
  \/ EndForAll(c, m)
  \/ LeaveGroupCall(c, m)
  \/ IssueTokenFirstJoin(c, m)
  \/ IssueTokenExisting(c, m)
  \/ \E max \in MaxUseChoices, link \in BOOLEAN : CheckInvitation(c, m, max, link)

Invitation(i) ==
  \/ \E d \in drafts : OpenAccess(d) \/ StoreInvitation(d, i)
  \/ \E m \in Members : RevokeInvitation(i, m)
  \/ ExpireInvitation(i)
  \/ SweepInvitation(i)
  \/ \E m \in Members : JoinViaInvitation(i, m)

Sweep(c) ==
  \/ MissRinging(c)
  \/ \E G \in SUBSET Members : ClearGhosts(c, G)
  \/ FindEmpty(c)
  \/ EndEmpty(c)

Elsewhere ==
  \/ \E v \in Conversations, m \in Movers :
        LeaveConversation(v, m) \/ EnterConversation(v, m)
  \/ \E m \in Deletable : DeleteUser(m)
  \/ \E v \in DeletableConvs : DeleteConversation(v)

Next ==
  \/ \E c \in CallIds : (\E m \in Members : Request(c, m)) \/ Sweep(c)
  \/ \E i \in InviteIds : Invitation(i)
  \/ Elsewhere

Spec == Init /\ [][Next]_vars

\* The cron job runs for as long as the server does, and every run looks at
\* every ringing call past its timeout and closes what it read as empty.
FairSpec ==
  /\ Spec
  /\ \A c \in CallIds : WF_vars(MissRinging(c)) /\ WF_vars(EndEmpty(c))

-----------------------------------------------------------------------------
(* Safety *)

\* No member is in two live calls at once: being rung or joined counts, and
\* every path that puts a member into a call (create, accept, token, invite)
\* has to have looked at all the others.  docs/calls-livekit.md:220.
OneCallPerMember ==
  \A m \in Members : \A c, d \in CallIds :
    Busy(m, c) /\ Busy(m, d) => c = d

\* A ringing call is a direct one with its initiator joined and at most one
\* other row, which is still ringing: no answer, refusal, hang-up or account
\* deletion leaves a half-processed ringing call behind.
RingingIsUnanswered ==
  \A c \in CallIds : calls[c].status = "ringing" =>
    /\ calls[c].type = "direct"
    /\ Joined(c) = {calls[c].by}
    /\ \A m \in Members \ {calls[c].by} : part[c][m] \in {"absent", "ringing"}
    /\ \A m, n \in Members :
         part[c][m] = "ringing" /\ part[c][n] = "ringing" => m = n

\* A waiting conference holds its initiator and nobody else has ever been in
\* it: whoever comes, by token or by invitation, makes it active, and the
\* initiator leaving ends it.
WaitingIsHostAlone ==
  \A c \in CallIds : calls[c].status = "waiting" =>
    /\ calls[c].type = "group"
    /\ \A m \in Members :
         part[c][m] = IF m = calls[c].by THEN "joined" ELSE "absent"

\* As long as no account is deleted, a call that is on has somebody in it:
\* leaving, hanging up and the ghost sweep end the call with its last member.
MeetingHasSomeone ==
  accounts = Members => \A c \in CallIds : Meeting(c) => Joined(c) # {}

\* The recorded end reason is true of the participant rows the call ended
\* with, whatever happened in the call before.
EndReasonIsTrue ==
  \A c \in CallIds :
    /\ calls[c].reason \in {"all_left", "ghost_cleanup"} => Joined(c) = {}
    /\ calls[c].reason = "no_answer" =>
         /\ Joined(c) = {calls[c].by}
         /\ \A m \in Members : part[c][m] # "ringing"
    /\ calls[c].reason = "declined" =>
         \A m \in Members \ {calls[c].by} :
           part[c][m] \in {"declined", "absent"}
    /\ calls[c].reason = "cancelled" /\ calls[c].type = "group" =>
         Joined(c) = {calls[c].by}

\* An invitation is never used more often than its max_uses, however joins,
\* departures and returns are interleaved.
InvitationNotOverspent ==
  \A i \in InviteIds : invites[i].max # 0 => invites[i].used <= invites[i].max

-----------------------------------------------------------------------------
(* Action properties *)

Unchanged(c) == calls'[c].status = calls[c].status
                /\ calls'[c].reason = calls[c].reason

\* A finished call is history: neither its outcome nor its participants'
\* rows change any more, except that rows disappear with their account or
\* chat.  No late token, join, answer or sweep touches it.
FinishedIsHistory ==
  [][\A c \in CallIds : calls[c].status \in EndStatus =>
       \/ calls'[c].status = "deleted"
       \/ /\ Unchanged(c)
          /\ \A m \in Members : part'[c][m] \in {part[c][m], "absent"}]_vars

\* "Leaving is not ending": while somebody else is still joined, a running
\* conference ends only because a moderator ended it for all.  (Except when an
\* account is deleted: the sweep lists the empty rooms before it locks them,
\* and a member may come back in between.)
\* docs/calls-livekit.md:222.
LeavingIsNotEnding ==
  [][\A c \in CallIds :
       /\ calls[c].type = "group" /\ calls[c].status = "active"
       /\ calls'[c].status \in EndStatus
       /\ Joined(c)' # {}
       => \/ calls'[c].reason = "ended_by_moderator"
          \/ accounts # Members /\ calls'[c].reason = "expired_empty"]_vars

\* Nobody enters a conference for the first time beyond the limit on
\* participants (the default 50 of docs/calls-livekit.md:223).
FirstJoinWithinLimit ==
  [][\A c \in CallIds : \A m \in Members :
       /\ calls[c].type = "group" /\ Live(c)
       /\ part[c][m] = "absent" /\ part'[c][m] = "joined"
       => Cardinality(Joined(c)') <= MaxParticipants]_vars

\* Nobody enters a conference for the first time except through a usable
\* invitation of that very call or, when it is closed, as a current member of
\* its chat; a closed one wants the membership in either case.
FirstJoinIsEntitled ==
  [][\A c \in CallIds : \A m \in Members :
       /\ calls[c].type = "group" /\ Live(c)
       /\ part[c][m] = "absent" /\ part'[c][m] = "joined"
       => IF calls[c].access = "closed"
          THEN InConversation(m, calls[c].conv)
          ELSE \E i \in InviteIds : invites[i].call = c /\ Usable(i)]_vars

-----------------------------------------------------------------------------
(* The abstract promise *)

\* The call m's slot is held for.
Occupied(m) ==
  IF \E c \in CallIds : Busy(m, c)
  THEN CHOOSE c \in CallIds : Busy(m, c)
  ELSE NoCall

Slots == INSTANCE MemberSlots WITH
  occupant <- [m \in Members |-> Occupied(m)], Free <- NoCall

\* The service implements MemberSlots: both parties of a direct call are
\* taken together, nobody is moved from one call into another in one step,
\* and ending a call releases everybody in it.
OneSlotEach == Slots!Spec

-----------------------------------------------------------------------------
(* Liveness *)

\* Nobody is rung for ever: a ringing call is answered, refused, cancelled or
\* missed, also when both clients vanish, because the sweep goes on.
RingingResolves ==
  \A c \in CallIds : calls[c].status = "ringing" ~> calls[c].status # "ringing"

-----------------------------------------------------------------------------
(* What the documentation says and the code does not keep *)

\* docs/calls-livekit.md:223: the limit on the participants of a conference.
GroupWithinLimit ==
  \A c \in CallIds : Live(c) => Cardinality(Joined(c)) <= MaxParticipants
=============================================================================
