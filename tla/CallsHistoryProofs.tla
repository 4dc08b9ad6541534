-------------------------- MODULE CallsHistoryProofs --------------------------
(***************************************************************************)
(* What no step of module Calls does: use an invitation too often, touch a *)
(* finished call, let somebody into a conference who has no right to or    *)
(* finds it full.                                                          *)
(***************************************************************************)
EXTENDS CallsProofs, FiniteSetTheorems

\* The number of uses stays within the limit one invitation at a time.
InviteOK(row) == row.max # 0 => row.used <= row.max

\* Only joining by an invitation and storing a new one write the two numbers.
LEMMA UsesKept ==
  ASSUME TypeOK, InvitationNotOverspent, Next, NEW i \in InviteIds
  PROVE  InviteOK(invites'[i])
<1>1. InviteOK(invites[i])
  BY DEF InvitationNotOverspent, InviteOK
<1>2. \A c, m : \A max \in Nat : InviteOK(NewInvite(c, m, max))
  BY DEF InviteOK, NewInvite
<1>3. ASSUME NEW c \in CallIds, NEW m \in Members, Request(c, m)
      PROVE  InviteOK(invites'[i])
  <2>1. ASSUME NEW v, NEW x, NEW k \in InviteIds, OpenMeeting(c, m, v, x, k)
        PROVE  InviteOK(invites'[i])
    BY <1>1, <1>2, <2>1 DEF OpenMeeting, TypeOK
  <2>2. CASE UNCHANGED invites
    BY <1>1, <2>2
  <2>3. QED
    BY <1>3, <2>1, <2>2
       DEF Request, CreateDirectCall, CreateGroupCall, CreateStandaloneLinkCall,
           AcceptCall, DeclineCall, CancelCall, HangUpDirect, EndForAll,
           LeaveGroupCall, IssueTokenFirstJoin, IssueTokenExisting,
           CheckInvitation
<1>4. ASSUME NEW k \in InviteIds, Invitation(k)
      PROVE  InviteOK(invites'[i])
  <2>1. CASE \E d \in drafts : OpenAccess(d)
    BY <1>1, <2>1 DEF OpenAccess
  <2>2. CASE \E d \in drafts : StoreInvitation(d, k)
    <3>1. PICK d \in drafts : StoreInvitation(d, k)
      BY <2>2
    <3>2. d.max \in Nat
      BY <3>1, CallsAssumption DEF TypeOK, Draft
    <3>3. QED
      BY <1>1, <1>2, <3>1, <3>2 DEF StoreInvitation, TypeOK
  <2>3. CASE \/ \E m \in Members : RevokeInvitation(k, m)
             \/ ExpireInvitation(k)
             \/ SweepInvitation(k)
    BY <1>1, <2>3
       DEF RevokeInvitation, ExpireInvitation, SweepInvitation, TypeOK,
           InviteRow, InviteOK
  <2>4. ASSUME NEW m \in Members, JoinViaInvitation(k, m)
        PROVE  InviteOK(invites'[i])
    <3>1. /\ invites[k].max # 0 => invites[k].used < invites[k].max
          /\ invites[k].max \in Nat /\ invites[k].used \in Nat
      BY <2>4 DEF JoinViaInvitation, Usable, TypeOK, InviteRow
    <3>2. PICK n : /\ invites' = [invites EXCEPT ![k].used = n]
                   /\ n = invites[k].used \/ n = invites[k].used + 1
                   /\ invites[k].max = 0 => n = invites[k].used
      BY <2>4 DEF JoinViaInvitation, TypeOK, InviteRow
    <3>3. CASE i = k
      BY <1>1, <3>1, <3>2, <3>3 DEF TypeOK, InviteRow, InviteOK
    <3>4. CASE i # k
      BY <1>1, <3>2, <3>4 DEF TypeOK
    <3>5. QED
      BY <3>3, <3>4
  <2>5. QED
    BY <1>4, <2>1, <2>2, <2>3, <2>4 DEF Invitation
<1>5. ASSUME NEW c \in CallIds, Sweep(c)
      PROVE  InviteOK(invites'[i])
  BY <1>1, <1>5 DEF Sweep, MissRinging, ClearGhosts, FindEmpty, EndEmpty
<1>6. CASE Elsewhere
  <2>1. ASSUME NEW C, NEW m, Cascade(C, m)
        PROVE  InviteOK(invites'[i])
    BY <1>1, <2>1 DEF Cascade, EmptyInvite, InviteOK
  <2>2. QED
    BY <1>1, <1>6, <2>1
       DEF Elsewhere, LeaveConversation, EnterConversation, DeleteUser,
           DeleteConversation
<1>7. QED
  BY <1>3, <1>4, <1>5, <1>6 DEF Next

\* No invitation is used more often than its max_uses: joinViaInvitation
\* compares and counts under the row lock of the invitation.
THEOREM InvitationsNotOverspent == Spec => []InvitationNotOverspent
<1>1. Init => InvitationNotOverspent
  BY DEF Init, InvitationNotOverspent, EmptyInvite
<1>2. TypeOK /\ InvitationNotOverspent /\ [Next]_vars => InvitationNotOverspent'
  <2>1. ASSUME TypeOK, InvitationNotOverspent, Next
        PROVE  InvitationNotOverspent'
    BY <2>1, UsesKept DEF InvitationNotOverspent, InviteOK
  <2>2. InvitationNotOverspent /\ UNCHANGED vars => InvitationNotOverspent'
    BY DEF InvitationNotOverspent, vars
  <2>3. QED
    BY <2>1, <2>2
<1>3. QED
  BY <1>1, <1>2, TypeCorrect, PTL DEF Spec

-----------------------------------------------------------------------------

\* c has been left alone, or has disappeared, or lost rows with an account.
StaysHistory(c) ==
  \/ calls'[c].status = "deleted"
  \/ /\ Unchanged(c)
     /\ \A m \in Members : part'[c][m] \in {part[c][m], "absent"}

\* A member who may be put into a call, or marked, is in one that is not over.
LEMMA RequestHistory ==
  ASSUME TypeOK, NEW c \in CallIds, calls[c].status \in EndStatus,
         NEW d \in CallIds, NEW m \in Members, Request(d, m)
  PROVE  StaysHistory(c)
<1>1. CASE \E max \in MaxUseChoices, link \in BOOLEAN :
             CheckInvitation(d, m, max, link)
  BY <1>1 DEF CheckInvitation, StaysHistory, Unchanged
<1>2. CASE CancelCall(d, m) \/ HangUpDirect(d, m) \/ EndForAll(d, m)
  BY <1>2 DEF CancelCall, HangUpDirect, EndForAll, Live, LiveStatus, EndStatus,
              Meeting, TypeOK, StaysHistory, Unchanged
<1>3. CASE \/ AcceptCall(d, m) \/ DeclineCall(d, m)
           \/ LeaveGroupCall(d, m)
           \/ IssueTokenFirstJoin(d, m) \/ IssueTokenExisting(d, m)
  BY <1>3 DEF AcceptCall, DeclineCall, LeaveGroupCall, MayEndGroup,
              IssueTokenFirstJoin, IssueTokenExisting, Live, LiveStatus,
              EndStatus, TypeOK, StaysHistory, Unchanged
<1>4. CASE \/ \E b \in Members, v \in Conversations :
                 CreateDirectCall(d, m, b, v)
           \/ \E v, x : \E i \in InviteIds : OpenMeeting(d, m, v, x, i)
  BY <1>4 DEF CreateDirectCall, OpenMeeting, EndStatus, TypeOK, StaysHistory,
              Unchanged
<1>5. QED
  BY <1>1, <1>2, <1>3, <1>4
     DEF Request, CreateGroupCall, CreateStandaloneLinkCall

\* The sweep, too, looks at the status under the row lock.
LEMMA SweepHistory ==
  ASSUME TypeOK, NEW c \in CallIds, calls[c].status \in EndStatus,
         NEW d \in CallIds, Sweep(d)
  PROVE  StaysHistory(c)
<1>1. CASE MissRinging(d) \/ \E G \in SUBSET Members : ClearGhosts(d, G)
  BY <1>1 DEF MissRinging, ClearGhosts, Meeting, EndStatus, TypeOK,
              StaysHistory, Unchanged
<1>2. CASE FindEmpty(d) \/ EndEmpty(d)
  BY <1>2 DEF FindEmpty, EndEmpty, EndStatus, TypeOK, StaysHistory, Unchanged
<1>3. QED
  BY <1>1, <1>2 DEF Sweep

\* Invitations: opening a finished call for links changes neither its outcome
\* nor its participants.
LEMMA InvitationHistory ==
  ASSUME TypeOK, NEW c \in CallIds, calls[c].status \in EndStatus,
         NEW i \in InviteIds, Invitation(i)
  PROVE  StaysHistory(c)
<1>1. CASE \E d \in drafts : OpenAccess(d)
  <2>1. PICK d \in drafts : OpenAccess(d)
    BY <1>1
  <2>2. CASE d.call = c
    <3>1. calls' = [calls EXCEPT ![c] = [calls[c] EXCEPT !.access = "link"]]
      BY <2>1, <2>2 DEF OpenAccess, TypeOK
    <3>2. Unchanged(c)
      BY <3>1 DEF Unchanged, TypeOK, CallRow
    <3>3. QED
      BY <2>1, <3>2 DEF OpenAccess, StaysHistory
  <2>3. CASE d.call # c
    BY <2>1, <2>3 DEF OpenAccess, StaysHistory, Unchanged, TypeOK
  <2>4. QED
    BY <2>2, <2>3
<1>2. CASE \E m \in Members : JoinViaInvitation(i, m)
  BY <1>2 DEF JoinViaInvitation, Meeting, EndStatus, TypeOK, InviteRow,
              StaysHistory, Unchanged
<1>3. QED
  BY <1>1, <1>2
     DEF Invitation, StoreInvitation, RevokeInvitation, ExpireInvitation,
         SweepInvitation, StaysHistory, Unchanged

\* Deleting an account or a chat takes rows away and changes no other.
LEMMA ElsewhereHistory ==
  ASSUME TypeOK, NEW c \in CallIds, calls[c].status \in EndStatus, Elsewhere
  PROVE  StaysHistory(c)
<1>1. ASSUME NEW C, NEW m, Cascade(C, m)
      PROVE  StaysHistory(c)
  BY <1>1 DEF Cascade, EmptyRow, StaysHistory, Unchanged
<1>2. QED
  BY <1>1 DEF Elsewhere, LeaveConversation, EnterConversation, DeleteUser,
              DeleteConversation, StaysHistory, Unchanged

\* A finished call is history: every handler that writes a call or its
\* participants has looked at its status under the row lock.
THEOREM HistoryStays == Spec => FinishedIsHistory
<1>1. ASSUME TypeOK, [Next]_vars, NEW c \in CallIds,
             calls[c].status \in EndStatus
      PROVE  StaysHistory(c)
  <2>1. CASE UNCHANGED vars
    BY <2>1 DEF vars, StaysHistory, Unchanged
  <2>2. QED
    BY <1>1, <2>1, RequestHistory, SweepHistory, InvitationHistory,
       ElsewhereHistory DEF Next
<1>2. TypeOK /\ [Next]_vars =>
        [\A c \in CallIds : calls[c].status \in EndStatus =>
           \/ calls'[c].status = "deleted"
           \/ /\ Unchanged(c)
              /\ \A m \in Members : part'[c][m] \in {part[c][m], "absent"}]_vars
  BY <1>1 DEF StaysHistory
<1>3. QED
  BY <1>2, TypeCorrect, PTL DEF Spec, FinishedIsHistory

-----------------------------------------------------------------------------

\* m enters the conference c for the first time.
FirstJoin(c, m) ==
  /\ calls[c].type = "group" /\ Live(c)
  /\ part[c][m] = "absent" /\ part'[c][m] = "joined"

\* There are two ways in.
LEMMA TwoWaysIn ==
  ASSUME TypeOK, [Next]_vars, NEW c \in CallIds, NEW m \in Members, FirstJoin(c, m)
  PROVE  \/ IssueTokenFirstJoin(c, m)
         \/ \E i \in InviteIds : invites[i].call = c /\ JoinViaInvitation(i, m)
<1>1. part' # part
  BY DEF FirstJoin
<1>2. ASSUME NEW d \in CallIds, NEW n \in Members, Request(d, n)
      PROVE  IssueTokenFirstJoin(c, m)
  <2>1. CASE \/ \E b \in Members, v \in Conversations : CreateDirectCall(d, n, b, v)
             \/ \E v, x : \E i \in InviteIds : OpenMeeting(d, n, v, x, i)
    <3>1. d # c
      BY <2>1 DEF CreateDirectCall, OpenMeeting, FirstJoin, Live, LiveStatus
    <3>2. QED
      BY <2>1, <3>1 DEF CreateDirectCall, OpenMeeting, FirstJoin, TypeOK
  <2>2. CASE AcceptCall(d, n) \/ DeclineCall(d, n)
    BY <2>2 DEF AcceptCall, DeclineCall, FirstJoin, TypeOK
  <2>3. CASE \/ CancelCall(d, n) \/ HangUpDirect(d, n) \/ EndForAll(d, n)
             \/ \E max \in MaxUseChoices, link \in BOOLEAN : CheckInvitation(d, n, max, link)
    BY <1>1, <2>3 DEF CancelCall, HangUpDirect, EndForAll, CheckInvitation
  <2>4. CASE LeaveGroupCall(d, n)
    BY <2>4 DEF LeaveGroupCall, FirstJoin, TypeOK
  <2>5. CASE IssueTokenFirstJoin(d, n)
    <3>1. d = c /\ n = m
      BY <2>5 DEF IssueTokenFirstJoin, FirstJoin, TypeOK
    <3>2. QED
      BY <2>5, <3>1
  <2>6. CASE IssueTokenExisting(d, n)
    BY <2>6 DEF IssueTokenExisting, FirstJoin, TypeOK
  <2>7. QED
    BY <1>2, <2>1, <2>2, <2>3, <2>4, <2>5, <2>6
       DEF Request, CreateGroupCall, CreateStandaloneLinkCall
<1>3. ASSUME NEW i \in InviteIds, Invitation(i)
      PROVE  \E j \in InviteIds : invites[j].call = c /\ JoinViaInvitation(j, m)
  <2>1. PICK n \in Members : JoinViaInvitation(i, n)
    BY <1>1, <1>3 DEF Invitation, OpenAccess, StoreInvitation, RevokeInvitation,
                      ExpireInvitation, SweepInvitation
  <2>2. invites[i].call = c /\ n = m
    BY <2>1 DEF JoinViaInvitation, FirstJoin, TypeOK
  <2>3. QED
    BY <2>1, <2>2
<1>4. ASSUME NEW d \in CallIds, Sweep(d) PROVE FALSE
  BY <1>1, <1>4 DEF Sweep, MissRinging, ClearGhosts, FindEmpty, EndEmpty,
                    FirstJoin, TypeOK
<1>5. CASE Elsewhere
  <2>1. ASSUME NEW C, NEW n, Cascade(C, n) PROVE FALSE
    BY <2>1 DEF Cascade, FirstJoin
  <2>2. QED
    BY <1>1, <1>5, <2>1 DEF Elsewhere, LeaveConversation, EnterConversation,
                            DeleteUser, DeleteConversation
<1>6. QED
  BY <1>1, <1>2, <1>3, <1>4, <1>5 DEF Next, vars

\* Nobody enters a conference for the first time without a right to:
\* issueCallToken wants the membership of a closed one, joinViaInvitation a
\* usable invitation of the call.
THEOREM FirstJoinsEntitled == Spec => FirstJoinIsEntitled
<1>1. ASSUME TypeOK, [Next]_vars, NEW c \in CallIds, NEW m \in Members, FirstJoin(c, m)
      PROVE  IF calls[c].access = "closed"
             THEN InConversation(m, calls[c].conv)
             ELSE \E i \in InviteIds : invites[i].call = c /\ Usable(i)
  BY <1>1, TwoWaysIn DEF IssueTokenFirstJoin, JoinViaInvitation
<1>2. TypeOK /\ [Next]_vars =>
        [\A c \in CallIds : \A m \in Members :
           /\ calls[c].type = "group" /\ Live(c)
           /\ part[c][m] = "absent" /\ part'[c][m] = "joined"
           => IF calls[c].access = "closed"
              THEN InConversation(m, calls[c].conv)
              ELSE \E i \in InviteIds : invites[i].call = c /\ Usable(i)]_vars
  BY <1>1 DEF FirstJoin
<1>3. QED
  BY <1>2, TypeCorrect, PTL DEF Spec, FirstJoinIsEntitled

\* Of finitely many members, none enters a full conference for the first time:
\* both ways in count who is joined (participantCount) under the row lock.
THEOREM FirstJoinsLimited == IsFiniteSet(Members) => (Spec => FirstJoinWithinLimit)
<1> SUFFICES ASSUME IsFiniteSet(Members) PROVE Spec => FirstJoinWithinLimit
  OBVIOUS
<1>1. ASSUME TypeOK, [Next]_vars, NEW c \in CallIds, NEW m \in Members, FirstJoin(c, m)
      PROVE  Cardinality(Joined(c)') <= MaxParticipants
  <2>1. ~Full(c) /\ part' = [part EXCEPT ![c][m] = "joined"]
    <3>1. \/ IssueTokenFirstJoin(c, m)
          \/ \E i \in InviteIds : JoinViaInvitation(i, m) /\ invites[i].call = c
      BY <1>1, TwoWaysIn
    <3>2. CASE IssueTokenFirstJoin(c, m)
      BY <3>2 DEF IssueTokenFirstJoin
    <3>3. ASSUME NEW i \in InviteIds, JoinViaInvitation(i, m), invites[i].call = c
          PROVE  ~Full(c) /\ part' = [part EXCEPT ![c][m] = "joined"]
      BY <1>1, <3>3 DEF JoinViaInvitation, FirstJoin
    <3>4. QED
      BY <3>1, <3>2, <3>3
  <2>2. Joined(c)' = Joined(c) \cup {m} /\ m \notin Joined(c)
    BY <1>1, <2>1 DEF Joined, FirstJoin, TypeOK
  <2>3. IsFiniteSet(Joined(c))
    BY FS_Subset DEF Joined
  <2>4. /\ Cardinality(Joined(c)) \in Nat
        /\ Cardinality(Joined(c)') = Cardinality(Joined(c)) + 1
    BY <2>2, <2>3, FS_CardinalityType, FS_AddElement
  <2>5. QED
    BY <2>1, <2>4, CallsAssumption DEF Full
<1>2. TypeOK /\ [Next]_vars =>
        [\A c \in CallIds : \A m \in Members :
           /\ calls[c].type = "group" /\ Live(c)
           /\ part[c][m] = "absent" /\ part'[c][m] = "joined"
           => Cardinality(Joined(c)') <= MaxParticipants]_vars
  BY <1>1 DEF FirstJoin
<1>3. QED
  BY <1>2, TypeCorrect, PTL DEF Spec, FirstJoinWithinLimit
=============================================================================
