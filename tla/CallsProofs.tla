----------------------------- MODULE CallsProofs -----------------------------
(***************************************************************************)
(* Theorems of module Calls, for every set of members, calls, chats and    *)
(* invitations.                                                            *)
(***************************************************************************)
EXTENDS Calls, TLAPS

(***************************************************************************)
(* Typing.  One step per handler; the rows a handler leaves alone keep     *)
(* their types.                                                            *)
(***************************************************************************)

\* An ended or activated row is a row.
LEMMA RowTypes ==
  ASSUME NEW row \in CallRow, NEW s \in EndStatus, NEW r \in EndReason
  PROVE  Finalized(row, s, r) \in CallRow /\ Activated(row) \in CallRow
BY DEF CallRow, Finalized, Activated, CallStatus, LiveStatus

\* The request handlers keep the types.
LEMMA RequestTypes ==
  ASSUME TypeOK, NEW c \in CallIds, NEW m \in Members, Request(c, m)
  PROVE  TypeOK'
<1> USE DEF TypeOK, external
<1>1. ASSUME NEW b \in Members, NEW v \in Conversations,
             CreateDirectCall(c, m, b, v)
      PROVE  TypeOK'
  BY <1>1 DEF CreateDirectCall, CallRow, CallStatus, LiveStatus, EndReason,
              PartStatus
<1>2. ASSUME NEW v \in Conversations \cup {NoConv}, NEW x \in {"closed", "link"},
             NEW i \in InviteIds, OpenMeeting(c, m, v, x, i)
      PROVE  TypeOK'
  BY <1>2 DEF OpenMeeting, CallRow, CallStatus, LiveStatus, EndReason,
              PartStatus, InviteRow, NewInvite
<1>3. CASE AcceptCall(c, m)
  <2>1. [calls[c] EXCEPT !.status = "active"] \in CallRow
    BY DEF CallRow, CallStatus, LiveStatus
  <2>2. QED BY <1>3, <2>1 DEF AcceptCall, PartStatus
<1>4. CASE DeclineCall(c, m)
  BY <1>4, RowTypes DEF DeclineCall, EndStatus, EndReason, PartStatus
<1>5. CASE CancelCall(c, m)
  BY <1>5, RowTypes DEF CancelCall, EndStatus, EndReason
<1>6. CASE HangUpDirect(c, m)
  BY <1>6, RowTypes DEF HangUpDirect, EndStatus, EndReason
<1>7. CASE EndForAll(c, m)
  BY <1>7, RowTypes DEF EndForAll, EndStatus, EndReason
<1>8. CASE LeaveGroupCall(c, m)
  BY <1>8, RowTypes DEF LeaveGroupCall, EndStatus, EndReason, PartStatus
<1>9. CASE IssueTokenFirstJoin(c, m)
  <2>1. Activated(calls[c]) \in CallRow
    BY RowTypes DEF EndStatus, EndReason
  <2>2. QED BY <1>9, <2>1 DEF IssueTokenFirstJoin, PartStatus
<1>10. CASE IssueTokenExisting(c, m)
  BY <1>10 DEF IssueTokenExisting, PartStatus
<1>11. ASSUME NEW max \in MaxUseChoices, NEW link \in BOOLEAN,
              CheckInvitation(c, m, max, link)
       PROVE  TypeOK'
  BY <1>11 DEF CheckInvitation, Draft
<1>12. QED
  BY <1>1, <1>2, <1>3, <1>4, <1>5, <1>6, <1>7, <1>8, <1>9, <1>10, <1>11
     DEF Request, CreateGroupCall, CreateStandaloneLinkCall

\* The invitation handlers keep the types.
LEMMA InvitationTypes ==
  ASSUME TypeOK, NEW i \in InviteIds, Invitation(i)
  PROVE  TypeOK'
<1> USE DEF TypeOK, external
<1>1. ASSUME NEW d \in drafts, StoreInvitation(d, i)
      PROVE  TypeOK'
  <2>1. /\ d.call \in CallIds /\ d.by \in Members
        /\ d.max \in Nat
    BY CallsAssumption DEF Draft
  <2>2. NewInvite(d.call, d.by, d.max) \in InviteRow
    BY <2>1 DEF NewInvite, InviteRow
  <2>3. QED BY <1>1, <2>2 DEF StoreInvitation
<1>0. ASSUME NEW d \in drafts, OpenAccess(d)
      PROVE  TypeOK'
  <2>1. d.call \in CallIds /\ [d EXCEPT !.link = FALSE] \in Draft
    BY DEF Draft
  <2>2. [calls[d.call] EXCEPT !.access = "link"] \in CallRow
    <3>1. calls[d.call] \in CallRow
      BY <2>1
    <3>2. QED BY <3>1 DEF CallRow
  <2>3. QED BY <1>0, <2>1, <2>2 DEF OpenAccess
<1>2. ASSUME NEW m \in Members, RevokeInvitation(i, m)
      PROVE  TypeOK'
  BY <1>2 DEF RevokeInvitation, InviteRow
<1>3. CASE ExpireInvitation(i)
  BY <1>3 DEF ExpireInvitation, InviteRow
<1>4. CASE SweepInvitation(i)
  BY <1>4 DEF SweepInvitation, InviteRow
<1>5. ASSUME NEW m \in Members, JoinViaInvitation(i, m)
      PROVE  TypeOK'
  <2> DEFINE c == invites[i].call
  <2>1. part' \in [CallIds -> [Members -> PartStatus]]
    BY <1>5 DEF JoinViaInvitation, PartStatus
  <2>2. calls' \in [CallIds -> CallRow]
    <3>1. CASE c \in CallIds
      <4>1. Activated(calls[c]) \in CallRow
        BY <3>1, RowTypes DEF EndStatus, EndReason
      <4>2. QED BY <1>5, <4>1 DEF JoinViaInvitation
    <3>2. CASE c \notin CallIds
      BY <1>5, <3>2 DEF JoinViaInvitation
    <3>3. QED BY <3>1, <3>2
  <2>3. invites' \in [InviteIds -> InviteRow]
    <3>1. \A n \in Nat : [invites[i] EXCEPT !.used = n] \in InviteRow
      BY DEF InviteRow
    <3>2. invites[i].used \in Nat /\ invites[i].used + 1 \in Nat
      BY DEF InviteRow
    <3>3. QED BY <1>5, <3>1, <3>2 DEF JoinViaInvitation
  <2>4. QED BY <1>5, <2>1, <2>2, <2>3 DEF JoinViaInvitation
<1>6. QED
  BY <1>0, <1>1, <1>2, <1>3, <1>4, <1>5 DEF Invitation

\* The sweep keeps the types.
LEMMA SweepTypes ==
  ASSUME TypeOK, NEW c \in CallIds, Sweep(c)
  PROVE  TypeOK'
<1> USE DEF TypeOK, external
<1>1. CASE MissRinging(c)
  BY <1>1, RowTypes DEF MissRinging, EndStatus, EndReason, PartStatus
<1>2. ASSUME NEW G \in SUBSET Members, ClearGhosts(c, G)
      PROVE  TypeOK'
  BY <1>2, RowTypes DEF ClearGhosts, EndStatus, EndReason, PartStatus
<1>3. CASE FindEmpty(c)
  BY <1>3 DEF FindEmpty
<1>4. CASE EndEmpty(c)
  BY <1>4, RowTypes DEF EndEmpty, EndStatus, EndReason
<1>5. QED
  BY <1>1, <1>2, <1>3, <1>4 DEF Sweep

\* The other parts of the program keep the types.
LEMMA ElsewhereTypes ==
  ASSUME TypeOK, Elsewhere
  PROVE  TypeOK'
<1> USE DEF TypeOK, external
<1>1. EmptyRow("deleted") \in CallRow /\ EmptyInvite("deleted") \in InviteRow
  BY DEF EmptyRow, CallRow, CallStatus, EndReason, EmptyInvite, InviteRow
<1>2. ASSUME NEW C \in SUBSET CallIds, NEW m, Cascade(C, m)
      PROVE  /\ calls' \in [CallIds -> CallRow]
             /\ part' \in [CallIds -> [Members -> PartStatus]]
             /\ invites' \in [InviteIds -> InviteRow]
             /\ drafts' \subseteq Draft
             /\ emptyFound' \subseteq CallIds
  BY <1>1, <1>2 DEF Cascade, PartStatus
<1>3. ASSUME NEW v \in Conversations, NEW m \in Members,
             LeaveConversation(v, m) \/ EnterConversation(v, m)
      PROVE  TypeOK'
  BY <1>3 DEF LeaveConversation, EnterConversation
<1>4. ASSUME NEW m \in Members, DeleteUser(m)
      PROVE  TypeOK'
  BY <1>2, <1>4 DEF DeleteUser
<1>5. ASSUME NEW v \in Conversations, DeleteConversation(v)
      PROVE  TypeOK'
  BY <1>2, <1>5 DEF DeleteConversation
<1>6. QED
  BY <1>3, <1>4, <1>5, CallsAssumption DEF Elsewhere

\* Every row of the three tables keeps the shape initDb.ts declares for it:
\* the typing every other theorem starts from.
THEOREM TypeCorrect == Spec => []TypeOK
<1>1. Init => TypeOK
  BY CallsAssumption
     DEF Init, TypeOK, EmptyRow, CallRow, CallStatus, EndReason, PartStatus,
         EmptyInvite, InviteRow
<1>2. TypeOK /\ [Next]_vars => TypeOK'
  <2> SUFFICES ASSUME TypeOK, [Next]_vars PROVE TypeOK'
    OBVIOUS
  <2>1. CASE Next
    BY <2>1, RequestTypes, InvitationTypes, SweepTypes, ElsewhereTypes DEF Next
  <2>2. CASE UNCHANGED vars
    BY <2>2 DEF TypeOK, vars
  <2>3. QED BY <2>1, <2>2
<1>3. QED BY <1>1, <1>2, PTL DEF Spec

(***************************************************************************)
(* One call per member.  Every step either puts nobody into a call, or     *)
(* works on a single call, drops nobody from it, and puts into it only     *)
(* members found free of all the others.                                   *)
(***************************************************************************)
PutsNobody ==
  \A m \in Members : \A c \in CallIds : Busy(m, c)' => Busy(m, c)

PutsOnlyFree(c) ==
  /\ \A d \in CallIds \ {c} : calls'[d] = calls[d] /\ part'[d] = part[d]
  /\ \A m \in Members : Busy(m, c) => Busy(m, c)'
  /\ \A m \in Members : Busy(m, c)' /\ ~Busy(m, c) => MemberFree(m, c)

\* Ending or activating a call does not bring it to life.
LEMMA RowLife ==
  ASSUME NEW row \in CallRow, NEW s \in EndStatus, NEW r
  PROVE  /\ Finalized(row, s, r).status \notin LiveStatus
         /\ Activated(row).status \in LiveStatus <=> row.status \in LiveStatus
BY DEF CallRow, Finalized, Activated, LiveStatus, EndStatus

\* What the request handlers do to who is in a call.
LEMMA RequestOccupies ==
  ASSUME TypeOK, NEW c \in CallIds, NEW m \in Members, Request(c, m)
  PROVE  PutsNobody \/ PutsOnlyFree(c)
<1> USE DEF TypeOK
<1>r. \A s \in EndStatus : \A r :
        /\ Finalized(calls[c], s, r).status \notin LiveStatus
        /\ Activated(calls[c]).status \in LiveStatus <=> Live(c)
  BY RowLife DEF Live
<1>1. ASSUME NEW b \in Members, NEW v \in Conversations,
             CreateDirectCall(c, m, b, v)
      PROVE  PutsOnlyFree(c)
  BY <1>1 DEF CreateDirectCall, PutsOnlyFree, Busy, Live, LiveStatus,
              InCallStatus
<1>2. ASSUME NEW v, NEW x, NEW i \in InviteIds, OpenMeeting(c, m, v, x, i)
      PROVE  PutsOnlyFree(c)
  BY <1>2 DEF OpenMeeting, PutsOnlyFree, Busy, Live, LiveStatus, InCallStatus
<1>3. CASE AcceptCall(c, m)
  <2>1. calls'[c].status \in LiveStatus
    BY <1>3 DEF AcceptCall, LiveStatus, CallRow
  <2>2. PutsOnlyFree(c)
    BY <1>3, <2>1 DEF AcceptCall, PutsOnlyFree, Busy, Live, LiveStatus,
                      InCallStatus
  <2>3. QED BY <2>2
<1>4. CASE DeclineCall(c, m)
  BY <1>4, <1>r DEF DeclineCall, PutsNobody, Busy, Live, EndStatus
<1>5. CASE CancelCall(c, m)
  BY <1>5, <1>r DEF CancelCall, PutsNobody, Busy, Live, EndStatus
<1>6. CASE HangUpDirect(c, m)
  BY <1>6, <1>r DEF HangUpDirect, PutsNobody, Busy, Live, EndStatus
<1>7. CASE EndForAll(c, m)
  BY <1>7, <1>r DEF EndForAll, PutsNobody, Busy, Live, EndStatus
<1>8. CASE LeaveGroupCall(c, m)
  BY <1>8, <1>r DEF LeaveGroupCall, MayEndGroup, PutsNobody, Busy, Live,
                    EndStatus, InCallStatus
<1>9. CASE IssueTokenFirstJoin(c, m)
  BY <1>9, <1>r DEF IssueTokenFirstJoin, PutsOnlyFree, Busy, Live,
                    EndStatus, InCallStatus
<1>10. CASE IssueTokenExisting(c, m)
  BY <1>10 DEF IssueTokenExisting, PutsOnlyFree, Busy, Live, InCallStatus
<1>11. ASSUME NEW max, NEW link, CheckInvitation(c, m, max, link)
       PROVE  PutsNobody
  BY <1>11 DEF CheckInvitation, PutsNobody, Busy, Live
<1>12. QED
  BY <1>1, <1>2, <1>3, <1>4, <1>5, <1>6, <1>7, <1>8, <1>9, <1>10, <1>11
     DEF Request, CreateGroupCall, CreateStandaloneLinkCall

\* What the invitation handlers do to who is in a call.
LEMMA InvitationOccupies ==
  ASSUME TypeOK, NEW i \in InviteIds, Invitation(i)
  PROVE  PutsNobody \/ \E c \in CallIds : PutsOnlyFree(c)
<1> USE DEF TypeOK
<1>0. ASSUME NEW d \in drafts, OpenAccess(d)
      PROVE  PutsNobody
  <2>1. \A e \in CallIds : calls'[e].status = calls[e].status
    BY <1>0 DEF OpenAccess, CallRow, Draft
  <2>2. QED
    BY <1>0, <2>1 DEF OpenAccess, PutsNobody, Busy, Live
<1>1. ASSUME NEW d \in drafts, StoreInvitation(d, i)
      PROVE  PutsNobody
  BY <1>1 DEF StoreInvitation, PutsNobody, Busy, Live
<1>2. ASSUME NEW m \in Members, RevokeInvitation(i, m)
      PROVE  PutsNobody
  BY <1>2 DEF RevokeInvitation, PutsNobody, Busy, Live
<1>3. CASE ExpireInvitation(i) \/ SweepInvitation(i)
  BY <1>3 DEF ExpireInvitation, SweepInvitation, PutsNobody, Busy, Live
<1>4. ASSUME NEW m \in Members, JoinViaInvitation(i, m)
      PROVE  PutsNobody \/ \E c \in CallIds : PutsOnlyFree(c)
  <2> DEFINE c == invites[i].call
  <2>1. CASE c \in CallIds
    <3>1. Activated(calls[c]).status \in LiveStatus <=> Live(c)
      BY <2>1, RowLife DEF Live, EndStatus
    <3>2. PutsOnlyFree(c)
      BY <1>4, <2>1, <3>1 DEF JoinViaInvitation, PutsOnlyFree, Busy, Live,
                              InCallStatus
    <3>3. QED BY <2>1, <3>2
  <2>2. CASE c \notin CallIds
    BY <1>4, <2>2 DEF JoinViaInvitation, PutsNobody, Busy, Live
  <2>3. QED BY <2>1, <2>2
<1>5. QED
  BY <1>0, <1>1, <1>2, <1>3, <1>4 DEF Invitation

\* The sweep, deletions and the chats' own life put nobody into a call.
LEMMA OthersPutNobody ==
  ASSUME TypeOK, (\E c \in CallIds : Sweep(c)) \/ Elsewhere
  PROVE  PutsNobody
<1> USE DEF TypeOK
<1>1. ASSUME NEW c \in CallIds, Sweep(c)
      PROVE  PutsNobody
  <2>r. \A s \in EndStatus : \A r :
          Finalized(calls[c], s, r).status \notin LiveStatus
    BY RowLife
  <2>1. CASE MissRinging(c)
    BY <2>1, <2>r DEF MissRinging, PutsNobody, Busy, Live, EndStatus
  <2>2. ASSUME NEW G \in SUBSET Members, ClearGhosts(c, G)
        PROVE  PutsNobody
    BY <2>2, <2>r DEF ClearGhosts, PutsNobody, Busy, Live, EndStatus,
                      InCallStatus
  <2>3. CASE FindEmpty(c)
    BY <2>3 DEF FindEmpty, PutsNobody, Busy, Live
  <2>4. CASE EndEmpty(c)
    BY <2>4, <2>r DEF EndEmpty, PutsNobody, Busy, Live, EndStatus
  <2>5. QED BY <1>1, <2>1, <2>2, <2>3, <2>4 DEF Sweep
<1>2. CASE Elsewhere
  <2>1. ASSUME NEW C \in SUBSET CallIds, NEW m, Cascade(C, m)
        PROVE  PutsNobody
    BY <2>1 DEF Cascade, EmptyRow, PutsNobody, Busy, Live, LiveStatus,
                InCallStatus
  <2>2. ASSUME NEW v, NEW m, LeaveConversation(v, m) \/ EnterConversation(v, m)
        PROVE  PutsNobody
    BY <2>2 DEF LeaveConversation, EnterConversation, PutsNobody, Busy, Live
  <2>3. QED
    BY <1>2, <2>1, <2>2 DEF Elsewhere, DeleteUser, DeleteConversation
<1>3. QED BY <1>1, <1>2

\* The three lemmas together.
LEMMA StepOccupies ==
  ASSUME TypeOK, [Next]_vars
  PROVE  PutsNobody \/ \E c \in CallIds : PutsOnlyFree(c)
<1>1. CASE Next
  BY <1>1, RequestOccupies, InvitationOccupies, OthersPutNobody DEF Next
<1>2. CASE UNCHANGED vars
  BY <1>2 DEF vars, PutsNobody, Busy, Live
<1>3. QED BY <1>1, <1>2

\* No member is ever in two live calls, for any number of members and calls:
\* the guarantee of docs/calls-livekit.md:220.
THEOREM OneCall == Spec => []OneCallPerMember
<1>1. Init => OneCallPerMember
  BY DEF Init, OneCallPerMember, Busy, Live, LiveStatus, EmptyRow
<1>2. TypeOK /\ OneCallPerMember /\ [Next]_vars => OneCallPerMember'
  <2> SUFFICES ASSUME TypeOK, OneCallPerMember, [Next]_vars,
                      NEW m \in Members, NEW c \in CallIds, NEW d \in CallIds,
                      Busy(m, c)', Busy(m, d)', c # d
               PROVE  FALSE
    BY DEF OneCallPerMember
  <2>1. CASE PutsNobody
    BY <2>1 DEF PutsNobody, OneCallPerMember
  <2>2. ASSUME NEW e \in CallIds, PutsOnlyFree(e)
        PROVE  FALSE
    <3>1. \A f \in CallIds \ {e} : Busy(m, f)' => Busy(m, f)
      BY <2>2 DEF PutsOnlyFree, Busy, Live
    <3>2. Busy(m, e)' /\ ~Busy(m, e) => \A f \in CallIds \ {e} : ~Busy(m, f)
      BY <2>2 DEF PutsOnlyFree, MemberFree
    <3>3. QED BY <3>1, <3>2 DEF OneCallPerMember
  <2>3. QED BY <2>1, <2>2, StepOccupies
<1>3. QED BY <1>1, <1>2, TypeCorrect, PTL DEF Spec

(***************************************************************************)
(* The service implements MemberSlots.                                     *)
(***************************************************************************)

\* A busy member's slot is held for the one call it is busy in.
LEMMA OccupiedIsTheCall ==
  ASSUME OneCallPerMember, NEW m \in Members
  PROVE  /\ \A c \in CallIds : Busy(m, c) => Occupied(m) = c
         /\ (\A c \in CallIds : ~Busy(m, c)) => Occupied(m) = NoCall
BY DEF OneCallPerMember, Occupied

\* A step that puts nobody into a call releases those it takes out.
LEMMA PutsNobodyReleases ==
  ASSUME OneCallPerMember, OneCallPerMember', PutsNobody
  PROVE  Slots!Next
<1> DEFINE S == {m \in Members : \A c \in CallIds : ~Busy(m, c)'}
<1>1. ASSUME NEW m \in S
      PROVE  Occupied(m)' = NoCall
  BY DEF Occupied
<1>2. ASSUME NEW m \in Members \ S
      PROVE  Occupied(m)' = Occupied(m)
  <2>1. PICK c \in CallIds : Busy(m, c)'
    OBVIOUS
  <2>2. Busy(m, c)
    BY <2>1 DEF PutsNobody
  <2>3. Occupied(m) = c
    BY <2>2, OccupiedIsTheCall
  <2>4. Occupied(m)' = c
    BY <2>1 DEF OneCallPerMember, Occupied
  <2>5. QED BY <2>3, <2>4
<1>3. Slots!Release(S)
  BY <1>1, <1>2 DEF Slots!Release
<1>4. QED BY <1>3 DEF Slots!Next

\* A step that works on call c lets the members it adds enter c together.
LEMMA PutsOnlyFreeEnters ==
  ASSUME OneCallPerMember, OneCallPerMember',
         NEW c \in CallIds, PutsOnlyFree(c)
  PROVE  Slots!Next
<1> DEFINE S == {m \in Members : Busy(m, c)' /\ ~Busy(m, c)}
<1>1. \A m \in Members : \A d \in CallIds \ {c} : Busy(m, d)' <=> Busy(m, d)
  BY DEF PutsOnlyFree, Busy, Live
<1>2. ASSUME NEW m \in S
      PROVE  Occupied(m) = NoCall /\ Occupied(m)' = c
  <2>1. \A d \in CallIds : ~Busy(m, d)
    BY DEF PutsOnlyFree, MemberFree
  <2>2. Occupied(m) = NoCall
    BY <2>1, OccupiedIsTheCall
  <2>3. Occupied(m)' = c
    BY DEF OneCallPerMember, Occupied
  <2>4. QED BY <2>2, <2>3
<1>3. ASSUME NEW m \in Members \ S
      PROVE  Occupied(m)' = Occupied(m)
  <2>1. \A d \in CallIds : Busy(m, d)' <=> Busy(m, d)
    BY <1>1 DEF PutsOnlyFree
  <2>2. CASE \E d \in CallIds : Busy(m, d)
    <3>1. PICK d \in CallIds : Busy(m, d)
      BY <2>2
    <3>2. Occupied(m) = d
      BY <3>1, OccupiedIsTheCall
    <3>3. Occupied(m)' = d
      BY <2>1, <3>1 DEF OneCallPerMember, Occupied
    <3>4. QED BY <3>2, <3>3
  <2>3. CASE \A d \in CallIds : ~Busy(m, d)
    BY <2>1, <2>3 DEF Occupied
  <2>4. QED BY <2>2, <2>3
<1>4. Slots!Enter(S, c)
  BY <1>2, <1>3 DEF Slots!Enter
<1>5. QED BY <1>4 DEF Slots!Next

\* Every behaviour of the calls service is one of the abstract slots: a slot
\* is taken only when free, both parties of a direct call take theirs in one
\* step, and no step moves a member from one call into another.
THEOREM ImplementsSlots == Spec => OneSlotEach
<1>1. Init => Slots!Init
  BY DEF Init, Slots!Init, Occupied, Busy, Live, LiveStatus, EmptyRow
<1>2. /\ TypeOK /\ OneCallPerMember /\ OneCallPerMember' /\ [Next]_vars
      => Slots!Next
  BY StepOccupies, PutsNobodyReleases, PutsOnlyFreeEnters
<1>3. QED
  BY <1>1, <1>2, TypeCorrect, OneCall, PTL DEF Spec, OneSlotEach, Slots!Spec
=============================================================================
