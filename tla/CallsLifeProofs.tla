--------------------------- MODULE CallsLifeProofs ---------------------------
(***************************************************************************)
(* What the participant rows say about the status of their call, for every *)
(* number of members, calls, chats and invitations.                        *)
(***************************************************************************)
EXTENDS CallsProofs

(***************************************************************************)
(* The invariant, call by call.  The properties of module Calls are not    *)
(* inductive one by one: that a missed call's only joined member is its    *)
(* initiator follows from what a ringing call looks like, that nobody is   *)
(* left in a cancelled conference from what a waiting one looks like, and  *)
(* a call that is not finished must have no end reason yet.                *)
(***************************************************************************)
RingingOK(c) == calls[c].status = "ringing" =>
  /\ calls[c].type = "direct"
  /\ Joined(c) = {calls[c].by}
  /\ \A m \in Members \ {calls[c].by} : part[c][m] \in {"absent", "ringing"}
  /\ \A m, n \in Members :
       part[c][m] = "ringing" /\ part[c][n] = "ringing" => m = n

WaitingOK(c) == calls[c].status = "waiting" =>
  /\ calls[c].type = "group"
  /\ \A m \in Members :
       part[c][m] = IF m = calls[c].by THEN "joined" ELSE "absent"

MeetingOK(c) == accounts = Members => (Meeting(c) => Joined(c) # {})

ReasonOK(c) ==
  /\ calls[c].reason \in {"all_left", "ghost_cleanup"} => Joined(c) = {}
  /\ calls[c].reason = "no_answer" =>
       /\ Joined(c) = {calls[c].by}
       /\ \A m \in Members : part[c][m] # "ringing"
  /\ calls[c].reason = "declined" =>
       \A m \in Members \ {calls[c].by} : part[c][m] \in {"declined", "absent"}
  /\ calls[c].reason = "cancelled" /\ calls[c].type = "group" =>
       Joined(c) = {calls[c].by}

OpenOK(c) ==
  /\ Live(c) => calls[c].by \in Members
  /\ calls[c].status \notin EndStatus => calls[c].reason = "none"

CallOK(c) == RingingOK(c) /\ WaitingOK(c) /\ MeetingOK(c) /\ ReasonOK(c)
             /\ OpenOK(c)

LifeInv == \A c \in CallIds : CallOK(c)

\* The invariant gives the four properties that the runs check.
LEMMA LifeInvIsTheConjunction ==
  LifeInv => /\ RingingIsUnanswered /\ WaitingIsHostAlone
             /\ MeetingHasSomeone /\ EndReasonIsTrue
BY DEF LifeInv, CallOK, RingingOK, WaitingOK, MeetingOK, ReasonOK,
       RingingIsUnanswered, WaitingIsHostAlone, MeetingHasSomeone,
       EndReasonIsTrue

\* A call whose rows a step leaves alone stays in order.
LEMMA CallFrame ==
  ASSUME TypeOK, LifeInv, NEW d \in CallIds, calls'[d] = calls[d],
         part'[d] = part[d], accounts' = Members => accounts = Members
  PROVE  CallOK(d)'
<1>1. CallOK(d)
  BY DEF LifeInv
<1>2. /\ Live(d)' <=> Live(d)
      /\ Meeting(d)' <=> Meeting(d)
      /\ Joined(d)' = Joined(d)
  BY DEF Live, Meeting, Joined
<1>3. QED
  BY <1>1, <1>2 DEF CallOK, RingingOK, WaitingOK, MeetingOK, ReasonOK, OpenOK

\* A step that works on one call only has to keep that one in order.
LEMMA OneCallTouched ==
  ASSUME TypeOK, LifeInv, NEW c \in CallIds, UNCHANGED external,
         \A d \in CallIds \ {c} : calls'[d] = calls[d] /\ part'[d] = part[d],
         CallOK(c)'
  PROVE  LifeInv'
<1>1. accounts' = accounts
  BY DEF external
<1>2. ASSUME NEW d \in CallIds PROVE CallOK(d)'
  BY <1>1, CallFrame
<1>3. QED BY <1>2 DEF LifeInv

-----------------------------------------------------------------------------
(* Requests on direct calls *)

\* Dialling, answering, refusing, hanging up and cancelling keep LifeInv.
LEMMA DirectRequestsLife ==
  ASSUME TypeOK, LifeInv, NEW c \in CallIds, NEW m \in Members,
         \/ \E b \in Members, v \in Conversations : CreateDirectCall(c, m, b, v)
         \/ AcceptCall(c, m)
         \/ DeclineCall(c, m)
         \/ HangUpDirect(c, m)
         \/ CancelCall(c, m)
  PROVE  LifeInv'
<1> USE DEF TypeOK
<1>0. CallOK(c)
  BY DEF LifeInv
<1>1. ASSUME NEW b \in Members, NEW v \in Conversations,
             CreateDirectCall(c, m, b, v)
      PROVE  LifeInv'
  <2>1. CallOK(c)'
    BY <1>1 DEF CreateDirectCall, CallOK, RingingOK, WaitingOK, MeetingOK,
                ReasonOK, OpenOK, Live, Meeting, Joined, LiveStatus, EndStatus
  <2>2. QED BY <1>1, <2>1, OneCallTouched DEF CreateDirectCall
<1>2. CASE AcceptCall(c, m)
  <2>1. /\ calls'[c].status = "active" /\ calls'[c].reason = "none"
        /\ calls'[c].by = calls[c].by
        /\ m \in Joined(c)'
    BY <1>0, <1>2 DEF AcceptCall, CallOK, OpenOK, EndStatus, CallRow, Joined
  <2>2. calls'[c].by \in Members
    BY <1>0, <1>2, <2>1 DEF AcceptCall, CallOK, OpenOK, Live, LiveStatus
  <2>3. CallOK(c)'
    BY <2>1, <2>2 DEF CallOK, RingingOK, WaitingOK, MeetingOK, ReasonOK, OpenOK
  <2>4. QED BY <1>2, <2>3, OneCallTouched DEF AcceptCall
<1>3. CASE DeclineCall(c, m)
  <2>1. /\ calls'[c].status = "declined" /\ calls'[c].reason = "declined"
        /\ calls'[c].by = calls[c].by
    BY <1>3 DEF DeclineCall, Finalized, LiveStatus, CallRow
  <2>2. \A n \in Members \ {calls[c].by} : part'[c][n] \in {"declined", "absent"}
    BY <1>0, <1>3 DEF DeclineCall, CallOK, RingingOK
  <2>3. CallOK(c)'
    BY <2>1, <2>2 DEF CallOK, RingingOK, WaitingOK, MeetingOK, ReasonOK,
                      OpenOK, Live, Meeting, LiveStatus, EndStatus
  <2>4. QED BY <1>3, <2>3, OneCallTouched DEF DeclineCall
<1>4. CASE HangUpDirect(c, m)
  <2>1. /\ calls'[c].status \in EndStatus /\ calls'[c].reason = "ended"
    BY <1>4 DEF HangUpDirect, Finalized, Live, LiveStatus, EndStatus, CallRow
  <2>2. CallOK(c)'
    BY <2>1 DEF CallOK, RingingOK, WaitingOK, MeetingOK, ReasonOK,
                OpenOK, Live, Meeting, LiveStatus, EndStatus
  <2>3. QED BY <1>4, <2>2, OneCallTouched DEF HangUpDirect
<1>5. CASE CancelCall(c, m)
  <2>1. /\ calls'[c].status = "cancelled" /\ calls'[c].reason = "cancelled"
        /\ calls'[c].by = calls[c].by /\ calls'[c].type = calls[c].type
        /\ part' = part
    BY <1>5 DEF CancelCall, Finalized, LiveStatus, CallRow
  <2>2. calls[c].type = "group" => Joined(c)' = {calls[c].by}
    <3>1. calls[c].type = "group" => calls[c].status = "waiting"
      BY <1>0, <1>5 DEF CancelCall, CallOK, RingingOK
    <3>2. calls[c].by \in Members
      BY <1>5 DEF CancelCall
    <3>3. QED BY <1>0, <2>1, <3>1, <3>2 DEF CallOK, WaitingOK, Joined
  <2>3. CallOK(c)'
    BY <2>1, <2>2 DEF CallOK, RingingOK, WaitingOK, MeetingOK, ReasonOK,
                      OpenOK, Live, Meeting, LiveStatus, EndStatus
  <2>4. QED BY <1>5, <2>3, OneCallTouched DEF CancelCall
<1>6. QED BY <1>1, <1>2, <1>3, <1>4, <1>5

-----------------------------------------------------------------------------
(* Requests on conferences *)

\* Opening, ending, leaving and connecting keep LifeInv.
LEMMA GroupRequestsLife ==
  ASSUME TypeOK, LifeInv, NEW c \in CallIds, NEW m \in Members,
         \/ \E v, x : \E i \in InviteIds : OpenMeeting(c, m, v, x, i)
         \/ EndForAll(c, m)
         \/ LeaveGroupCall(c, m)
         \/ IssueTokenFirstJoin(c, m)
         \/ IssueTokenExisting(c, m)
  PROVE  LifeInv'
<1> USE DEF TypeOK
<1>0. CallOK(c)
  BY DEF LifeInv
<1>1. ASSUME NEW v, NEW x, NEW i \in InviteIds, OpenMeeting(c, m, v, x, i)
      PROVE  LifeInv'
  <2>1. CallOK(c)'
    BY <1>1 DEF OpenMeeting, CallOK, RingingOK, WaitingOK, MeetingOK,
                ReasonOK, OpenOK, Live, Meeting, Joined, LiveStatus, EndStatus
  <2>2. QED BY <1>1, <2>1, OneCallTouched DEF OpenMeeting
<1>2. CASE EndForAll(c, m)
  <2>1. calls'[c].status = "ended" /\ calls'[c].reason = "ended_by_moderator"
    BY <1>2 DEF EndForAll, Meeting, Finalized, LiveStatus, CallRow
  <2>2. CallOK(c)'
    BY <2>1 DEF CallOK, RingingOK, WaitingOK, MeetingOK, ReasonOK,
                OpenOK, Live, Meeting, LiveStatus, EndStatus
  <2>3. QED BY <1>2, <2>2, OneCallTouched DEF EndForAll
<1>3. CASE LeaveGroupCall(c, m)
  <2>1. /\ Live(c) /\ calls[c].type = "group"
        /\ calls[c].reason = "none" /\ calls[c].by \in Members
        /\ calls[c].status \in {"waiting", "active"}
    BY <1>0, <1>3 DEF LeaveGroupCall, MayEndGroup, Live, LiveStatus, EndStatus,
                      CallOK, OpenOK, RingingOK
  <2>2. CASE Joined(c)' = {}
    <3>1. calls'[c].status = "ended" /\ calls'[c].reason = "all_left"
      BY <1>3, <2>1, <2>2 DEF LeaveGroupCall, Finalized, LiveStatus, CallRow
    <3>2. CallOK(c)'
      BY <2>2, <3>1 DEF CallOK, RingingOK, WaitingOK, MeetingOK, ReasonOK,
                  OpenOK, Live, Meeting, LiveStatus, EndStatus
    <3>3. QED BY <1>3, <3>2, OneCallTouched DEF LeaveGroupCall
  <2>3. CASE Joined(c)' # {}
    <3>1. /\ calls'[c].status = "active" /\ calls'[c].reason = "none"
          /\ calls'[c].by = calls[c].by
      BY <1>3, <2>1, <2>3 DEF LeaveGroupCall, Activated, CallRow
    <3>2. CallOK(c)'
      BY <2>1, <2>3, <3>1 DEF CallOK, RingingOK, WaitingOK, MeetingOK,
                              ReasonOK, OpenOK
    <3>3. QED BY <1>3, <3>2, OneCallTouched DEF LeaveGroupCall
  <2>4. QED BY <2>2, <2>3
<1>4. CASE IssueTokenFirstJoin(c, m)
  <2>1. /\ calls[c].reason = "none" /\ calls[c].by \in Members
        /\ calls[c].status \in {"waiting", "active"}
    BY <1>0, <1>4 DEF IssueTokenFirstJoin, Live, LiveStatus, EndStatus,
                      CallOK, OpenOK, RingingOK
  <2>2. /\ calls'[c].status = "active" /\ calls'[c].reason = "none"
        /\ calls'[c].by = calls[c].by /\ m \in Joined(c)'
    BY <1>4, <2>1 DEF IssueTokenFirstJoin, Activated, CallRow, Joined
  <2>3. CallOK(c)'
    BY <2>1, <2>2 DEF CallOK, RingingOK, WaitingOK, MeetingOK, ReasonOK, OpenOK
  <2>4. QED BY <1>4, <2>3, OneCallTouched DEF IssueTokenFirstJoin
<1>5. CASE IssueTokenExisting(c, m)
  <2>1. /\ Live(c) /\ calls' = calls
        /\ calls[c].reason = "none" /\ calls[c].by \in Members
        /\ m \in Joined(c)'
    BY <1>0, <1>5 DEF IssueTokenExisting, Live, LiveStatus, EndStatus, CallOK,
                      OpenOK, Joined
  <2>2. calls[c].status # "active" => part' = part
    BY <1>0, <1>5 DEF IssueTokenExisting, CallOK, RingingOK, WaitingOK,
                      Live, LiveStatus, Joined
  <2>3. CASE calls[c].status = "active"
    BY <1>5, <2>1, <2>3, OneCallTouched
       DEF IssueTokenExisting, CallOK, RingingOK, WaitingOK, MeetingOK,
           ReasonOK, OpenOK
  <2>4. CASE calls[c].status # "active"
    BY <1>0, <1>5, <2>1, <2>2, <2>4, CallFrame, OneCallTouched
       DEF IssueTokenExisting, external
  <2>5. QED BY <2>3, <2>4
<1>6. QED BY <1>1, <1>2, <1>3, <1>4, <1>5

-----------------------------------------------------------------------------
(* Invitations, the sweep and the rest of the program *)

\* The invitation handlers keep LifeInv.
LEMMA InvitationLife ==
  ASSUME TypeOK, LifeInv, NEW i \in InviteIds, Invitation(i)
  PROVE  LifeInv'
<1> USE DEF TypeOK
<1>0. ASSUME NEW d \in drafts, OpenAccess(d)
      PROVE  LifeInv'
  <2>1. \A c \in CallIds : /\ calls'[c].status = calls[c].status
                           /\ calls'[c].reason = calls[c].reason
                           /\ calls'[c].type = calls[c].type
                           /\ calls'[c].by = calls[c].by
    BY <1>0 DEF OpenAccess, CallRow, Draft
  <2>2. part' = part /\ accounts' = accounts
    BY <1>0 DEF OpenAccess, external
  <2>3. ASSUME NEW c \in CallIds PROVE CallOK(c)'
    <3>1. CallOK(c)
      BY DEF LifeInv
    <3>2. QED
      BY <2>1, <2>2, <3>1 DEF CallOK, RingingOK, WaitingOK, MeetingOK,
                              ReasonOK, OpenOK, Live, Meeting, Joined
  <2>4. QED BY <2>3 DEF LifeInv
<1>1. ASSUME calls' = calls, part' = part, UNCHANGED external
      PROVE  LifeInv'
  BY <1>1, CallFrame DEF LifeInv, external
<1>2. ASSUME NEW d \in drafts, StoreInvitation(d, i)
      PROVE  LifeInv'
  BY <1>2, <1>1 DEF StoreInvitation
<1>3. ASSUME NEW m \in Members, RevokeInvitation(i, m)
      PROVE  LifeInv'
  BY <1>1, <1>3 DEF RevokeInvitation
<1>4. CASE ExpireInvitation(i) \/ SweepInvitation(i)
  BY <1>1, <1>4 DEF ExpireInvitation, SweepInvitation
<1>5. ASSUME NEW m \in Members, JoinViaInvitation(i, m)
      PROVE  LifeInv'
  <2>0. PICK c : c = invites[i].call
    OBVIOUS
  <2>1. CASE c \in CallIds
    <3>0. CallOK(c)
      BY <2>1 DEF LifeInv
    <3>1. /\ calls[c].reason = "none" /\ calls[c].by \in Members
          /\ calls[c].status \in {"waiting", "active"}
      BY <1>5, <2>0, <3>0 DEF JoinViaInvitation, Meeting, Live, LiveStatus,
                        EndStatus, CallOK, OpenOK
    <3>2. /\ calls'[c].status = "active" /\ calls'[c].reason = "none"
          /\ calls'[c].by = calls[c].by /\ m \in Joined(c)'
      BY <1>5, <2>0, <2>1, <3>1 DEF JoinViaInvitation, Activated, CallRow, Joined
    <3>3. RingingOK(c)' /\ WaitingOK(c)' /\ MeetingOK(c)' /\ ReasonOK(c)'
      BY <3>2 DEF RingingOK, WaitingOK, MeetingOK, ReasonOK
    <3>4. OpenOK(c)'
      BY <3>1, <3>2 DEF OpenOK, Live, EndStatus
    <3>5. CallOK(c)'
      BY <3>3, <3>4 DEF CallOK
    <3>6. QED BY <1>5, <2>0, <2>1, <3>5, OneCallTouched DEF JoinViaInvitation
  <2>2. CASE c \notin CallIds
    BY <1>1, <1>5, <2>0, <2>2 DEF JoinViaInvitation
  <2>3. QED BY <2>1, <2>2
<1>6. QED
  BY <1>0, <1>2, <1>3, <1>4, <1>5 DEF Invitation

\* The sweep keeps LifeInv.
LEMMA SweepLife ==
  ASSUME TypeOK, LifeInv, NEW c \in CallIds, Sweep(c)
  PROVE  LifeInv'
<1> USE DEF TypeOK
<1>0. CallOK(c)
  BY DEF LifeInv
<1>1. CASE MissRinging(c)
  <2>1. /\ calls'[c].status = "missed" /\ calls'[c].reason = "no_answer"
        /\ calls'[c].by = calls[c].by
    BY <1>1 DEF MissRinging, Finalized, LiveStatus, CallRow
  <2>2. Joined(c)' = {calls[c].by} /\ \A m \in Members : part'[c][m] # "ringing"
    BY <1>0, <1>1 DEF MissRinging, CallOK, RingingOK, Joined
  <2>3. CallOK(c)'
    BY <2>1, <2>2 DEF CallOK, RingingOK, WaitingOK, MeetingOK, ReasonOK,
                      OpenOK, Live, Meeting, LiveStatus, EndStatus
  <2>4. QED BY <1>1, <2>3, OneCallTouched DEF MissRinging
<1>2. ASSUME NEW G \in SUBSET Members, ClearGhosts(c, G)
      PROVE  LifeInv'
  <2>1. CASE Joined(c)' = {}
    <3>1. calls'[c].status = "ended" /\ calls'[c].reason = "ghost_cleanup"
      BY <1>2, <2>1 DEF ClearGhosts, Meeting, Finalized, LiveStatus, CallRow
    <3>2. CallOK(c)'
      BY <2>1, <3>1 DEF CallOK, RingingOK, WaitingOK, MeetingOK, ReasonOK,
                        OpenOK, Live, Meeting, LiveStatus, EndStatus
    <3>3. QED BY <1>2, <3>2, OneCallTouched DEF ClearGhosts
  <2>2. CASE Joined(c)' # {}
    <3>1. /\ Meeting(c) /\ calls'[c] = calls[c]
          /\ calls[c].reason = "none"
      BY <1>0, <1>2, <2>2 DEF ClearGhosts, CallOK, OpenOK, Meeting, EndStatus
    <3>2. calls[c].status = "waiting" => part'[c] = part[c]
      <4> SUFFICES ASSUME calls[c].status = "waiting" PROVE part'[c] = part[c]
        OBVIOUS
      <4>1. \A m \in Members : m # calls[c].by => part[c][m] = "absent"
        BY <1>0 DEF CallOK, WaitingOK
      <4>2. calls[c].by \notin G
        BY <1>2, <2>2, <4>1 DEF ClearGhosts, Joined
      <4>3. \A m \in Members : part'[c][m] = part[c][m]
        BY <1>2, <4>1, <4>2 DEF ClearGhosts
      <4>4. /\ part[c] \in [Members -> PartStatus]
            /\ part'[c] = [m \in Members |-> part'[c][m]]
        BY <1>2 DEF ClearGhosts
      <4>5. QED BY <4>3, <4>4
    <3>3. CallOK(c)'
      BY <1>0, <2>2, <3>1, <3>2 DEF CallOK, RingingOK, WaitingOK, MeetingOK,
                  ReasonOK, OpenOK, Live, Meeting
    <3>4. QED BY <1>2, <3>3, OneCallTouched DEF ClearGhosts
  <2>3. QED BY <2>1, <2>2
<1>3. CASE FindEmpty(c)
  BY <1>3, CallFrame DEF FindEmpty, LifeInv, external
<1>4. CASE EndEmpty(c)
  <2>1. CASE Meeting(c)
    <3>1. /\ calls'[c].status = "ended"
          /\ calls'[c].reason \in {"expired_empty", "stale_direct"}
      BY <1>4, <2>1 DEF EndEmpty, Meeting, Finalized, LiveStatus, CallRow
    <3>2. CallOK(c)'
      BY <3>1 DEF CallOK, RingingOK, WaitingOK, MeetingOK, ReasonOK,
                  OpenOK, Live, Meeting, LiveStatus, EndStatus
    <3>3. QED BY <1>4, <3>2, OneCallTouched DEF EndEmpty
  <2>2. CASE ~Meeting(c)
    BY <1>4, <2>2, CallFrame DEF EndEmpty, Meeting, LifeInv, external
  <2>3. QED BY <2>1, <2>2
<1>5. QED BY <1>1, <1>2, <1>3, <1>4 DEF Sweep

\* Deletions and the chats' own life keep LifeInv.
LEMMA ElsewhereLife ==
  ASSUME TypeOK, LifeInv, Elsewhere
  PROVE  LifeInv'
<1> USE DEF TypeOK
<1>1. ASSUME NEW v, NEW m, LeaveConversation(v, m) \/ EnterConversation(v, m)
      PROVE  LifeInv'
  BY <1>1, CallFrame DEF LeaveConversation, EnterConversation, LifeInv
<1>2. ASSUME NEW C \in SUBSET CallIds, NEW m, Cascade(C, m),
             \A c \in CallIds : calls[c].by = m => c \in C \/ m = NoMember,
             accounts' = Members => accounts = Members /\ m \notin Members
      PROVE  LifeInv'
  <2> SUFFICES ASSUME NEW c \in CallIds PROVE CallOK(c)'
    BY DEF LifeInv
  <2>0. CallOK(c)
    BY DEF LifeInv
  <2>1. CASE c \in C
    <3>1. calls'[c].status = "deleted" /\ calls'[c].reason = "none"
      BY <1>2, <2>1 DEF Cascade, EmptyRow
    <3>2. QED
      BY <3>1 DEF CallOK, RingingOK, WaitingOK, MeetingOK, ReasonOK, OpenOK,
                  Live, Meeting, LiveStatus
  <2>2. CASE c \notin C
    <3>1. /\ calls'[c] = calls[c]
          /\ \A n \in Members : part'[c][n] =
                IF n = m THEN "absent" ELSE part[c][n]
      BY <1>2, <2>2 DEF Cascade
    <3>2. m \in Members => calls[c].by # m
      BY <1>2, <2>2, CallsAssumption
    <3>3. Joined(c)' = Joined(c) \ {m}
      BY <3>1 DEF Joined
    <3>4. /\ Joined(c) = {calls[c].by} => Joined(c)' = {calls[c].by}
          /\ Joined(c) = {} => Joined(c)' = {}
      BY <3>2, <3>3 DEF Joined
    <3>5. RingingOK(c)'
      BY <2>0, <3>1, <3>4 DEF CallOK, RingingOK
    <3>6. WaitingOK(c)'
      BY <2>0, <3>1, <3>2 DEF CallOK, WaitingOK
    <3>7. ReasonOK(c)'
      BY <2>0, <3>1, <3>4 DEF CallOK, ReasonOK
    <3>8. OpenOK(c)'
      BY <2>0, <3>1 DEF CallOK, OpenOK, Live
    <3>9. MeetingOK(c)'
      BY <1>2, <2>0, <3>1, <3>3 DEF CallOK, MeetingOK, Meeting, Joined
    <3>10. QED BY <3>5, <3>6, <3>7, <3>8, <3>9 DEF CallOK
  <2>3. QED BY <2>1, <2>2
<1>3. ASSUME NEW m \in Members, DeleteUser(m)
      PROVE  LifeInv'
  BY <1>2, <1>3 DEF DeleteUser
<1>4. ASSUME NEW v \in Conversations, DeleteConversation(v)
      PROVE  LifeInv'
  BY <1>2, <1>4, CallsAssumption DEF DeleteConversation
<1>5. QED
  BY <1>1, <1>3, <1>4, CallsAssumption DEF Elsewhere

\* LifeInv is an invariant.
LEMMA LifeCorrect == Spec => []LifeInv
<1>1. Init => LifeInv
  BY DEF Init, LifeInv, CallOK, RingingOK, WaitingOK, MeetingOK, ReasonOK,
         OpenOK, Live, Meeting, LiveStatus, EmptyRow
<1>2. TypeOK /\ LifeInv /\ [Next]_vars => LifeInv'
  <2> SUFFICES ASSUME TypeOK, LifeInv, [Next]_vars PROVE LifeInv'
    OBVIOUS
  <2>1. ASSUME NEW c \in CallIds, NEW m \in Members, Request(c, m)
        PROVE  LifeInv'
    <3>1. ASSUME NEW max, NEW link, CheckInvitation(c, m, max, link)
          PROVE  LifeInv'
      BY <3>1, CallFrame DEF CheckInvitation, LifeInv, external
    <3>2. QED
      BY <2>1, <3>1, DirectRequestsLife, GroupRequestsLife
         DEF Request, CreateGroupCall, CreateStandaloneLinkCall
  <2>2. CASE UNCHANGED vars
    BY <2>2, CallFrame DEF LifeInv, vars
  <2>3. QED
    BY <2>1, <2>2, InvitationLife, SweepLife, ElsewhereLife DEF Next
<1>3. QED BY <1>1, <1>2, TypeCorrect, PTL DEF Spec

\* A ringing call is unanswered: no request, sweep or deletion leaves a half
\* processed one behind (acceptCall, declineCall, cleanupStaleCalls).
THEOREM RingingUnanswered == Spec => []RingingIsUnanswered
BY LifeCorrect, LifeInvIsTheConjunction, PTL

\* A waiting conference holds its host and nobody else: every path that lets
\* somebody in promotes it (issueCallToken, joinViaInvitation).
THEOREM WaitingHostAlone == Spec => []WaitingIsHostAlone
BY LifeCorrect, LifeInvIsTheConjunction, PTL

\* While no account is deleted, a call that is on has somebody in it: endCall
\* and the ghost sweep end it with its last member.
THEOREM MeetingInhabited == Spec => []MeetingHasSomeone
BY LifeCorrect, LifeInvIsTheConjunction, PTL

\* The end reason of a finished call agrees with its participant rows.
THEOREM EndReasonTrue == Spec => []EndReasonIsTrue
BY LifeCorrect, LifeInvIsTheConjunction, PTL

-----------------------------------------------------------------------------

\* While no account is deleted the sweep lists no call as empty.
NothingFound == accounts = Members => emptyFound = {}

\* It cannot find one, and a list is not lengthened by anything else.
LEMMA NothingFoundCorrect == Spec => []NothingFound
<1>1. Init => NothingFound
  BY DEF Init, NothingFound
<1>2. TypeOK /\ LifeInv /\ NothingFound /\ [Next]_vars => NothingFound'
  <2> SUFFICES ASSUME TypeOK, LifeInv, NothingFound, [Next]_vars PROVE NothingFound'
    OBVIOUS
  <2>1. ASSUME NEW d \in CallIds, FindEmpty(d) PROVE NothingFound'
    BY <2>1 DEF FindEmpty, NothingFound, LifeInv, CallOK, MeetingOK, external
  <2>2. ASSUME NEW d \in CallIds, EndEmpty(d) PROVE NothingFound'
    BY <2>2 DEF EndEmpty, NothingFound, external
  <2>3. ASSUME NEW m \in Members, DeleteUser(m) PROVE NothingFound'
    BY <2>3 DEF DeleteUser, NothingFound, TypeOK
  <2>4. CASE UNCHANGED <<accounts, emptyFound>>
    BY <2>4 DEF NothingFound
  <2>5. ASSUME NEW c \in CallIds, NEW m \in Members, Request(c, m)
        PROVE  UNCHANGED <<accounts, emptyFound>>
    BY <2>5 DEF Request, CreateDirectCall, CreateGroupCall,
                CreateStandaloneLinkCall, OpenMeeting, AcceptCall, DeclineCall,
                CancelCall, HangUpDirect, EndForAll, LeaveGroupCall,
                IssueTokenFirstJoin, IssueTokenExisting, CheckInvitation, external
  <2>6. ASSUME NEW i \in InviteIds, Invitation(i)
        PROVE  UNCHANGED <<accounts, emptyFound>>
    BY <2>6 DEF Invitation, OpenAccess, StoreInvitation, RevokeInvitation,
                ExpireInvitation, SweepInvitation, JoinViaInvitation, external
  <2>7. ASSUME NEW c \in CallIds, MissRinging(c) \/ \E G \in SUBSET Members : ClearGhosts(c, G)
        PROVE  UNCHANGED <<accounts, emptyFound>>
    BY <2>7 DEF MissRinging, ClearGhosts, external
  <2>8. ASSUME Elsewhere, ~\E m \in Members : DeleteUser(m)
        PROVE  UNCHANGED <<accounts, emptyFound>>
    BY <2>8, CallsAssumption
       DEF Elsewhere, LeaveConversation, EnterConversation, DeleteConversation, Cascade
  <2>9. QED
    BY <2>1, <2>2, <2>3, <2>4, <2>5, <2>6, <2>7, <2>8 DEF Next, Sweep, vars
<1>3. QED
  BY <1>1, <1>2, TypeCorrect, LifeCorrect, PTL DEF Spec

\* A step that ends a running conference while somebody is joined in it.
EndsUnderSomebody(c) ==
  /\ calls[c].type = "group" /\ calls[c].status = "active"
  /\ calls'[c].status \in EndStatus
  /\ Joined(c)' # {}

\* It is a moderator's, or the sweep's after an account has been deleted.
LEMMA WhoEnds ==
  ASSUME TypeOK, NothingFound, [Next]_vars, NEW c \in CallIds, EndsUnderSomebody(c)
  PROVE  \/ calls'[c].reason = "ended_by_moderator"
         \/ accounts # Members /\ calls'[c].reason = "expired_empty"
<1>0. calls'[c] # calls[c]
  BY DEF EndsUnderSomebody, EndStatus
<1>1. ASSUME NEW d \in CallIds, NEW m \in Members, Request(d, m)
      PROVE  calls'[c].reason = "ended_by_moderator"
  <2>1. CASE \/ \E b \in Members, v \in Conversations : CreateDirectCall(d, m, b, v)
             \/ \E v, x : \E i \in InviteIds : OpenMeeting(d, m, v, x, i)
    BY <1>0, <2>1 DEF CreateDirectCall, OpenMeeting, EndsUnderSomebody, TypeOK
  <2>2. CASE AcceptCall(d, m) \/ DeclineCall(d, m) \/ CancelCall(d, m) \/ HangUpDirect(d, m)
    BY <1>0, <2>2 DEF AcceptCall, DeclineCall, CancelCall, HangUpDirect,
                      EndsUnderSomebody, TypeOK
  <2>3. CASE EndForAll(d, m)
    <3>1. c = d
      BY <1>0, <2>3 DEF EndForAll, TypeOK
    <3>2. QED
      BY <2>3, <3>1 DEF EndForAll, Finalized, LiveStatus, EndsUnderSomebody,
                        TypeOK, CallRow
  <2>4. CASE LeaveGroupCall(d, m)
    BY <1>0, <2>4 DEF LeaveGroupCall, Activated, EndsUnderSomebody, TypeOK
  <2>5. CASE IssueTokenFirstJoin(d, m)
    BY <1>0, <2>5 DEF IssueTokenFirstJoin, Activated, EndsUnderSomebody, TypeOK
  <2>6. CASE \/ IssueTokenExisting(d, m)
             \/ \E max \in MaxUseChoices, link \in BOOLEAN : CheckInvitation(d, m, max, link)
    BY <1>0, <2>6 DEF IssueTokenExisting, CheckInvitation
  <2>7. QED
    BY <1>1, <2>1, <2>2, <2>3, <2>4, <2>5, <2>6
       DEF Request, CreateGroupCall, CreateStandaloneLinkCall
<1>2. ASSUME NEW i \in InviteIds, Invitation(i) PROVE FALSE
  <2>1. ASSUME NEW d \in drafts, OpenAccess(d) PROVE FALSE
    <3>1. calls' = [calls EXCEPT ![d.call] = [calls[d.call] EXCEPT !.access = "link"]]
      BY <2>1 DEF OpenAccess, TypeOK
    <3>2. calls'[c].status = calls[c].status
      BY <3>1 DEF TypeOK, CallRow
    <3>3. QED
      BY <3>2 DEF EndsUnderSomebody, EndStatus
  <2>2. ASSUME NEW m \in Members, JoinViaInvitation(i, m) PROVE FALSE
    BY <1>0, <2>2 DEF JoinViaInvitation, Activated, EndsUnderSomebody, TypeOK
  <2>3. QED
    BY <1>0, <1>2, <2>1, <2>2 DEF Invitation, StoreInvitation, RevokeInvitation,
                                  ExpireInvitation, SweepInvitation
<1>3. ASSUME NEW d \in CallIds,
             MissRinging(d) \/ FindEmpty(d) \/ \E G \in SUBSET Members : ClearGhosts(d, G)
      PROVE  FALSE
  BY <1>0, <1>3 DEF MissRinging, FindEmpty, ClearGhosts, EndsUnderSomebody, TypeOK
<1>4. ASSUME NEW d \in CallIds, EndEmpty(d)
      PROVE  accounts # Members /\ calls'[c].reason = "expired_empty"
  <2>1. c = d
    BY <1>0, <1>4 DEF EndEmpty, TypeOK
  <2>2. QED
    BY <1>4, <2>1 DEF EndEmpty, NothingFound, Finalized, LiveStatus,
                      EndsUnderSomebody, TypeOK, CallRow
<1>5. CASE Elsewhere
  <2>1. ASSUME NEW C, NEW n, Cascade(C, n) PROVE FALSE
    BY <1>0, <2>1 DEF Cascade, EmptyRow, EndsUnderSomebody, EndStatus
  <2>2. QED
    BY <1>0, <1>5, <2>1 DEF Elsewhere, LeaveConversation, EnterConversation,
                            DeleteUser, DeleteConversation
<1>6. QED
  BY <1>0, <1>1, <1>2, <1>3, <1>4, <1>5 DEF Next, Sweep, vars

\* Leaving is not ending: endCall ends a conference under those who are joined
\* only for a moderator; the sweep does only if an account has been deleted.
THEOREM LeavingLeavesOthers == Spec => LeavingIsNotEnding
<1>1. TypeOK /\ NothingFound /\ [Next]_vars =>
        [\A c \in CallIds :
           /\ calls[c].type = "group" /\ calls[c].status = "active"
           /\ calls'[c].status \in EndStatus
           /\ Joined(c)' # {}
           => \/ calls'[c].reason = "ended_by_moderator"
              \/ accounts # Members /\ calls'[c].reason = "expired_empty"]_vars
  BY WhoEnds DEF EndsUnderSomebody
<1>2. QED
  BY <1>1, TypeCorrect, NothingFoundCorrect, PTL DEF Spec, LeavingIsNotEnding
=============================================================================
