CONSTANTS
  m1 = m1
  m2 = m2
  m3 = m3
  pv = pv
  gr = gr
  Members = {m1, m2, m3}
  CallIds = {c1}
  InviteIds = {i1, i2}
  Conversations = {pv, gr}
  ConvType <- MCConvType
  InitialMembers <- MCInitialMembers
  Managers <- MCManagers
  MaxParticipants = 2
  MaxUseChoices = {1}
  Movers = {m3}
  Deletable = {m1, m2, m3}
  DeletableConvs = {pv, gr}
  NoMember = NoMember
  NoConv = NoConv
  NoCall = NoCall
SPECIFICATION FairSpec
INVARIANTS
  EndReasonIsTrue
  InvitationNotOverspent
  WaitingIsHostAlone
PROPERTIES
  FirstJoinIsEntitled
  FinishedIsHistory
  RingingResolves
CHECK_DEADLOCK FALSE
