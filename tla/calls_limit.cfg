CONSTANTS
  m1 = m1
  m2 = m2
  m3 = m3
  pv = pv
  gr = gr
  Members = {m1, m2, m3}
  CallIds = {c1}
  InviteIds = {i1}
  Conversations = {pv, gr}
  ConvType <- MCConvType
  InitialMembers <- MCInitialMembers
  Managers <- MCManagers
  MaxParticipants = 2
  MaxUseChoices = {0}
  Movers = {}
  Deletable = {}
  DeletableConvs = {}
  NoMember = NoMember
  NoConv = NoConv
  NoCall = NoCall
SYMMETRY CallSymmetry
SPECIFICATION Spec
INVARIANTS
  GroupWithinLimit
CHECK_DEADLOCK FALSE
