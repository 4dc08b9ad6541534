CONSTANTS
  Members = {1, 2}
  CallIds = {c1, c2}
  Requests = {r1, r2}
  PoolSize = 2
  NoReq = NoReq
  NoMember = NoMember
  NoCall = NoCall
SYMMETRY SlotSymmetry
SPECIFICATION Spec
INVARIANTS
  LocksAreJustified
  NoDoubleBooking
  NoWaitCycle
  CommitsWhatItRead
PROPERTIES
  OneSlotEach
