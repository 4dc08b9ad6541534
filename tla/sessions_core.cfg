CONSTANTS
  s1 = s1
  s2 = s2
  Devices = {d1}
  Requests = {r1, r2}
  Instances = {s1}
  Deployments <- MCDeployments
  MaxTokens = 3
  MaxSlots = 2
  MaxFaults = 1
  NoToken = NoToken
  NoReq = NoReq
  NoDevice = NoDevice
SYMMETRY SessionSymmetry
SPECIFICATION Spec
INVARIANTS
  TypeOK
  OneComputationAlone
  RefusalIsDue
  EndedForGood
  WaitersAreServed
PROPERTIES
  OneChain
