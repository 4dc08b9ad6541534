CONSTANTS
  s1 = s1
  s2 = s2
  Devices = {d1}
  Requests = {r1, r2}
  Instances = {s1}
  Deployments <- MCRedis
  MaxTokens = 3
  MaxSlots = 2
  MaxFaults = 0
  NoToken = NoToken
  NoReq = NoReq
  NoDevice = NoDevice
SYMMETRY SessionSymmetry
SPECIFICATION Spec
INVARIANTS
  OneComputation
