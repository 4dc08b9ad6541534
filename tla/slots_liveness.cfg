CONSTANTS
  Members = {1, 2}
  CallIds = {c1}
  Requests = {r1, r2}
  PoolSize = 2
  NoReq = NoReq
  NoMember = NoMember
  NoCall = NoCall
SPECIFICATION FairSpec
PROPERTIES
  RequestsFinish
