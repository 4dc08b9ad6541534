CONSTANTS
  m1 = m1
  m2 = m2
  Members = {m1, m2}
  Host = m1
  Ticks = {t1}
  RequiredMisses = 2
SPECIFICATION FairSpec
INVARIANTS
  TypeOK
  StreakIsBacked
PROPERTIES
  GhostsCleared
  StreaksForgotten
  RemovedAfterMisses
