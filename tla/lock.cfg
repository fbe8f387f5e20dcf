SPECIFICATION FairSpec
CONSTANTS
  Threads = {t1, t2, t3}
  Tokens = {k1, k2}
  Slots = {s1}
  Habits = {}
  Spurious = FALSE
  NoToken = NoToken
INVARIANTS TypeOK MutualExclusion NoLostWakeup DestructorAlone NoAssertFails
PROPERTIES FifoSpec EverybodyReturns
CHECK_DEADLOCK FALSE
