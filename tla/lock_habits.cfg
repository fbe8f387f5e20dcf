SPECIFICATION TimedSpec
CONSTANTS
  Threads = {t1, t2}
  Tokens = {k1, k2}
  Slots = {s1, s2}
  Habits = {"nested", "relock", "latecall"}
  Spurious = TRUE
  NoToken = NoToken
INVARIANTS OwnWaiterQueued
PROPERTIES TimedCallReturns
CHECK_DEADLOCK FALSE
