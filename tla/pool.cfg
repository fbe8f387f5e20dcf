SPECIFICATION Spec
CONSTANTS
  Users = {u1, u2}
  EndPoints = {e1, e2}
  Unknown = Unknown
  Sockets = {s1, s2, s3}
  MaxIdle = 2
  MaxIdleTime = 1
  Nil = Nil
SYMMETRY PoolSymmetry
INVARIANTS TypeOK OneHolder
PROPERTIES IdleIsGood
CHECK_DEADLOCK FALSE
