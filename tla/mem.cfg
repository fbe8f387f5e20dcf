SPECIFICATION Spec
CONSTANTS
  Users = {u1, u2}
  EndPoints = {e1, e2}
  Unknown = Unknown
  Sockets = {s1, s2}
  MaxIdle = 1
  Nil = Nil
  MaxItems = 1
INVARIANTS TypeOK GivenBack OwnConnection
SYMMETRY MemSymmetry
CHECK_DEADLOCK FALSE
