SPECIFICATION Spec
CONSTANTS
  Threads = {t1, t2}
  MaxFiles = 2
  MaxSize = 0
  MaxLines = 2
  MaxDeaths = 1
  MaxFd = 2
  NoFile = NoFile
  Nobody = Nobody
INVARIANTS TypeOK KeptNewest NoneDropped
SYMMETRY ThreadSymmetry
CHECK_DEADLOCK FALSE
