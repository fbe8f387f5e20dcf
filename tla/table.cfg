SPECIFICATION Spec
CONSTANTS
  NULL = NULL
  Junk = Junk
  Items <- TestItems
  Bytes = {4, 5}
  MaxLen = 3
  MaxBuf = 22
  Number <- TestNumber
  Files <- TestFiles
  Lists <- TestLists
  Ranges <- TestRanges
  Draws = {0, 1, 2}
  MaxKeys = {0, 4}
  Wrap = 8
  MaxNow = 3
  MaxMarks = 2
  Pause = 1
  Mail <- TestMail
  MaxSessions = 2
INVARIANTS ChoiceIsRight FileIsRead SizesAreOwn
PROPERTY KeepsPromise
CHECK_DEADLOCK FALSE
