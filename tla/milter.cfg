SPECIFICATION Spec
CONSTANTS
  FlagSets <- TestFlagSets
  MaxMails = 2
  MaxChanges = 2
  Nil = Nil
INVARIANTS TypeOK InStep InOrder
CHECK_DEADLOCK FALSE
