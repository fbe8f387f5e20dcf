SPECIFICATION Spec
CONSTANTS
  Pairs <- TestPairs
  OwnRequests <- TestRequests
  ForeignRequests <- TestForeignRequests
  HandlerAnswers <- TestHandlerAnswers
  ForeignAnswers <- TestAnswers
  IcapAnswers <- TestIcapAnswers
  Encs <- TestEncs
  MaxCalls = 2
  Nil = Nil
INVARIANTS TypeOK NeverWaitsInVain MessagesWhole
CHECK_DEADLOCK FALSE
