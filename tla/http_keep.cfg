SPECIFICATION Spec
CONSTANTS
  Pairs <- TestPairs
  OwnRequests <- TestRequests
  ForeignRequests <- TestForeignRequests
  HandlerAnswers <- TestHandlerAnswers
  ForeignAnswers <- TestAnswers
  IcapAnswers <- TestIcapAnswers
  Encs <- TestEncs
  MaxCalls = 2
  Nil = Nil
INVARIANTS ZeroKeepsConnection
CHECK_DEADLOCK FALSE
