SPECIFICATION FairSpec
CONSTANTS
  Workers = {w1, w2, w3}
  Clients = {c1, c2}
  Backlog = 1
  Connectable = TRUE
  AcceptErrors = TRUE
  Wake = Wake
  Nothing = Nothing
INVARIANTS TypeOK OneHandlerPerConnection
PROPERTIES ServesThenStops
CHECK_DEADLOCK FALSE
