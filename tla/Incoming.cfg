\* Up to three clients; every lookup, bind() and greeting may fail.
SPECIFICATION Spec
CONSTANTS
  MaxFd = 10
  MaxClients = 3
  MaxReturned = 2
  HasHello = TRUE
INVARIANTS HandlerHasItsFd FdsAccounted AbortsOnlyInRetry
