\* An outgoing TCP send fed by a file or stdin; a delay may be 0.
SPECIFICATION LiveSpec
CONSTANTS
  Transports = {"connect_send", "file_read"}
  Kind <- MCKind
  FlowOf <- MCFlowOf
  StdFlows = {"receive"}
  MaxOptions = 2
  Conns = {c1, c2}
  MaxEvents = 10
  Delays = {0, 1}
  NoOwner = NoOwner
PROPERTIES RetryHappens FailedSendDeleted ShutdownCompletes
