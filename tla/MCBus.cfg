\* Any two of five options, with or without --stdout.
SPECIFICATION Spec
CONSTANTS
  Transports = {"connect_send_receive", "file_read", "file_write", "listen_send", "exec_receive"}
  Kind <- MCKind
  FlowOf <- MCFlowOf
  StdFlows = {"send"}
  MaxOptions = 2
  Conns = {c1, c2, c3}
  MaxEvents = 2
  Delays = {0, 1}
  NoOwner = NoOwner
SYMMETRY Symmetry
INVARIANTS TypeOK NoDanglingPeer OneActivity HandlerMatches SendReceiveRefs CountsExact CleanExit
PROPERTIES StopsOnlyWhenUseless
