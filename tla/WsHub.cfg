\* Two clients, of which none need ever read; queues of two messages.
SPECIFICATION LiveSpec
CONSTANTS
  Clients = {c1, c2}
  Cap = 2
  MaxLines = 3
INVARIANTS NeverPanics
PROPERTIES RefinesFeed NobodyWaits
