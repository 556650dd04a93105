\* Six networks of three processes, one connection of which may break.
SPECIFICATION LiveSpec
CONSTANTS
  Nodes = {"a", "b", "c"}
  Networks <- MCNetworks
  Ratio <- MCRatio
  Period <- MCPeriod
  MlatMax <- MCMlatMax
  HopsMod = 16
  MaxHops = 3
  Starts = {1, 47}
  Gaps = {0, 5, 25}
  MaxSeen = 2
  MaxBreaks = 1
INVARIANTS OnceEach TimeKept
PROPERTIES DiesOut
