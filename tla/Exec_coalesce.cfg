\* Two children that die at about the same time.
SPECIFICATION LiveSpec
CONSTANTS
  Execs = {e1, e2}
  Pids = {p1, p2, p3}
  NoPid = NoPid
  MayStop = FALSE
  MayDieEarly = FALSE
PROPERTY DeadChildReaped
