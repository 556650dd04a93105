\* Two execs, with early deaths, stops and pid reuse.
SPECIFICATION Spec
CONSTANTS
  Execs = {e1, e2}
  Pids = {p1, p2, p3}
  NoPid = NoPid
  MayStop = TRUE
  MayDieEarly = TRUE
INVARIANTS ChildIsOurs NoOrphan ChildOrWakeup CleanupReapsAll
