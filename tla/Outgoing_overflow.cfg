\* A host that stays unreachable.
SPECIFICATION Spec
CONSTANTS
  MaxAddrs = 3
  MaxAttempt = 40
  HasHello = TRUE
INVARIANT RetriesNeverTrap
