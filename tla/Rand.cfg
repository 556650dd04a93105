\* Requests of two sizes, which may drain the buffer exactly or not.
SPECIFICATION RandSpec
CONSTANTS
  BufLen = 8
  Sizes = {2, 3}
  MaxRead = 40
INVARIANTS RepeatsOnlyDrained
