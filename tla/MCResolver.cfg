\* The two threads of resolve_init(), three transports, a socket that fills up.
SPECIFICATION LiveSpec
CONSTANTS
  Threads = {t1, t2}
  Reqs = {r1, r2, r3}
  NoReq = NoReq
  SockBuf = 2
INVARIANTS TypeOK OneOwner AnswerHasReader JoinDrains
PROPERTIES RefinesAsyncCall EveryAnswer CleanupReturns
