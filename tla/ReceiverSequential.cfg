\* Sequential counter, two threads, two SeedIds, SQLite store whose writes may
\* fail.
CONSTANTS
  None = None
  Threads = {t1, t2}
  SeedIds = {s1, s2}
  Materials = {m1, m2}
  Sequential = TRUE
  Durable = TRUE
  MaxCounter = 2
  Window = 1
  MaxTime = 0
  MaxRestarts = 0
SPECIFICATION FairSpec
INVARIANTS IInv AcceptedCodeWasIssued AcceptedCodeIsClosed
PROPERTIES LedgerSpec EveryCallReturns
\* Fresh materials are bounded: once they are drawn and spent the model stops.
CHECK_DEADLOCK FALSE
