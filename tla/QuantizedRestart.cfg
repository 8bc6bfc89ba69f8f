\* Quantized counter over the SQLite store, the process restarts.
CONSTANTS
  None = None
  Threads = {t1}
  SeedIds = {s1}
  Materials = {m1}
  Sequential = FALSE
  Durable = TRUE
  MaxCounter = 1
  Window = 2
  MaxTime = 3
  MaxRestarts = 1
SPECIFICATION Spec
INVARIANT CodeIssuedAtMostOnce
\* Fresh materials are bounded: once they are drawn and lost the model stops.
CHECK_DEADLOCK FALSE
