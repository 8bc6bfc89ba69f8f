\* Quantized counter (two instants per quantum), a clock that may be set back,
\* in-memory store, two threads, one restart.
CONSTANTS
  None = None
  Threads = {t1, t2}
  SeedIds = {s1}
  Materials = {m1, m2}
  Sequential = FALSE
  Durable = FALSE
  MaxCounter = 1
  Window = 2
  MaxTime = 3
  MaxRestarts = 1
SYMMETRY Symmetry
SPECIFICATION Spec
INVARIANTS IInv CodeIssuedAtMostOnce AcceptedAtMostOncePerCaller CounterBehindClock
\* Fresh materials are bounded: once they are drawn and lost the model stops.
CHECK_DEADLOCK FALSE
