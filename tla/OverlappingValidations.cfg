\* Two threads present the code of one charge.
CONSTANTS
  None = None
  Threads = {t1, t2}
  SeedIds = {s1}
  Materials = {m1}
  Sequential = TRUE
  Durable = FALSE
  MaxCounter = 1
  Window = 1
  MaxTime = 0
  MaxRestarts = 0
SPECIFICATION Spec
INVARIANT AcceptedAtMostOnce
\* Fresh materials are bounded: once they are drawn and lost the model stops.
CHECK_DEADLOCK FALSE
