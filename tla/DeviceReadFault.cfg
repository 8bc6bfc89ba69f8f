\* One read of the counter fails at boot.
CONSTANTS
  MaxT = 2
  MaxReadFaults = 1
  Empty = Empty
SPECIFICATION Spec
INVARIANT NoCounterReuse
\* MaxT bounds the counters explored: after the last one the model stops.
CHECK_DEADLOCK FALSE
