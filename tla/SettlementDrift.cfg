\* Two payments, two instants per window, clocks up to one window apart.
CONSTANTS
  None = None
  SeedIds = {s1}
  Materials = {m1}
  Payments = {p1, p2}
  Window = 2
  Tolerance = 1
  MaxCounter = 4
  MaxSkew = 2
  MaxTime = 5
  MaxPosts = 1
  MaxBankRestarts = 0
SYMMETRY Symmetry
SPECIFICATION Spec
INVARIANTS DriftTolerated DriftBeyondRefused
PROPERTY PromiseSpec
\* Payments, posts and instants are bounded: the model stops when they run out.
CHECK_DEADLOCK FALSE
