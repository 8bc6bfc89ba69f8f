\* Two seeds, two payments, two posts, one restart of the receiver's bank.
CONSTANTS
  None = None
  SeedIds = {s1, s2}
  Materials = {m1, m2}
  Payments = {p1, p2}
  Window = 1
  Tolerance = 0
  MaxCounter = 0
  MaxSkew = 0
  MaxTime = 0
  MaxPosts = 2
  MaxBankRestarts = 1
SYMMETRY Symmetry
SPECIFICATION Spec
INVARIANTS IInv CustodyIsCurrent
PROPERTY PromiseSpec
\* Payments, posts and instants are bounded: the model stops when they run out.
CHECK_DEADLOCK FALSE
