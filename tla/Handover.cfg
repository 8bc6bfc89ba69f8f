\* Two receivers, two seeds of one SeedId, two charges each.
CONSTANTS
  None = None
  a = a
  b = b
  Objects = {a, b}
  SeedIds <- Ids
  ValidIds <- Ids
  BadId <- PadId
  RefusedParams = {"zero"}
  Materials = {m1, m2}
  Passphrases = {p1, p2}
  ExportParams = {"embed"}
  Deployments <- Pairs
  MaxCounter = 2
  Window = 1
  MaxTime = 1
  MaxExports = 1
  MaxLives = 3
  MaxKeyLosses = 1
  SlotLen = 2
  MinFieldLen = 4
SYMMETRY Symmetry
VIEW ButAnswer
SPECIFICATION Spec
INVARIANTS IInv CodesUniqueUnlessForked AcceptedCoveredByCharges BackupsRestore UnwrittenRefused
INVARIANTS ReservedIsRetained FieldRoundTrip FieldDecodersAgree
PROPERTY CounterNeverGoesBack
\* Receivers and materials are bounded: the model stops when they run out.
CHECK_DEADLOCK FALSE
