\* Three values, up to eight saves, each of which may be cut short, and two decays.
CONSTANTS
  Values = {v1, v2, v3}
  Erased = Erased
  Torn = Torn
  Empty = Empty
  SeqMod = 16
  Endurance = 4
  MaxDecays = 2
SPECIFICATION Spec
INVARIANTS IInv WearIsBalanced
PROPERTY CellSpec
\* The sectors wear out: Endurance is a bound on the saves.
CHECK_DEADLOCK FALSE
