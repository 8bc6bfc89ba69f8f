--------------------------- MODULE DecayingCell ---------------------------
(***************************************************************************)
(* What a store promises when written records may decay between two saves  *)
(* (storage.rs, load): it falls back to the record before, without telling *)
(* the caller, and to nothing where no record before is left.  A save that *)
(* returns Ok leaves the record before it as the spare; from the moment it *)
(* erases a slot until it ends, and after it failed, there may be none.    *)
(***************************************************************************)
EXTENDS DurableCell

VARIABLE spare    \* what load returns once the record of cell has decayed

DecayingInit == Init /\ spare = Empty

BeginSave(v) == Begin(v) /\ UNCHANGED spare

\* The slot to be written is erased.
LoseSpare ==
  /\ pending # Empty
  /\ spare' = Empty
  /\ UNCHANGED <<cell, pending, result>>

EndSave == Commit /\ spare' = cell

FailSave ==
  /\ Abort
  /\ \/ cell' = cell /\ spare' \in {spare, Empty}
     \/ cell' = pending /\ spare' = cell

\* One of the two records is gone.
Decay ==
  /\ pending = Empty
  /\ cell' \in {cell, spare}
  /\ spare' = Empty
  /\ UNCHANGED <<pending, result>>

Saving == (\E v \in Values : BeginSave(v)) \/ LoseSpare \/ EndSave \/ FailSave

DecayingNext == Saving \/ Decay

DecayingSpec == DecayingInit /\ [][DecayingNext]_<<cell, pending, result, spare>>
=============================================================================
