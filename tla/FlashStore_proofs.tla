------------------------ MODULE FlashStore_proofs ------------------------
(***************************************************************************)
(* For every set of values and every endurance: the invariant of the       *)
(* ping-pong store, the wear levelling of its sectors, and the refinement  *)
(* of DecayingCell, which is that of DurableCell (cold-cut atomicity) when *)
(* no record decays.                                                       *)
(***************************************************************************)
EXTENDS FlashStore, TLAPS

\* The constants, in the form the leaves of the proofs use.
LEMMA Constants ==
  /\ SeqMod \in Nat /\ Endurance \in Nat /\ 2 * Endurance < SeqMod
  /\ Erased \notin Record /\ Torn \notin Record /\ Empty \notin Values
  /\ \A r \in Record : Valid(r) /\ r.seq \in Seqs /\ r.val \in Values
BY SeqAssumption, BlankAssumption
   DEF SeqAssumption, BlankAssumption, Record, Valid

LEMMA NoDecaysYet == 0 \in 0..MaxDecays
BY DecayAssumption DEF DecayAssumption

\* A blank pair of sectors satisfies the invariant.
LEMMA InitIInv == Init => IInv
<1> SUFFICES ASSUME Init PROVE IInv
  OBVIOUS
<1>1. \A s \in Slots : ~ Valid(slot[s])
  BY DEF Init, Valid
<1>2. TypeOK
  <2>1. slot \in [Slots -> Record \cup {Erased, Torn}]
    BY DEF Init
  <2>2. erases \in [Slots -> 0..Endurance]
    BY Constants DEF Init
  <2> QED
    BY <2>1, <2>2, NoDecaysYet DEF Init, TypeOK, Saves
<1>3. SeqsDistinct /\ SeqsPaidFor /\ SaveSparesNewest /\ SaveFits
  BY <1>1 DEF Init, SeqsDistinct, SeqsPaidFor, SaveSparesNewest, SaveFits,
              Idle, Slots
<1>4. SectorsTakeTurns
  BY <1>1 DEF Init, SectorsTakeTurns, Turn, Target, Idle, Slots
<1> QED
  BY <1>2, <1>3, <1>4 DEF IInv

\* The next sequence number exceeds every valid one and does not wrap, and
\* the target is not the slot of the newest record.
LEMMA NextSeqFresh ==
  ASSUME IInv, save = Idle, erases[Target] < Endurance
  PROVE  /\ NextSeq \in Seqs /\ NextSeq > 0
         /\ NextSeq <= erases["A"] + erases["B"] + 1
         /\ \A s \in Slots : Valid(slot[s]) => NextSeq > slot[s].seq
         /\ Target \in Slots
         /\ Valid(slot[Target]) =>
              /\ Valid(slot[Other(Target)])
              /\ slot[Other(Target)].seq > slot[Target].seq
<1> USE DEF IInv, TypeOK
<1>1. \A s \in Slots : erases[s] \in Nat /\ erases[s] <= Endurance
  BY Constants DEF Slots
<1>2. \A s \in Slots : Valid(slot[s]) => slot[s] \in Record /\ slot[s].seq \in Nat
  BY Constants DEF Valid, Record, Seqs
<1>3. \A s \in Slots : Valid(slot[s]) =>
        slot[s].seq > 0 /\ slot[s].seq <= erases["A"] + erases["B"]
  BY <1>1, <1>2 DEF SeqsPaidFor, Idle, Slots
<1>4. \A s \in Slots : SeqOf(s) \in Nat /\ SeqOf(s) <= erases["A"] + erases["B"]
  BY <1>1, <1>2, <1>3 DEF SeqOf, Slots
<1>5. Target \in Slots
  BY DEF Target, Slots
<1>6. erases["A"] + erases["B"] + 1 < SeqMod
  BY <1>1, <1>5, Constants DEF Slots
<1> DEFINE top == IF SeqOf("A") >= SeqOf("B") THEN SeqOf("A") ELSE SeqOf("B")
<1>7. top \in Nat /\ top <= erases["A"] + erases["B"]
  BY <1>4 DEF Slots
<1>8. NextSeq = top + 1
  BY <1>1, <1>6, <1>7, Constants DEF NextSeq, Slots
<1>9. NextSeq \in Seqs /\ NextSeq > 0 /\ NextSeq <= erases["A"] + erases["B"] + 1
  BY <1>1, <1>6, <1>7, <1>8, Constants DEF Seqs, Slots
<1>10. \A s \in Slots : Valid(slot[s]) => NextSeq > slot[s].seq
  BY <1>2, <1>4, <1>8 DEF SeqOf, Slots
<1>11. Valid(slot[Target]) =>
         /\ Valid(slot[Other(Target)])
         /\ slot[Other(Target)].seq > slot[Target].seq
  BY <1>2 DEF Target, Other, SeqsDistinct, Slots
<1> QED
  BY <1>5, <1>9, <1>10, <1>11

\* Beginning a save only chooses its target and its sequence number.
LEMMA BeginIInv ==
  ASSUME IInv, NEW v \in Values, Begin(v)
  PROVE  IInv'
<1> USE DEF IInv, Begin
<1>1. /\ NextSeq \in Seqs /\ NextSeq > 0
      /\ NextSeq <= erases["A"] + erases["B"] + 1
      /\ \A s \in Slots : Valid(slot[s]) => NextSeq > slot[s].seq
      /\ Target \in Slots
      /\ Valid(slot[Target]) =>
           /\ Valid(slot[Other(Target)])
           /\ slot[Other(Target)].seq > slot[Target].seq
  BY NextSeqFresh
<1>2. TypeOK'
  BY <1>1 DEF TypeOK, Saves, Record
<1>3. SeqsDistinct' /\ SeqsPaidFor'
  BY DEF SeqsDistinct, SeqsPaidFor, Valid, Idle
<1>4. SaveSparesNewest'
  BY <1>1 DEF SaveSparesNewest, Other, Valid, Slots
<1>5. SaveFits'
  BY DEF SaveFits
<1>6. SectorsTakeTurns'
  BY DEF SectorsTakeTurns, Turn, Idle
<1> QED
  BY <1>2, <1>3, <1>4, <1>5, <1>6

\* What an active save carries.
LEMMA SaveType ==
  ASSUME TypeOK, save # Idle
  PROVE  /\ save.step \in {"erase", "write"}
         /\ save.target \in Slots /\ Other(save.target) \in Slots
         /\ Other(save.target) # save.target
         /\ save.rec \in Record /\ save.rec.seq \in Nat
         /\ Slots = {save.target, Other(save.target)}
         /\ erases["A"] + erases["B"] =
              erases[save.target] + erases[Other(save.target)]
         /\ Valid(save.rec)
<1>1. save \in [step: {"erase", "write"}, target: Slots, rec: Record]
  BY DEF TypeOK, Saves
<1>2. save.rec \in Record /\ save.rec.seq \in Nat /\ Valid(save.rec)
  BY <1>1, Constants DEF Seqs
<1>3. erases["A"] \in Nat /\ erases["B"] \in Nat
  BY Constants DEF TypeOK, Slots
<1> QED
  BY <1>1, <1>2, <1>3 DEF Other, Slots

\* Erasing, completely or in part, and with or without going on to write.
LEMMA EraseSteps ==
  ASSUME IInv, save.step = "erase", NEW left \in {Erased, Torn},
         slot' = [slot EXCEPT ![save.target] = left], Wear
  PROVE  /\ slot' \in [Slots -> Record \cup {Erased, Torn}]
         /\ erases' \in [Slots -> 0..Endurance]
         /\ SeqsDistinct'
         /\ ~ Valid(slot'[save.target])
         /\ slot'[Other(save.target)] = slot[Other(save.target)]
         /\ erases'["A"] + erases'["B"] = erases["A"] + erases["B"] + 1
         /\ \A s \in Slots : Valid(slot'[s]) =>
              slot'[s].seq > 0 /\ slot'[s].seq <= erases["A"] + erases["B"]
<1> USE DEF IInv, TypeOK
<1>1. save # Idle
  BY DEF Idle
<1>2. /\ save.target \in Slots /\ Other(save.target) \in Slots
      /\ Other(save.target) # save.target
      /\ Slots = {save.target, Other(save.target)}
  BY <1>1, SaveType
<1>3. ~ Valid(slot'[save.target]) /\ slot'[Other(save.target)] = slot[Other(save.target)]
  BY <1>2 DEF Valid
<1>4. slot' \in [Slots -> Record \cup {Erased, Torn}]
  OBVIOUS
<1>5. erases[save.target] \in Nat /\ erases[save.target] + 1 <= Endurance
  BY <1>2, Constants DEF SaveFits
<1>6. erases' \in [Slots -> 0..Endurance]
  BY <1>2, <1>5, Constants DEF Wear
<1>7. erases'["A"] + erases'["B"] = erases["A"] + erases["B"] + 1
  BY <1>2, Constants DEF Wear, Slots, Other
<1>8. SeqsDistinct'
  BY <1>2, <1>3 DEF SeqsDistinct, Slots
<1>9. \A s \in Slots : Valid(slot'[s]) =>
        slot'[s].seq > 0 /\ slot'[s].seq <= erases["A"] + erases["B"]
  <2>1. erases["A"] \in Nat /\ erases["B"] \in Nat
    BY Constants DEF Slots
  <2> QED
    BY <1>2, <1>3, <2>1 DEF SeqsPaidFor, Valid
<1> QED
  BY <1>3, <1>4, <1>6, <1>7, <1>8, <1>9

LEMMA EraseIInv == IInv /\ Erase => IInv'
<1> SUFFICES ASSUME IInv, Erase PROVE IInv'
  OBVIOUS
<1> USE DEF IInv, Erase
<1>1. save # Idle
  BY DEF Idle
<1>2. /\ save.target \in Slots /\ Other(save.target) \in Slots
      /\ Other(save.target) # save.target
      /\ Slots = {save.target, Other(save.target)}
      /\ save.rec \in Record /\ save.rec.seq \in Nat
  BY <1>1, SaveType
<1>3. /\ slot' \in [Slots -> Record \cup {Erased, Torn}]
      /\ erases' \in [Slots -> 0..Endurance]
      /\ SeqsDistinct'
      /\ ~ Valid(slot'[save.target])
      /\ slot'[Other(save.target)] = slot[Other(save.target)]
      /\ erases'["A"] + erases'["B"] = erases["A"] + erases["B"] + 1
      /\ \A s \in Slots : Valid(slot'[s]) =>
           slot'[s].seq > 0 /\ slot'[s].seq <= erases["A"] + erases["B"]
  BY EraseSteps
<1>4. save' = [step |-> "write", target |-> save.target, rec |-> save.rec]
  BY <1>1 DEF TypeOK, Saves
<1>5. TypeOK'
  BY <1>2, <1>3, <1>4 DEF TypeOK, Saves
<1>6. erases["A"] \in Nat /\ erases["B"] \in Nat
  BY Constants DEF TypeOK, Slots
<1>7. SeqsPaidFor'
  <2>1. save'.step = "write"
    BY <1>4
  <2>2. erases'["A"] + erases'["B"] - 1 = erases["A"] + erases["B"]
    BY <1>3, <1>6 DEF Slots
  <2> QED
    BY <1>3, <2>1, <2>2 DEF SeqsPaidFor, Valid
<1>8. SaveSparesNewest'
  BY <1>1, <1>2, <1>3, <1>4, <1>6 DEF SaveSparesNewest, Valid, Other
<1>9. SaveFits'
  <2>1. slot'[save.target] = Erased /\ erases'[save.target] > 0
    BY <1>2, Constants DEF Wear, TypeOK
  <2> QED
    BY <1>4, <2>1 DEF SaveFits
<1>10. SectorsTakeTurns'
  <2>1. Turn = save.target /\ Turn' = save.target
    BY <1>1, <1>4 DEF Turn, Idle
  <2>2. /\ save.target = "A" => erases'["A"] = erases["A"] + 1
                                /\ erases'["B"] = erases["B"]
        /\ save.target = "B" => erases'["B"] = erases["B"] + 1
                                /\ erases'["A"] = erases["A"]
    BY DEF Wear, TypeOK, Slots
  <2> QED
    BY <1>2, <1>4, <1>6, <2>1, <2>2 DEF SectorsTakeTurns, Slots
<1> QED
  BY <1>3, <1>5, <1>7, <1>8, <1>9, <1>10

\* The end of a write, with a record or with whatever the cut left.
LEMMA WriteSteps ==
  ASSUME IInv, save.step = "write", NEW left \in {Erased, Torn, save.rec},
         slot' = [slot EXCEPT ![save.target] = left],
         save' = Idle, UNCHANGED <<erases, decays>>,
         result' \in {"ok", "failed"}, abandoned' \in BOOLEAN
  PROVE  TypeOK' /\ SeqsDistinct' /\ SeqsPaidFor' /\ SaveSparesNewest' /\ SaveFits'
<1> USE DEF IInv
<1>1. save # Idle
  BY DEF Idle
<1>2. /\ save.target \in Slots /\ Other(save.target) \in Slots
      /\ Other(save.target) # save.target
      /\ Slots = {save.target, Other(save.target)}
      /\ save.rec \in Record /\ save.rec.seq \in Nat
      /\ Valid(save.rec)
  BY <1>1, SaveType
<1>3. slot'[save.target] = left /\ slot'[Other(save.target)] = slot[Other(save.target)]
  BY <1>2 DEF TypeOK
<1>4. TypeOK'
  BY <1>2 DEF TypeOK, Saves
<1>5. SeqsDistinct'
  <2>1. Valid(slot[Other(save.target)]) => slot[Other(save.target)].seq \in Nat
    BY <1>2, Constants DEF TypeOK, Valid, Seqs
  <2> QED
    BY <1>1, <1>2, <1>3, <2>1 DEF SeqsDistinct, SaveSparesNewest, Valid, Slots
<1>6. SeqsPaidFor'
  <2>1. erases["A"] \in Nat /\ erases["B"] \in Nat
    BY Constants DEF TypeOK, Slots
  <2>2. CASE Valid(left)
    BY <1>1, <1>2, <1>3, <2>1, <2>2, Constants
       DEF SeqsPaidFor, SaveSparesNewest, Valid, Idle, TypeOK, Seqs
  <2>3. CASE ~ Valid(left)
    BY <1>2, <1>3, <2>1, <2>3, Constants
       DEF SeqsPaidFor, Valid, Idle, TypeOK, Seqs
  <2> QED
    BY <2>2, <2>3
<1>7. SaveSparesNewest' /\ SaveFits'
  BY DEF SaveSparesNewest, SaveFits, Idle
<1> QED
  BY <1>4, <1>5, <1>6, <1>7

\* A save that succeeds passes the turn to the other sector.
LEMMA WriteIInv == IInv /\ Write => IInv'
<1> SUFFICES ASSUME IInv, Write PROVE IInv'
  OBVIOUS
<1> USE DEF IInv, Write
<1>1. save # Idle
  BY DEF Idle
<1>2. /\ save.target \in Slots /\ Other(save.target) \in Slots
      /\ Other(save.target) # save.target
      /\ save.rec.seq \in Nat /\ Valid(save.rec)
  BY <1>1, SaveType
<1>3. slot' = [slot EXCEPT ![save.target] = save.rec]
  BY <1>2 DEF Programmed, SaveFits, TypeOK
<1>4. TypeOK' /\ SeqsDistinct' /\ SeqsPaidFor' /\ SaveSparesNewest' /\ SaveFits'
  BY <1>3, WriteSteps DEF TypeOK
<1>5. SectorsTakeTurns'
  <2>1. Turn = save.target
    BY <1>1 DEF Turn
  <2>2. Turn' = Other(save.target)
    <3>1. slot'[save.target] = save.rec /\ slot'[Other(save.target)] = slot[Other(save.target)]
      BY <1>2, <1>3 DEF TypeOK
    <3>2. Valid(slot[Other(save.target)]) =>
            slot[Other(save.target)].seq \in Nat /\ save.rec.seq > slot[Other(save.target)].seq
      BY <1>1, <1>2, Constants DEF SaveSparesNewest, TypeOK, Valid, Seqs
    <3>3. CASE save.target = "A"
      BY <1>2, <3>1, <3>2, <3>3 DEF Turn, Target, Other, Valid
    <3>4. CASE save.target = "B"
      BY <1>2, <3>1, <3>2, <3>4 DEF Turn, Target, Other, Valid
    <3> QED
      BY <1>2, <3>3, <3>4 DEF Slots
  <2> QED
    BY <1>2, <2>1, <2>2 DEF SectorsTakeTurns, Other, Idle, Slots
<1> QED
  BY <1>4, <1>5

\* A cut in the erase leaves the newest record, whatever it leaves behind.
LEMMA CutEraseIInv == IInv /\ CutErase => IInv'
<1> SUFFICES ASSUME IInv, CutErase PROVE IInv'
  OBVIOUS
<1> USE DEF IInv, CutErase, Abandon
<1>1. save # Idle /\ save' = Idle /\ abandoned'
  BY DEF Idle
<1>2. SaveSparesNewest' /\ SaveFits'
  BY <1>1 DEF SaveSparesNewest, SaveFits, Idle
<1>3. SectorsTakeTurns'
  BY <1>1 DEF SectorsTakeTurns
<1>4. CASE UNCHANGED <<slot, erases>>
  <2>1. TypeOK'
    BY <1>4 DEF TypeOK, Saves
  <2>2. SeqsDistinct' /\ SeqsPaidFor'
    BY <1>1, <1>4 DEF SeqsDistinct, SeqsPaidFor, Valid, Idle
  <2> QED
    BY <1>2, <1>3, <2>1, <2>2
<1>5. CASE /\ \E left \in {Erased, Torn} :
                slot' = [slot EXCEPT ![save.target] = left]
           /\ Wear
  <2>1. /\ slot' \in [Slots -> Record \cup {Erased, Torn}]
        /\ erases' \in [Slots -> 0..Endurance]
        /\ SeqsDistinct'
        /\ erases'["A"] + erases'["B"] = erases["A"] + erases["B"] + 1
        /\ \A s \in Slots : Valid(slot'[s]) =>
             slot'[s].seq > 0 /\ slot'[s].seq <= erases["A"] + erases["B"]
    BY <1>5, EraseSteps
  <2>2. TypeOK'
    BY <2>1 DEF TypeOK, Saves
  <2>3. SeqsPaidFor'
    <3>1. \A s \in Slots : Valid(slot'[s]) => slot'[s].seq \in Nat
      BY <2>1, Constants DEF Valid, Seqs
    <3>2. erases["A"] \in Nat /\ erases["B"] \in Nat
      BY Constants DEF TypeOK, Slots
    <3>3. \A s \in Slots : Valid(slot'[s]) =>
            slot'[s].seq > 0 /\ slot'[s].seq <= erases'["A"] + erases'["B"]
      BY <2>1, <3>1, <3>2
    <3>4. erases'["A"] + erases'["B"] - 0 = erases'["A"] + erases'["B"]
      <4>1. erases'["A"] \in Nat /\ erases'["B"] \in Nat
        BY <2>1, Constants DEF Slots
      <4> QED
        BY <4>1
    <3>5. save'.step # "write"
      BY <1>1 DEF Idle
    <3> QED
      BY <3>3, <3>4, <3>5 DEF SeqsPaidFor, Valid
  <2> QED
    BY <1>2, <1>3, <2>1, <2>2, <2>3
<1> QED
  BY <1>4, <1>5

\* A cut in the write leaves a record that is newer, or none.
LEMMA CutWriteIInv == IInv /\ CutWrite => IInv'
<1> SUFFICES ASSUME IInv, CutWrite PROVE IInv'
  OBVIOUS
<1> USE DEF IInv, CutWrite, Abandon
<1>1. slot[save.target] = Erased
  BY DEF SaveFits
<1>2. PICK left \in {Erased, Torn, save.rec} :
        slot' = [slot EXCEPT ![save.target] = left]
  BY <1>1 DEF Programmed
<1>3. TypeOK' /\ SeqsDistinct' /\ SeqsPaidFor' /\ SaveSparesNewest' /\ SaveFits'
  BY <1>2, WriteSteps
<1>4. SectorsTakeTurns'
  BY DEF SectorsTakeTurns
<1> QED
  BY <1>3, <1>4

\* A decayed record was in the way of nothing.
LEMMA DecayIInv ==
  ASSUME IInv, NEW s \in Slots, Decay(s)
  PROVE  IInv'
<1> USE DEF IInv, Decay
<1>1. TypeOK'
  <2>1. decays' \in 0..MaxDecays
    BY DecayAssumption DEF TypeOK, DecayAssumption
  <2> QED
    BY <2>1 DEF TypeOK
<1>2. \A r \in Slots : Valid(slot'[r]) => Valid(slot[r]) /\ slot'[r] = slot[r]
  BY DEF TypeOK, Valid
<1>3. SeqsDistinct' /\ SeqsPaidFor'
  BY <1>2 DEF SeqsDistinct, SeqsPaidFor, Slots, Valid
<1>4. SaveSparesNewest' /\ SaveFits' /\ SectorsTakeTurns'
  BY DEF SaveSparesNewest, SaveFits, SectorsTakeTurns, Idle
<1> QED
  BY <1>1, <1>3, <1>4

\* Every step preserves the invariant.
LEMMA NextIInv == IInv /\ [Next]_vars => IInv'
<1> SUFFICES ASSUME IInv, [Next]_vars PROVE IInv'
  OBVIOUS
<1>1. ASSUME NEW v \in Values, Begin(v) PROVE IInv'
  BY <1>1, BeginIInv
<1>2. CASE UNCHANGED vars
  BY <1>2 DEF vars, IInv, TypeOK, SeqsDistinct, SeqsPaidFor, SaveSparesNewest,
              SaveFits, SectorsTakeTurns, Turn, Target, Valid
<1> QED
  BY <1>1, <1>2, DecayIInv, EraseIInv, WriteIInv, CutEraseIInv, CutWriteIInv DEF Next

\* The store keeps its invariant whatever is cut short: the sequence numbers
\* never tie or wrap, and a save never touches the newest valid record.
THEOREM Invariance == Spec => []IInv
<1>1. Init => IInv
  BY InitIInv
<1>2. IInv /\ [Next]_vars => IInv'
  BY NextIInv
<1> QED
  BY <1>1, <1>2, PTL DEF Spec

\* Wear levelling: without cut saves the erase cycles of the two sectors
\* differ by at most one, A being ahead.
THEOREM WearLevelling == Spec => []WearIsBalanced
<1>1. IInv => WearIsBalanced
  BY DEF IInv, SectorsTakeTurns, WearIsBalanced
<1> QED
  BY <1>1, Invariance, PTL

\* What load returns, in terms of the target of the save in progress.
LEMMA LoadSpared ==
  ASSUME IInv, save # Idle, NEW contents \in {Erased, Torn, save.rec},
         contents = save.rec => slot[save.target] = Erased
  PROVE  Load([slot EXCEPT ![save.target] = contents]) =
           IF contents = save.rec THEN save.rec.val ELSE Load(slot)
<1> USE DEF IInv, TypeOK
<1>1. /\ save.target \in Slots /\ Other(save.target) \in Slots
      /\ Other(save.target) # save.target
      /\ save.rec \in Record /\ save.rec.seq \in Nat /\ Valid(save.rec)
  BY SaveType
<1>2. \A s \in Slots : Valid(slot[s]) => slot[s] \in Record /\ slot[s].seq \in Nat
  BY Constants DEF Valid, Seqs
<1> DEFINE after == [slot EXCEPT ![save.target] = contents]
<1>3. after[save.target] = contents /\ after[Other(save.target)] = slot[Other(save.target)]
  BY <1>1
<1>4. Valid(contents) <=> contents = save.rec
  BY <1>1 DEF Valid
<1>5. /\ Valid(slot[save.target]) =>
           /\ Valid(slot[Other(save.target)])
           /\ slot[Other(save.target)].seq > slot[save.target].seq
      /\ Valid(slot[Other(save.target)]) =>
           save.rec.seq > slot[Other(save.target)].seq
  BY DEF SaveSparesNewest
<1> HIDE DEF after
<1>6. CASE save.target = "A"
  BY <1>1, <1>2, <1>3, <1>4, <1>5, <1>6 DEF Load, Other, Slots
<1>7. CASE save.target = "B"
  BY <1>1, <1>2, <1>3, <1>4, <1>5, <1>7 DEF Load, Other, Slots
<1> QED
  BY <1>1, <1>6, <1>7 DEF Slots, after

\* What a decay would leave load with, once the target is overwritten.
LEMMA SpareSpared ==
  ASSUME IInv, save # Idle, NEW contents \in {Erased, Torn, save.rec},
         contents = save.rec => slot[save.target] = Erased
  PROVE  Spare([slot EXCEPT ![save.target] = contents]) =
           IF contents = save.rec THEN Load(slot) ELSE Empty
<1> USE DEF IInv, TypeOK
<1>1. /\ save.target \in Slots /\ Other(save.target) \in Slots
      /\ Other(save.target) # save.target
      /\ save.rec \in Record /\ save.rec.seq \in Nat /\ Valid(save.rec)
  BY SaveType
<1>2. \A s \in Slots : Valid(slot[s]) => slot[s] \in Record /\ slot[s].seq \in Nat
  BY Constants DEF Valid, Seqs
<1> DEFINE after == [slot EXCEPT ![save.target] = contents]
<1>3. after[save.target] = contents /\ after[Other(save.target)] = slot[Other(save.target)]
  BY <1>1
<1>4. /\ Valid(contents) <=> contents = save.rec
      /\ contents = save.rec => ~ Valid(slot[save.target])
  BY <1>1 DEF Valid
<1>5. Valid(slot[Other(save.target)]) => save.rec.seq > slot[Other(save.target)].seq
  BY DEF SaveSparesNewest
<1> HIDE DEF after
<1>6. CASE save.target = "A"
  BY <1>1, <1>2, <1>3, <1>4, <1>5, <1>6 DEF Load, Spare, Other, Slots
<1>7. CASE save.target = "B"
  BY <1>1, <1>2, <1>3, <1>4, <1>5, <1>7 DEF Load, Spare, Other, Slots
<1> QED
  BY <1>1, <1>6, <1>7 DEF Slots, after

\* A decay leaves the other record, if there is one.
LEMMA DecayLeaves ==
  ASSUME IInv, NEW s \in Slots, Decay(s)
  PROVE  Load(slot') \in {Load(slot), Spare(slot)} /\ Spare(slot') = Empty
<1> USE DEF IInv, TypeOK, Decay
<1>1. s \in {"A", "B"} /\ Other(s) \in Slots /\ Other(s) # s
  BY DEF Slots, Other
<1>2. slot'[s] = Torn /\ slot'[Other(s)] = slot[Other(s)] /\ ~ Valid(Torn)
  BY <1>1 DEF Slots, Valid
<1>3. \A r \in Slots : Valid(slot[r]) => slot[r].seq \in Nat
  BY Constants DEF Valid, Seqs
<1>4. SeqsDistinct
  OBVIOUS
<1>5. CASE s = "A"
  BY <1>2, <1>3, <1>4, <1>5 DEF Load, Spare, Other, Slots, SeqsDistinct
<1>6. CASE s = "B"
  BY <1>2, <1>3, <1>4, <1>6 DEF Load, Spare, Other, Slots, SeqsDistinct
<1> QED
  BY <1>1, <1>5, <1>6

\* Each step of the store is a step of the abstract cell, or none.
LEMMA CellStep ==
  ASSUME IInv, [Next]_vars
  PROVE  \/ Cell!Saving
         \/ Cell!Decay /\ \E s \in Slots : Decay(s)
         \/ UNCHANGED <<Load(slot), IF save = Idle THEN Empty ELSE save.rec.val,
                        result, Spare(slot)>>
<1> DEFINE pending == IF save = Idle THEN Empty ELSE save.rec.val
<1>0. Load(slot)' = Load(slot') /\ Spare(slot)' = Spare(slot')
  BY DEF Load, Spare, Valid
<1>1. save # Idle => save.rec.val \in Values /\ save.rec.val # Empty /\ save.rec # Erased /\ save.rec # Torn
  BY SaveType, Constants DEF IInv, Valid
<1>2. ASSUME NEW v \in Values, Begin(v)
      PROVE  Cell!BeginSave(v)
  <2>1. /\ pending = Empty /\ pending' = v /\ result' = result
        /\ Load(slot)' = Load(slot) /\ Spare(slot)' = Spare(slot)
    BY <1>2 DEF Begin, Idle, Load, Spare, Valid
  <2> QED
    BY <2>1 DEF Cell!BeginSave, Cell!Begin
<1>3. CASE Erase
  <2>1. save # Idle /\ save' # Idle /\ save'.rec = save.rec
    BY <1>3 DEF Erase, Idle, IInv, TypeOK, Saves
  <2>2. slot' = [slot EXCEPT ![save.target] = Erased]
    BY <1>3 DEF Erase
  <2>3. Load(slot)' = Load(slot) /\ Spare(slot)' = Empty
    <3>1. Erased # save.rec /\ Erased \in {Erased, Torn, save.rec}
      BY <1>1, <2>1
    <3> QED
      BY <1>0, <2>1, <2>2, <3>1, LoadSpared, SpareSpared
  <2> QED
    BY <1>1, <1>3, <2>1, <2>3 DEF Erase, Cell!Saving, Cell!LoseSpare
<1>4. CASE Write
  <2>1. save # Idle /\ save' = Idle /\ result' = "ok"
    BY <1>4 DEF Write, Idle
  <2>2. slot[save.target] = Erased
    BY <1>4 DEF Write, IInv, SaveFits
  <2>3. slot' = [slot EXCEPT ![save.target] = save.rec]
    BY <1>4, <2>1, <2>2, SaveType DEF Write, Programmed, IInv, TypeOK
  <2>4. Load(slot)' = save.rec.val /\ Spare(slot)' = Load(slot)
    BY <1>0, <2>1, <2>2, <2>3, LoadSpared, SpareSpared
  <2> QED
    BY <1>1, <2>1, <2>4 DEF Cell!Saving, Cell!EndSave, Cell!Commit
<1>5. CASE CutErase
  <2>1. save # Idle /\ save' = Idle /\ result' = "failed"
    BY <1>5 DEF CutErase, Abandon, Idle
  <2>2. Load(slot)' = Load(slot) /\ Spare(slot)' \in {Spare(slot), Empty}
    <3>1. CASE UNCHANGED slot
      BY <1>0, <3>1
    <3>2. CASE \E left \in {Erased, Torn} :
                 slot' = [slot EXCEPT ![save.target] = left]
      <4>1. PICK left \in {Erased, Torn} :
              slot' = [slot EXCEPT ![save.target] = left]
        BY <3>2
      <4>2. left # save.rec
        BY <1>1, <2>1
      <4>3. left \in {Erased, Torn, save.rec}
        OBVIOUS
      <4>4. /\ Load([slot EXCEPT ![save.target] = left]) = Load(slot)
            /\ Spare([slot EXCEPT ![save.target] = left]) = Empty
        BY <2>1, <4>2, <4>3, LoadSpared, SpareSpared, Zenon
      <4> QED
        BY <1>0, <4>1, <4>4
    <3> QED
      BY <1>5, <3>1, <3>2 DEF CutErase
  <2> QED
    BY <1>1, <2>1, <2>2 DEF Cell!Saving, Cell!FailSave, Cell!Abort
<1>6. CASE CutWrite
  <2>1. save # Idle /\ save' = Idle /\ result' = "failed"
    BY <1>6 DEF CutWrite, Abandon, Idle
  <2>2. slot[save.target] = Erased
    BY <1>6 DEF CutWrite, IInv, SaveFits
  <2>3. PICK left \in {Erased, Torn, save.rec} :
          slot' = [slot EXCEPT ![save.target] = left]
    BY <1>6, <2>2 DEF CutWrite, Programmed
  <2>4. \/ Load(slot)' = Load(slot) /\ Spare(slot)' = Empty
        \/ Load(slot)' = save.rec.val /\ Spare(slot)' = Load(slot)
    BY <1>0, <2>1, <2>2, <2>3, LoadSpared, SpareSpared
  <2> QED
    BY <1>1, <2>1, <2>4 DEF Cell!Saving, Cell!FailSave, Cell!Abort
<1>7. CASE \E s \in Slots : Decay(s)
  <2>1. /\ pending = Empty /\ pending' = Empty /\ result' = result
        /\ Load(slot)' \in {Load(slot), Spare(slot)} /\ Spare(slot)' = Empty
    BY <1>0, <1>7, DecayLeaves DEF Decay
  <2> QED
    BY <1>7, <2>1 DEF Cell!Decay
<1>8. CASE UNCHANGED vars
  BY <1>8 DEF vars, Load, Spare, Valid
<1> QED
  BY <1>2, <1>3, <1>4, <1>5, <1>6, <1>7, <1>8 DEF Next, Cell!Saving

LEMMA CellInit == Init => Cell!DecayingInit
<1> SUFFICES ASSUME Init PROVE Cell!DecayingInit
  OBVIOUS
<1>1. \A s \in Slots : ~ Valid(slot[s])
  BY DEF Init, Valid
<1> QED
  BY <1>1 DEF Init, Cell!DecayingInit, Cell!Init, Load, Spare, Slots

\* Cold-cut atomicity (storage.rs:26-28): the two slots behave as one durable
\* value, which only a save replaces, as a whole, and which a save that returns
\* Ok has replaced.  A decayed record makes load fall back to the one the last
\* save replaced, or to nothing once that one is gone too.
THEOREM ImplementsDecayingCell == Spec => CellSpec
<1>1. Init => Cell!DecayingInit
  BY CellInit
<1>2. IInv /\ [Next]_vars =>
        [Cell!DecayingNext]_<<Load(slot), IF save = Idle THEN Empty ELSE save.rec.val,
                              result, Spare(slot)>>
  BY CellStep DEF Cell!DecayingNext
<1> QED
  BY <1>1, <1>2, Invariance, PTL DEF Spec, CellSpec, Cell!DecayingSpec

\* As long as nothing decays, that is the durable cell the firmware relies on.
THEOREM ImplementsDurableCell ==
  ASSUME MaxDecays = 0
  PROVE  Spec => Cell!Spec
<1>1. Init => Cell!Init
  BY CellInit DEF Cell!DecayingInit
<1>2. IInv /\ [Next]_vars =>
        [Cell!Next]_<<Load(slot), IF save = Idle THEN Empty ELSE save.rec.val, result>>
  <2> SUFFICES ASSUME IInv, [Next]_vars
               PROVE  \/ Cell!Next
                      \/ UNCHANGED <<Load(slot),
                           IF save = Idle THEN Empty ELSE save.rec.val, result>>
    OBVIOUS
  <2>1. ~ \E s \in Slots : Decay(s)
    BY MaxDecays = 0 DEF Decay, IInv, TypeOK
  <2>2. Cell!Saving => Cell!Next \/ UNCHANGED <<Load(slot),
                         IF save = Idle THEN Empty ELSE save.rec.val, result>>
    BY DEF Cell!Saving, Cell!BeginSave, Cell!LoseSpare, Cell!EndSave, Cell!FailSave, Cell!Next
  <2> QED
    BY <2>1, <2>2, CellStep
<1> QED
  BY <1>1, <1>2, Invariance, PTL DEF Spec, Cell!Spec
=============================================================================
