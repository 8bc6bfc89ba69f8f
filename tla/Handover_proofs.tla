-------------------------- MODULE Handover_proofs --------------------------
(***************************************************************************)
(* Proofs about receivers and the handover of their state, for any number  *)
(* of receivers, identifiers, materials, backups, counters and key losses, *)
(* and any deployment of the facades.                                      *)
(***************************************************************************)
EXTENDS Handover, TransportField_proofs, FiniteSetTheorems

-----------------------------------------------------------------------------
(***************************************************************************)
(* The backup format                                                       *)
(***************************************************************************)

\* A text with the payload of an export, up to what Unwritten changes of it,
\* restores the exported state or nothing.
LEMMA ImportExported ==
  ASSUME NEW input \in Input, NEW text, NEW pass,
         text.box.payload.seed = input.seed,
         text.box.payload.t = input.t,
         text.box.payload.sid \in {input.sid, BadId},
         Import(text, pass).error = "none"
  PROVE  /\ Import(text, pass).seed = input.seed
         /\ Import(text, pass).sid = input.sid
         /\ Import(text, pass).t = input.t
         /\ Import(text, pass).mode \in Modes
<1>1. Import(text, pass) = IntoState(text.box.payload)
  BY DEF Import, Refused, ReadHeader
<1>2. /\ text.box.payload.sid \in ValidIds
      /\ IntoState(text.box.payload) = State(text.box.payload)
  BY <1>1 DEF IntoState, Refused
<1>3. text.box.payload.sid = input.sid
  BY <1>2, IdsAssumption DEF IdsAssumption
<1> QED
  BY <1>1, <1>2, <1>3 DEF State, ModeOf, Modes

LEMMA TextPayload ==
  ASSUME NEW b \in Backup, NEW text \in {TextOf(b)} \cup Unwritten(TextOf(b))
  PROVE  /\ text.box.payload.seed = b.input.seed
         /\ text.box.payload.t = b.input.t
         /\ text.box.payload.sid \in {b.input.sid, BadId}
<1> DEFINE x == TextOf(b)
<1>1. /\ x.box.payload.seed = b.input.seed
      /\ x.box.payload.t = b.input.t
      /\ x.box.payload.sid = b.input.sid
  BY DEF TextOf, Export, WritePayload
<1>2. CASE text = TextOf(b)
  BY <1>1, <1>2
<1>3. CASE text \in Damaged(x)
  <2>1. text.box.payload = x.box.payload
    BY <1>3 DEF Damaged, TextOf, Export
  <2> QED
    BY <2>1, <1>1
<1>4. CASE text \in OtherReleases(x)
  <2>1. \/ text.box.payload = x.box.payload
        \/ text.box.payload = [x.box.payload EXCEPT !.version = 2]
        \/ text.box.payload = [x.box.payload EXCEPT !.mode = 2]
        \/ text.box.payload = [x.box.payload EXCEPT !.sid = BadId]
    BY <1>4 DEF OtherReleases
  <2>2. x.box.payload = WritePayload(b.input)
    BY DEF TextOf, Export
  <2> QED
    BY <2>1, <2>2, <1>1 DEF WritePayload
<1> QED
  BY <1>2, <1>3, <1>4 DEF Unwritten

\* Whatever text is restored, the state comes from a backup that was written.
LEMMA ImportTyped ==
  ASSUME backups \in SUBSET Backup, CopiesOwned,
         NEW text \in Texts, NEW pass, Import(text, pass).error = "none"
  PROVE  /\ Import(text, pass).seed \in Materials
         /\ Import(text, pass).sid \in SeedIds
         /\ Import(text, pass).t \in Counters
         /\ Import(text, pass).mode \in Modes
         /\ owner[Import(text, pass).seed] = Import(text, pass).sid
<1>1. PICK b \in backups : text \in {TextOf(b)} \cup Unwritten(TextOf(b))
  BY DEF Texts
<1>2. b \in Backup /\ b.input \in Input
  BY <1>1 DEF Backup
<1>3. /\ Import(text, pass).seed = b.input.seed
      /\ Import(text, pass).sid = b.input.sid
      /\ Import(text, pass).t = b.input.t
      /\ Import(text, pass).mode \in Modes
  BY <1>1, <1>2, TextPayload, ImportExported
<1> QED
  BY <1>1, <1>2, <1>3 DEF Input, CopiesOwned

-----------------------------------------------------------------------------
(***************************************************************************)
(* The steps of Next, apart from which facade a call comes through         *)
(***************************************************************************)
Quiet == UNCHANGED <<facade, objects, backups, lives, history>>

LEMMA AnswerQuiet == ASSUME NEW o, NEW e, Answer(o, e) PROVE Quiet
  BY DEF Answer, Quiet

LEMMA NameQuiet == ASSUME NEW o, NEW n, RefuseName(o, n) PROVE Quiet
  BY AnswerQuiet DEF RefuseName

LEMMA ChargeClear ==
  ASSUME NEW o, NEW s, Refusing(o, s) = {}
  PROVE  Unseals(o, s) /\ NextError(o, s) = "none"
<1>1. /\ DOMAIN ChargeOrder = 1..3
      /\ ChargeOrder[1] = "get_seed" /\ ChargeOrder[2] = "next"
  BY DEF ChargeOrder
<1>2. StageError(o, s, "get_seed") = "none" /\ StageError(o, s, "next") = "none"
  BY <1>1 DEF Refusing
<1> QED
  BY <1>2 DEF StageError

\* Nothing refuses after the counter has moved.
LEMMA FailsQuiet == ASSUME NEW o, NEW s, ChargeFails(o, s) PROVE Quiet
<1>1. /\ DOMAIN ChargeOrder = 1..3 /\ ChargeOrder[1] = "get_seed"
      /\ ChargeOrder[2] = "next" /\ ChargeOrder[3] = "save_receipt"
  BY DEF ChargeOrder
<1>2. PICK i \in Refusing(o, s) :
        last' = IF \E j \in 1..(i - 1) : ChargeOrder[j] = "next"
                THEN [last EXCEPT ![o][s] = NextT(o, s)] ELSE last
  BY DEF ChargeFails
<1>3. i \in 1..2
  <2>1. i \in 1..3 /\ StageError(o, s, ChargeOrder[i]) # "none"
    BY <1>1 DEF Refusing
  <2>2. StageError(o, s, "save_receipt") = "none"
    BY DEF StageError
  <2> QED
    BY <1>1, <2>1, <2>2
<1>4. \A j \in 1..(i - 1) : ChargeOrder[j] # "next"
  BY <1>1, <1>3
<1>5. last' = last
  BY <1>2, <1>4
<1> QED
  BY <1>5 DEF ChargeFails, Quiet, objects

LEMMA DeclineQuiet ==
  ASSUME NEW o, NEW s, NEW t, NEW c, Decline(o, s, t, c) PROVE Quiet
  BY AnswerQuiet DEF Decline

LEMMA RecoverQuiet ==
  ASSUME NEW o, NEW field, WasmPayerRecoverC2(o, field) PROVE Quiet
  BY AnswerQuiet DEF WasmPayerRecoverC2

RegisterStep == \E o \in Objects, s \in SeedIds, m \in Materials : Register(o, s, m)
ChargeStep == \E o \in Objects, s \in SeedIds : Charge(o, s)
AcceptStep ==
  \E o \in Objects, s \in SeedIds, t \in Counters, c \in Codes : Accept(o, s, t, c)
CreateStep ==
  \E o \in Objects, md \in Modes, now \in 0..MaxTime : CreateEmpty(o, md, now)
TickStep == \E o \in Objects, now \in 0..MaxTime : Tick(o, now)
KeyLossStep == \E o \in Objects : LoseSealKey(o)
FreeStep == \E o \in Objects : Free(o)
CaptureStep == \E o \in Objects, s \in SeedIds : Capture(o, s)
WriteStep ==
  \E o \in Objects, p \in Passphrases, params \in ExportParams : WriteBackup(o, p, params)
FromBackupStep ==
  \E o \in Objects, text \in Texts, p \in Passphrases : FromSealedBackup(o, text, p)
InPlaceStep ==
  \E o \in Objects, text \in Texts, p \in Passphrases : RestoreInPlace(o, text, p)

LEMMA FacadeCases ==
  ASSUME NEW o \in Objects, Facade(o)
  PROVE  Quiet \/ RegisterStep \/ ChargeStep \/ AcceptStep
<1>1. CASE \E n \in Names, m \in Materials :
             FfiRegister(o, n, m) \/ UniffiRegister(o, n, m) \/ WasmRegister(o, n, m)
  <2>1. PICK n \in Names, m \in Materials : RefuseName(o, n) \/ Register(o, n, m)
    BY <1>1 DEF FfiRegister, UniffiRegister, WasmRegister
  <2>2. CASE Register(o, n, m)
    <3>1. n \in SeedIds
      BY <2>2 DEF Register
    <3> QED
      BY <3>1, <2>2 DEF RegisterStep
  <2> QED
    BY <2>1, <2>2, NameQuiet
<1>2. CASE \E n \in Names :
             \/ FfiGenerateCharge(o, n)
             \/ UniffiGenerateCharge(o, n)
             \/ WasmGenerateCharge(o, n)
  <2>1. PICK n \in Names : RefuseName(o, n) \/ Charge(o, n) \/ ChargeFails(o, n)
    BY <1>2 DEF FfiGenerateCharge, UniffiGenerateCharge, WasmGenerateCharge
  <2>2. CASE Charge(o, n)
    <3>1. n \in SeedIds
      BY <2>2 DEF Charge
    <3> QED
      BY <3>1, <2>2 DEF ChargeStep
  <2> QED
    BY <2>1, <2>2, NameQuiet, FailsQuiet
<1>3. CASE \E n \in Names, t \in Counters, c \in Codes :
             \/ FfiValidate(o, n, t, c)
             \/ UniffiValidateReceipt(o, n, t, c)
             \/ WasmValidateReceipt(o, n, t, c)
  <2>1. PICK n \in Names, t \in Counters, c \in Codes :
             RefuseName(o, n) \/ Accept(o, n, t, c) \/ Decline(o, n, t, c)
    BY <1>3 DEF FfiValidate, UniffiValidateReceipt, WasmValidateReceipt
  <2>2. CASE Accept(o, n, t, c)
    <3>1. n \in SeedIds
      BY <2>2 DEF Accept
    <3> QED
      BY <3>1, <2>2 DEF AcceptStep
  <2> QED
    BY <2>1, <2>2, NameQuiet, DeclineQuiet
<1>4. CASE \E s \in SeedIds : \E field \in Wire(s) : WasmPayerRecoverC2(o, field)
  BY <1>4, RecoverQuiet
<1> QED
  BY <1>1, <1>2, <1>3, <1>4 DEF Facade

LEMMA NextCases ==
  ASSUME Next
  PROVE  \/ Quiet \/ RegisterStep \/ ChargeStep \/ AcceptStep \/ CreateStep
         \/ TickStep \/ KeyLossStep \/ FreeStep \/ CaptureStep \/ WriteStep
         \/ FromBackupStep \/ InPlaceStep
<1>1. PICK o \in Objects :
        \/ \E s \in SeedIds : SealedCall(o, s)
        \/ Facade(o)
        \/ Life(o)
        \/ Backing(o)
  BY DEF Next
<1>2. CASE \E s \in SeedIds : SealedCall(o, s)
  <2>1. PICK s \in SeedIds : SealedCall(o, s)
    BY <1>2
  <2>2. CASE \E m \in Materials : Register(o, s, m)
    BY <2>2 DEF RegisterStep
  <2>3. CASE Charge(o, s)
    BY <2>3 DEF ChargeStep
  <2>4. CASE ChargeFails(o, s)
    BY <2>4, FailsQuiet
  <2>5. CASE \E t \in Counters, c \in Codes : Accept(o, s, t, c) \/ Decline(o, s, t, c)
    BY <2>5, DeclineQuiet DEF AcceptStep
  <2> QED
    BY <2>1, <2>2, <2>3, <2>4, <2>5 DEF SealedCall
<1>3. CASE Life(o)
  <2>1. 0 \in 0..MaxTime
    BY TimeAssumption DEF TimeAssumption
  <2>2. "Sequential" \in Modes /\ "Quantized" \in Modes
    BY DEF Modes
  <2>3. CASE FfiNew(o) \/ UniffiNew(o) \/ WasmNew(o)
    BY <2>1, <2>2, <2>3 DEF FfiNew, UniffiNew, WasmNew, CreateStep
  <2>4. CASE \E md \in Modes : SealedNew(o, md)
    BY <2>1, <2>4 DEF SealedNew, CreateStep
  <2>5. CASE \E now \in 0..MaxTime : WasmNewQuantized(o, now) \/ Tick(o, now)
    BY <2>2, <2>5 DEF WasmNewQuantized, CreateStep, TickStep
  <2>6. CASE Free(o) \/ LoseSealKey(o)
    BY <2>6 DEF FreeStep, KeyLossStep
  <2> QED
    BY <1>3, <2>3, <2>4, <2>5, <2>6 DEF Life
<1>4. CASE Backing(o)
  <2>1. CASE \E s \in SeedIds : Capture(o, s)
    BY <2>1 DEF CaptureStep
  <2>2. CASE \E p \in Passphrases, params \in ExportParams : WriteBackup(o, p, params)
    BY <2>2 DEF WriteStep
  <2>3. ASSUME NEW text \in Texts, NEW p \in Passphrases, FromSealedBackup(o, text, p)
        PROVE  FromBackupStep
    BY <2>3 DEF FromBackupStep
  <2>4. ASSUME NEW text \in Texts, NEW p \in Passphrases, RestoreInPlace(o, text, p)
        PROVE  InPlaceStep
    BY <2>4 DEF InPlaceStep
  <2>5. ASSUME NEW text \in Texts, NEW p \in Passphrases,
               FromSealedBackupFails(o, text, p)
        PROVE  Quiet
    BY <2>5 DEF FromSealedBackupFails, Quiet
  <2> QED
    BY <1>4, <2>1, <2>2, <2>3, <2>4, <2>5 DEF Backing
<1> QED
  BY <1>1, <1>2, <1>3, <1>4, FacadeCases

-----------------------------------------------------------------------------
(***************************************************************************)
(* The inductive invariant, action by action                               *)
(***************************************************************************)
LEMMA InitIInv == Init => IInv
<1> SUFFICES ASSUME Init PROVE IInv
  OBVIOUS
<1> USE DEF Init
<1>1. /\ MaxCounter \in Nat /\ MaxTime \in Nat
      /\ MaxLives \in Nat /\ MaxKeyLosses \in Nat
  BY CounterAssumption, TimeAssumption, BoundsAssumption
  DEF CounterAssumption, TimeAssumption, BoundsAssumption
<1>2. NoCounters("Sequential") \in [SeedIds -> Counters \cup {-1}]
  BY <1>1 DEF NoCounters, Counters
<1>3. TypeOK
  <2>1. NoSeeds \in [SeedIds -> Blob \cup {None}] /\ NoReceipts \in [Keys -> Receipt \cup {None}]
    BY DEF NoSeeds, NoReceipts
  <2>2. IsFiniteSet({})
    BY FS_EmptySet
  <2> QED
    BY <1>1, <1>2, <2>1, <2>2 DEF TypeOK
<1>4. \A o \in Objects, s \in SeedIds : seeds[o][s] = None
  BY DEF NoSeeds
<1>5. SeedsOwned /\ KeysPassed /\ SoleHolder /\ HolderCovers
  BY <1>4 DEF SeedsOwned, KeysPassed, SoleHolder, HolderCovers, Holds, Unseals
<1>6. CopiesOwned /\ FreedIsEmpty /\ SequentialFromZero /\ UndrawnUncharged
  BY NoneAssumption
  DEF CopiesOwned, FreedIsEmpty, SequentialFromZero, UndrawnUncharged, NoneAssumption, Modes
<1>7. IssuedBelowHighest /\ CodesUniqueUnlessForked
  BY DEF IssuedBelowHighest, CodesUniqueUnlessForked, Codes
<1> QED
  BY <1>3, <1>5, <1>6, <1>7 DEF IInv

LEMMA QuietIInv == IInv /\ Quiet => IInv'
<1> SUFFICES ASSUME IInv, Quiet PROVE IInv'
  OBVIOUS
<1> USE DEF IInv, Quiet, objects, history
<1>1. TypeOK'
  BY DEF TypeOK
<1>2. SeedsOwned' /\ CopiesOwned' /\ KeysPassed' /\ FreedIsEmpty' /\ SequentialFromZero'
  BY DEF SeedsOwned, CopiesOwned, KeysPassed, FreedIsEmpty, SequentialFromZero
<1>3. SoleHolder' /\ HolderCovers'
  BY DEF SoleHolder, HolderCovers, Holds, Unseals
<1>4. IssuedBelowHighest' /\ UndrawnUncharged' /\ CodesUniqueUnlessForked'
  BY DEF IssuedBelowHighest, UndrawnUncharged, CodesUniqueUnlessForked
<1> QED
  BY <1>1, <1>2, <1>3, <1>4

\* Fresh material has no other holder and has charged nothing.
LEMMA RegisterIInv ==
  ASSUME IInv, NEW o \in Objects, NEW s \in SeedIds, NEW m \in Materials,
         Register(o, s, m)
  PROVE  IInv'
<1> USE DEF IInv, Register
<1>0. None \notin SeedIds \cup Blob
  BY NoneAssumption DEF NoneAssumption
<1>1. TypeOK'
  <2>1. Sealed(o, m) \in Blob
    BY DEF Sealed, Blob, TypeOK
  <2>2. seeds' \in [Objects -> [SeedIds -> Blob \cup {None}]]
    BY <2>1 DEF TypeOK
  <2>3. owner' \in [Materials -> SeedIds \cup {None}]
    BY DEF TypeOK
  <2> QED
    BY <2>2, <2>3 DEF TypeOK
<1>2. \A p \in Objects, q \in SeedIds :
        seeds'[p][q] = IF p = o /\ q = s THEN Sealed(o, m) ELSE seeds[p][q]
  BY DEF TypeOK
<1>3. Sealed(o, m).seed = m /\ Sealed(o, m).key = sealKey[o]
  BY DEF Sealed
<1>4. \A p \in Objects, q \in SeedIds : seeds[p][q] # None => seeds[p][q].seed # m
  BY <1>0 DEF SeedsOwned
<1>5. \A n \in Materials : owner'[n] = IF n = m THEN s ELSE owner[n]
  BY DEF TypeOK
<1>6. SeedsOwned'
  BY <1>2, <1>3, <1>4, <1>5 DEF SeedsOwned, TypeOK, Blob
<1>7. CopiesOwned'
  <2>1. \A p \in Objects : draft[p] # None => draft[p].seed \in Materials /\ draft[p].sid \in SeedIds
    BY DEF TypeOK, Input
  <2>2. \A b \in backups : b.input.seed \in Materials /\ b.input.sid \in SeedIds
    BY DEF TypeOK, Backup, Input
  <2> QED
    BY <2>1, <2>2, <1>5, <1>0 DEF CopiesOwned
<1>8. KeysPassed'
  BY <1>2, <1>3 DEF KeysPassed, TypeOK
<1>9. FreedIsEmpty' /\ SequentialFromZero'
  BY DEF FreedIsEmpty, SequentialFromZero, TypeOK
<1>10. SoleHolder'
  BY <1>2, <1>3, <1>4 DEF SoleHolder, Holds, Unseals
<1>11. HolderCovers'
  <2>1. highest[m] = -1
    BY DEF UndrawnUncharged
  <2>2. last[o][s] \in Counters \cup {-1} /\ MaxCounter \in Nat
    BY CounterAssumption DEF TypeOK, CounterAssumption
  <2>3. highest[m] <= last[o][s]
    BY <2>1, <2>2 DEF Counters
  <2> QED
    BY <2>3, <1>2, <1>3 DEF HolderCovers, Holds, Unseals
<1>12. UndrawnUncharged'
  BY <1>5 DEF UndrawnUncharged
<1>13. IssuedBelowHighest' /\ CodesUniqueUnlessForked'
  BY DEF IssuedBelowHighest, CodesUniqueUnlessForked
<1> QED
  BY <1>1, <1>6, <1>7, <1>8, <1>9, <1>10, <1>11, <1>12, <1>13

\* The counter of the next charge: one past the last, or the quantum now.
LEMMA NextTAdvances ==
  ASSUME TypeOK, NEW o \in Objects, NEW s \in SeedIds,
         mode[o] # None, NextError(o, s) = "none"
  PROVE  /\ NextT(o, s) \in Counters
         /\ NextT(o, s) > last[o][s]
<1>1. mode[o] \in Modes /\ last[o][s] \in Counters \cup {-1} /\ clock[o] \in 0..MaxTime
  BY DEF TypeOK
<1>2. MaxCounter \in Nat
  BY CounterAssumption DEF CounterAssumption
<1>3. CASE mode[o] = "Sequential"
  <2>1. NextT(o, s) = last[o][s] + 1 /\ last[o][s] < MaxCounter
    BY <1>3 DEF NextT, NextError
  <2> QED
    BY <2>1, <1>1, <1>2 DEF Counters
<1>4. CASE mode[o] = "Quantized"
  <2>1. NextT(o, s) = clock[o] \div Window
    BY <1>4 DEF NextT
  <2>2. (clock[o] \div Window) \in Counters
    BY <1>1, TimeAssumption DEF TimeAssumption, Counters
  <2>3. NextT(o, s) > last[o][s]
    BY <1>4 DEF NextError
  <2> QED
    BY <2>1, <2>2, <2>3
<1> QED
  BY <1>1, <1>3, <1>4 DEF Modes

\* The T charged with is new to the material, unless that is forked.
LEMMA ChargeIInv ==
  ASSUME IInv, NEW o \in Objects, NEW s \in SeedIds, Charge(o, s)
  PROVE  IInv'
<1> USE DEF IInv
<1> DEFINE t == NextT(o, s)
           m == seeds[o][s].seed
<1>0. /\ mode[o] # None
      /\ NextError(o, s) = "none"
      /\ Unseals(o, s)
      /\ last' = [last EXCEPT ![o][s] = t]
      /\ receipts' = [receipts EXCEPT ![o][<<s, t>>] = [code |-> <<m, t>>, consumed |-> FALSE]]
      /\ issued' = [issued EXCEPT ![<<m, t>>] = @ + 1]
      /\ highest' = [highest EXCEPT ![m] = IF t > @ THEN t ELSE @]
      /\ UNCHANGED <<facade, mode, clock, seeds, sealKey, draft, backups, lives,
                     owner, accepted, forked>>
  BY ChargeClear DEF Charge
<1>1. t \in Counters /\ t > last[o][s]
  BY <1>0, NextTAdvances
<1>2. seeds[o][s] \in Blob /\ m \in Materials
  BY <1>0 DEF Unseals, TypeOK, Blob
<1>3. owner[m] = s
  BY <1>0 DEF SeedsOwned, Unseals
<1>4. last[o][s] \in Counters \cup {-1} /\ highest[m] \in Counters \cup {-1}
  BY <1>2 DEF TypeOK
<1>5. MaxCounter \in Nat
  BY CounterAssumption DEF CounterAssumption
<1> HIDE DEF t, m
<1>6. TypeOK'
  <2>1. last' \in [Objects -> [SeedIds -> Counters \cup {-1}]]
    BY <1>0, <1>1 DEF TypeOK
  <2>2. receipts' \in [Objects -> [Keys -> Receipt \cup {None}]]
    <3>1. [code |-> <<m, t>>, consumed |-> FALSE] \in Receipt
      BY <1>1, <1>2 DEF Receipt, Codes
    <3> QED
      BY <3>1, <1>0 DEF TypeOK
  <2>3. issued' \in [Codes -> Nat]
    BY <1>0, <1>1, <1>2 DEF TypeOK, Codes
  <2>4. highest' \in [Materials -> Counters \cup {-1}]
    BY <1>0, <1>1, <1>2, <1>4 DEF TypeOK
  <2> QED
    BY <1>0, <2>1, <2>2, <2>3, <2>4 DEF TypeOK
<1>7. SeedsOwned' /\ CopiesOwned' /\ KeysPassed'
  BY <1>0 DEF SeedsOwned, CopiesOwned, KeysPassed
<1>8. FreedIsEmpty' /\ SequentialFromZero'
  <2>1. FreedIsEmpty'
    BY <1>0 DEF FreedIsEmpty, TypeOK
  <2>2. SequentialFromZero'
    BY <1>0, <1>1 DEF SequentialFromZero, TypeOK, Counters
  <2> QED
    BY <2>1, <2>2
<1>9. SoleHolder'
  BY <1>0 DEF SoleHolder, Holds, Unseals
<1>10. \A n \in Materials : highest'[n] =
         IF n = m THEN (IF t > highest[m] THEN t ELSE highest[m]) ELSE highest[n]
  BY <1>0, <1>2 DEF TypeOK
<1>11. \A p \in Objects, q \in SeedIds :
         last'[p][q] = IF p = o /\ q = s THEN t ELSE last[p][q]
  BY <1>0 DEF TypeOK
<1>12. m \notin forked => highest[m] <= last[o][s] /\ highest'[m] = t
  <2>1. ASSUME m \notin forked PROVE highest[m] <= last[o][s]
    BY <2>1, <1>0, <1>2 DEF HolderCovers, Holds, m
  <2> QED
    BY <2>1, <1>1, <1>2, <1>4, <1>5, <1>10 DEF Counters
<1>13. HolderCovers'
  <2> SUFFICES ASSUME NEW n \in Materials \ forked, NEW p \in Objects, NEW q \in SeedIds,
                      Holds(p, q, n)
               PROVE  highest'[n] <= last'[p][q]
    BY <1>0 DEF HolderCovers, Holds, Unseals
  <2>1. CASE n = m
    <3>1. Holds(o, s, m)
      BY <1>0 DEF Holds, m
    <3>2. p = o
      BY <3>1, <2>1, <1>2 DEF SoleHolder
    <3>3. q = s
      BY <2>1, <1>3 DEF Holds, Unseals, SeedsOwned
    <3> QED
      BY <2>1, <3>2, <3>3, <1>1, <1>5, <1>11, <1>12 DEF Counters
  <2>2. CASE n # m
    <3>1. ~ (p = o /\ q = s)
      BY <2>2 DEF Holds, m
    <3> QED
      BY <3>1, <2>2, <1>10, <1>11 DEF HolderCovers
  <2> QED
    BY <2>1, <2>2
<1>14. \A n \in Materials, u \in Counters : issued'[<<n, u>>] =
         IF n = m /\ u = t THEN issued[<<m, t>>] + 1 ELSE issued[<<n, u>>]
  BY <1>0, <1>1, <1>2 DEF TypeOK, Codes
<1>15. IssuedBelowHighest'
  <2> SUFFICES ASSUME NEW n \in Materials, NEW u \in Counters, issued'[<<n, u>>] > 0
               PROVE  u <= highest'[n]
    BY DEF IssuedBelowHighest
  <2>1. CASE n = m /\ u = t
    BY <2>1, <1>1, <1>4, <1>5, <1>10 DEF Counters
  <2>2. CASE ~ (n = m /\ u = t)
    <3>1. u <= highest[n]
      BY <2>2, <1>14 DEF IssuedBelowHighest
    <3>2. highest[n] \in Int /\ t \in Int /\ u \in Int
      BY <1>1, <1>5 DEF TypeOK, Counters
    <3>3. CASE n = m
      BY <3>1, <3>2, <3>3, <1>10
    <3>4. CASE n # m
      BY <3>1, <3>4, <1>10
    <3> QED
      BY <3>3, <3>4
  <2> QED
    BY <2>1, <2>2
<1>16. UndrawnUncharged'
  <2>1. owner[m] # None
    BY <1>3, NoneAssumption DEF NoneAssumption
  <2> QED
    BY <2>1, <1>0, <1>10 DEF UndrawnUncharged
<1>17. CodesUniqueUnlessForked'
  <2> SUFFICES ASSUME NEW n \in Materials, NEW u \in Counters, n \notin forked
               PROVE  issued'[<<n, u>>] <= 1
    BY <1>0 DEF CodesUniqueUnlessForked, Codes
  <2>1. CASE n = m /\ u = t
    <3>1. highest[m] < t
      BY <2>1, <1>1, <1>4, <1>5, <1>12 DEF Counters
    <3>2. issued[<<m, t>>] \in Nat
      BY <1>1, <1>2 DEF TypeOK, Codes
    <3>3. ~ (issued[<<m, t>>] > 0)
      BY <3>1, <1>1, <1>2, <1>4, <1>5 DEF IssuedBelowHighest, Counters
    <3> QED
      BY <2>1, <3>2, <3>3, <1>14
  <2>2. CASE ~ (n = m /\ u = t)
    BY <2>2, <1>14 DEF CodesUniqueUnlessForked, Codes
  <2> QED
    BY <2>1, <2>2
<1> QED
  BY <1>6, <1>7, <1>8, <1>9, <1>13, <1>15, <1>16, <1>17

LEMMA AcceptIInv ==
  ASSUME IInv, NEW o \in Objects, NEW s \in SeedIds, NEW t \in Counters,
         NEW c \in Codes, Accept(o, s, t, c)
  PROVE  IInv'
<1> USE DEF IInv, Accept
<1>1. TypeOK'
  <2>1. receipts[o][<<s, t>>] \in Receipt
    BY DEF TypeOK, Keys, Held
  <2>2. [receipts[o][<<s, t>>] EXCEPT !.consumed = TRUE] \in Receipt
    BY <2>1 DEF Receipt
  <2>3. receipts' \in [Objects -> [Keys -> Receipt \cup {None}]]
    BY <2>2 DEF TypeOK
  <2>4. accepted' \in [Codes -> Nat]
    BY DEF TypeOK
  <2> QED
    BY <2>3, <2>4 DEF TypeOK
<1>2. SeedsOwned' /\ CopiesOwned' /\ KeysPassed' /\ FreedIsEmpty' /\ SequentialFromZero'
  BY DEF SeedsOwned, CopiesOwned, KeysPassed, FreedIsEmpty, SequentialFromZero
<1>3. SoleHolder' /\ HolderCovers'
  BY DEF SoleHolder, HolderCovers, Holds, Unseals
<1>4. IssuedBelowHighest' /\ UndrawnUncharged' /\ CodesUniqueUnlessForked'
  BY DEF IssuedBelowHighest, UndrawnUncharged, CodesUniqueUnlessForked
<1> QED
  BY <1>1, <1>2, <1>3, <1>4

\* A new receiver's counter is empty, but nothing is held by it either.
LEMMA CreateIInv ==
  ASSUME IInv, NEW o \in Objects, NEW md \in Modes, NEW now \in 0..MaxTime,
         CreateEmpty(o, md, now)
  PROVE  IInv'
<1> USE DEF IInv, CreateEmpty, Create
<1>0. None \notin Modes
  BY NoneAssumption DEF NoneAssumption
<1>1. TypeOK'
  <2>1. NoCounters(md) \in [SeedIds -> Counters \cup {-1}]
    BY CounterAssumption DEF NoCounters, Counters, CounterAssumption
  <2>2. last' \in [Objects -> [SeedIds -> Counters \cup {-1}]]
    BY <2>1 DEF TypeOK
  <2>3. /\ mode' \in [Objects -> Modes \cup {None}]
        /\ clock' \in [Objects -> 0..MaxTime]
    BY DEF TypeOK
  <2>4. lives' \in 0..MaxLives
    BY BoundsAssumption DEF TypeOK, BoundsAssumption
  <2> QED
    BY <2>2, <2>3, <2>4 DEF TypeOK
<1>2. \A s \in SeedIds : seeds[o][s] = None
  BY DEF FreedIsEmpty, NoSeeds
<1>3. \A p \in Objects : p # o => last'[p] = last[p] /\ mode'[p] = mode[p]
  BY DEF TypeOK
<1>4. SeedsOwned' /\ CopiesOwned' /\ KeysPassed'
  BY DEF SeedsOwned, CopiesOwned, KeysPassed
<1>5. FreedIsEmpty' /\ SequentialFromZero'
  <2>1. FreedIsEmpty'
    BY <1>0, <1>3 DEF FreedIsEmpty, TypeOK
  <2>2. SequentialFromZero'
    BY <1>3 DEF SequentialFromZero, TypeOK, NoCounters
  <2> QED
    BY <2>1, <2>2
<1>6. SoleHolder' /\ HolderCovers'
  BY <1>2, <1>3 DEF SoleHolder, HolderCovers, Holds, Unseals
<1>7. IssuedBelowHighest' /\ UndrawnUncharged' /\ CodesUniqueUnlessForked'
  BY DEF IssuedBelowHighest, UndrawnUncharged, CodesUniqueUnlessForked
<1> QED
  BY <1>1, <1>4, <1>5, <1>6, <1>7

LEMMA TickIInv ==
  ASSUME IInv, NEW o \in Objects, NEW now \in 0..MaxTime, Tick(o, now)
  PROVE  IInv'
<1> USE DEF IInv, Tick
<1>1. TypeOK'
  BY DEF TypeOK, history
<1>2. SeedsOwned' /\ CopiesOwned' /\ KeysPassed' /\ FreedIsEmpty' /\ SequentialFromZero'
  BY DEF SeedsOwned, CopiesOwned, KeysPassed, FreedIsEmpty, SequentialFromZero, history
<1>3. SoleHolder' /\ HolderCovers'
  BY DEF SoleHolder, HolderCovers, Holds, Unseals, history
<1>4. IssuedBelowHighest' /\ UndrawnUncharged' /\ CodesUniqueUnlessForked'
  BY DEF IssuedBelowHighest, UndrawnUncharged, CodesUniqueUnlessForked, history
<1> QED
  BY <1>1, <1>2, <1>3, <1>4

\* A key that is lost leaves fewer holders, and opens no older blob.
LEMMA KeyLossIInv ==
  ASSUME IInv, NEW o \in Objects, LoseSealKey(o)
  PROVE  IInv'
<1> USE DEF IInv, LoseSealKey, history
<1>1. TypeOK'
  BY BoundsAssumption DEF TypeOK, BoundsAssumption
<1>2. \A p \in Objects : sealKey'[p] = IF p = o THEN sealKey[o] + 1 ELSE sealKey[p]
  BY DEF TypeOK
<1>3. \A p \in Objects, s \in SeedIds : seeds[p][s] # None =>
        seeds[p][s].key \in Int /\ sealKey[p] \in Int
  BY BoundsAssumption DEF TypeOK, Blob, BoundsAssumption
<1>4. SeedsOwned' /\ CopiesOwned' /\ FreedIsEmpty' /\ SequentialFromZero'
  BY DEF SeedsOwned, CopiesOwned, FreedIsEmpty, SequentialFromZero
<1>5. KeysPassed'
  BY <1>2, <1>3 DEF KeysPassed
<1>6. \A p \in Objects, s \in SeedIds : Unseals(p, s)' => Unseals(p, s)
  BY <1>2, <1>3 DEF Unseals, KeysPassed
<1>7. SoleHolder' /\ HolderCovers'
  BY <1>6 DEF SoleHolder, HolderCovers, Holds
<1>8. IssuedBelowHighest' /\ UndrawnUncharged' /\ CodesUniqueUnlessForked'
  BY DEF IssuedBelowHighest, UndrawnUncharged, CodesUniqueUnlessForked
<1> QED
  BY <1>1, <1>4, <1>5, <1>7, <1>8

LEMMA FreeIInv ==
  ASSUME IInv, NEW o \in Objects, Free(o)
  PROVE  IInv'
<1> USE DEF IInv, Free, history
<1>1. TypeOK'
  <2>1. 0 \in 0..MaxTime
    BY TimeAssumption DEF TimeAssumption
  <2>2. NoCounters("Sequential") \in [SeedIds -> Counters \cup {-1}]
    BY CounterAssumption DEF NoCounters, Counters, CounterAssumption
  <2>3. NoSeeds \in [SeedIds -> Blob \cup {None}] /\ NoReceipts \in [Keys -> Receipt \cup {None}]
    BY DEF NoSeeds, NoReceipts
  <2> QED
    BY <2>1, <2>2, <2>3 DEF TypeOK
<1>2. \A p \in Objects, s \in SeedIds :
        seeds'[p][s] # None => p # o /\ seeds'[p][s] = seeds[p][s] /\ last'[p] = last[p]
  BY DEF TypeOK, NoSeeds
<1>3. SeedsOwned' /\ KeysPassed'
  BY <1>2 DEF SeedsOwned, KeysPassed
<1>4. CopiesOwned'
  BY DEF CopiesOwned, TypeOK
<1>5. FreedIsEmpty' /\ SequentialFromZero'
  BY NoneAssumption DEF FreedIsEmpty, SequentialFromZero, TypeOK, NoCounters, NoneAssumption, Modes
<1>6. SoleHolder' /\ HolderCovers'
  BY <1>2 DEF SoleHolder, HolderCovers, Holds, Unseals
<1>7. IssuedBelowHighest' /\ UndrawnUncharged' /\ CodesUniqueUnlessForked'
  BY DEF IssuedBelowHighest, UndrawnUncharged, CodesUniqueUnlessForked
<1> QED
  BY <1>1, <1>3, <1>4, <1>5, <1>6, <1>7

LEMMA CaptureIInv ==
  ASSUME IInv, NEW o \in Objects, NEW s \in SeedIds, Capture(o, s)
  PROVE  IInv'
<1> USE DEF IInv, history
<1> DEFINE t == IF mode[o] = "Quantized" THEN 0 ELSE last[o][s]
           input == [seed |-> seeds[o][s].seed, sid |-> s, mode |-> mode[o], t |-> t]
<1>0. /\ mode[o] # None /\ Unseals(o, s)
      /\ draft' = [draft EXCEPT ![o] = input]
      /\ UNCHANGED <<facade, mode, clock, seeds, receipts, last, sealKey, backups,
                     lives, history>>
  BY DEF Capture
<1>1. seeds[o][s] \in Blob /\ owner[seeds[o][s].seed] = s
  BY <1>0 DEF Unseals, TypeOK, SeedsOwned
<1>2. t \in Counters \cup {-1}
  BY CounterAssumption DEF TypeOK, Counters, CounterAssumption
<1>3. t \in Counters
  BY <1>0, <1>2, CounterAssumption
  DEF TypeOK, SequentialFromZero, Counters, Modes, CounterAssumption
<1>4. input \in Input
  BY <1>0, <1>1, <1>3 DEF Input, Blob, TypeOK
<1>5. TypeOK'
  BY <1>0, <1>4 DEF TypeOK
<1>6. SeedsOwned' /\ KeysPassed' /\ FreedIsEmpty' /\ SequentialFromZero'
  BY <1>0 DEF SeedsOwned, KeysPassed, FreedIsEmpty, SequentialFromZero
<1>7. CopiesOwned'
  BY <1>0, <1>1 DEF CopiesOwned, TypeOK
<1>8. SoleHolder' /\ HolderCovers'
  BY <1>0 DEF SoleHolder, HolderCovers, Holds, Unseals
<1>9. IssuedBelowHighest' /\ UndrawnUncharged' /\ CodesUniqueUnlessForked'
  BY <1>0 DEF IssuedBelowHighest, UndrawnUncharged, CodesUniqueUnlessForked
<1> QED
  BY <1>5, <1>6, <1>7, <1>8, <1>9

LEMMA WriteIInv ==
  ASSUME IInv, NEW o \in Objects, NEW p \in Passphrases, NEW params \in ExportParams,
         WriteBackup(o, p, params)
  PROVE  IInv'
<1> USE DEF IInv, history
<1> DEFINE b == [input |-> draft[o], pass |-> p, params |-> params,
                 salt |-> Cardinality(backups) + 1]
<1>0. /\ draft[o] # None
      /\ Cardinality(backups) < MaxExports
      /\ backups' = backups \cup {b}
      /\ draft' = [draft EXCEPT ![o] = None]
      /\ UNCHANGED <<facade, mode, clock, seeds, receipts, last, sealKey, lives, history>>
  BY DEF WriteBackup
<1>1. draft[o] \in Input /\ owner[draft[o].seed] = draft[o].sid
  BY <1>0 DEF TypeOK, CopiesOwned
<1>2. Cardinality(backups) + 1 \in 1..MaxExports
  <2>1. Cardinality(backups) \in Nat
    BY FS_CardinalityType DEF TypeOK
  <2> QED
    BY <2>1, <1>0, BoundsAssumption DEF BoundsAssumption
<1>3. b \in Backup
  BY <1>1, <1>2 DEF Backup
<1>4. TypeOK'
  <2>1. IsFiniteSet(backups')
    BY <1>0, FS_AddElement DEF TypeOK
  <2> QED
    BY <2>1, <1>0, <1>3 DEF TypeOK
<1>5. SeedsOwned' /\ KeysPassed' /\ FreedIsEmpty' /\ SequentialFromZero'
  BY <1>0 DEF SeedsOwned, KeysPassed, FreedIsEmpty, SequentialFromZero
<1>6. CopiesOwned'
  <2>1. \A x \in Objects : draft'[x] # None => owner[draft'[x].seed] = draft'[x].sid
    BY <1>0 DEF CopiesOwned, TypeOK
  <2>2. \A x \in backups' : owner[x.input.seed] = x.input.sid
    BY <1>0, <1>1 DEF CopiesOwned
  <2> QED
    BY <2>1, <2>2, <1>0 DEF CopiesOwned
<1>7. SoleHolder' /\ HolderCovers'
  BY <1>0 DEF SoleHolder, HolderCovers, Holds, Unseals
<1>8. IssuedBelowHighest' /\ UndrawnUncharged' /\ CodesUniqueUnlessForked'
  BY <1>0 DEF IssuedBelowHighest, UndrawnUncharged, CodesUniqueUnlessForked
<1> QED
  BY <1>4, <1>5, <1>6, <1>7, <1>8

\* A restore: either the material is forked, or the restored receiver is its
\* only holder and its counter has passed every charge.
LEMMA RestoreIInv ==
  ASSUME IInv, NEW o \in Objects, NEW st, NEW L \in Counters \cup {-1},
         st.seed \in Materials, st.sid \in SeedIds, st.t \in Counters,
         owner[st.seed] = st.sid,
         L >= last[o][st.sid], mode'[o] = "Sequential" => L >= 0,
         st.mode = "Sequential" => L >= st.t,
         last' = [last EXCEPT ![o][st.sid] = L],
         Restore(o, st), mode'[o] # None,
         mode[o] \in {None, mode'[o]},
         \A p \in Objects : p # o => mode'[p] = mode[p],
         mode' \in [Objects -> Modes \cup {None}],
         clock' \in [Objects -> 0..MaxTime], lives' \in 0..MaxLives,
         UNCHANGED <<facade, receipts, sealKey, draft, backups, owner, issued,
                     accepted, highest>>
  PROVE  IInv'
<1> USE DEF IInv
<1> DEFINE s == st.sid
           m == st.seed
<1>0. MaxCounter \in Nat
  BY CounterAssumption DEF CounterAssumption
<1>1. Sealed(o, m) \in Blob /\ Sealed(o, m) # None
  BY NoneAssumption DEF Sealed, Blob, TypeOK, NoneAssumption
<1>2. seeds' = [seeds EXCEPT ![o][s] = Sealed(o, m)]
  BY DEF Restore
<1>3. \A p \in Objects, q \in SeedIds :
        seeds'[p][q] = IF p = o /\ q = s THEN Sealed(o, m) ELSE seeds[p][q]
  BY <1>2 DEF TypeOK
<1>4. \A p \in Objects, q \in SeedIds :
        last'[p][q] = IF p = o /\ q = s THEN L ELSE last[p][q]
  BY DEF TypeOK
<1>5. Sealed(o, m).seed = m /\ Sealed(o, m).key = sealKey[o]
  BY DEF Sealed
<1>6. forked' \in SUBSET Materials /\ forked \subseteq forked'
  BY DEF Restore, TypeOK
<1>7. TypeOK'
  <2>1. seeds' \in [Objects -> [SeedIds -> Blob \cup {None}]]
    BY <1>1, <1>2 DEF TypeOK
  <2>2. last' \in [Objects -> [SeedIds -> Counters \cup {-1}]]
    BY DEF TypeOK
  <2> QED
    BY <2>1, <2>2, <1>6 DEF TypeOK
<1>8. SeedsOwned'
  BY <1>3, <1>5 DEF SeedsOwned
<1>9. CopiesOwned'
  BY DEF CopiesOwned
<1>10. KeysPassed'
  <2>1. sealKey[o] \in Int
    BY BoundsAssumption DEF TypeOK, BoundsAssumption
  <2> QED
    BY <2>1, <1>3, <1>5 DEF KeysPassed
<1>11. FreedIsEmpty'
  <2> SUFFICES ASSUME NEW p \in Objects, mode'[p] = None
               PROVE  seeds'[p] = NoSeeds /\ last'[p] = NoCounters("Sequential")
    BY DEF FreedIsEmpty
  <2>1. p # o /\ mode[p] = None
    OBVIOUS
  <2>2. seeds'[p] = seeds[p] /\ last'[p] = last[p]
    BY <2>1, <1>2 DEF TypeOK
  <2> QED
    BY <2>1, <2>2 DEF FreedIsEmpty
<1>18. SequentialFromZero'
  <2> SUFFICES ASSUME NEW p \in Objects, NEW q \in SeedIds, mode'[p] = "Sequential"
               PROVE  last'[p][q] >= 0
    BY DEF SequentialFromZero
  <2>1. CASE p = o
    <3>1. L >= 0
      BY <2>1
    <3>2. mode[o] = None \/ mode[o] = mode'[o]
      OBVIOUS
    <3>3. q # s => last[o][q] >= 0
      BY <2>1, <3>2 DEF SequentialFromZero, FreedIsEmpty, NoCounters
    <3> QED
      BY <2>1, <3>1, <3>3, <1>4
  <2>2. CASE p # o
    <3>1. mode[p] = "Sequential"
      BY <2>2
    <3> QED
      BY <2>2, <3>1, <1>4 DEF SequentialFromZero
  <2> QED
    BY <2>1, <2>2
<1>12. m \notin forked' => ~ InUse(o, m) /\ highest[m] <= L
  <2> SUFFICES ASSUME m \notin forked' PROVE ~ InUse(o, m) /\ highest[m] <= L
    OBVIOUS
  <2>1. ~ InUse(o, m) /\ Covers(o, st)
    BY DEF Restore
  <2>2. highest[m] \in Int /\ L \in Int /\ last[o][s] \in Int /\ st.t \in Int
    BY <1>0 DEF TypeOK, Counters
  <2> QED
    BY <2>1, <2>2 DEF Covers
<1>13. \A n \in Materials, p \in Objects, q \in SeedIds :
         Holds(p, q, n)' <=> IF p = o /\ q = s THEN n = m ELSE Holds(p, q, n)
  BY <1>1, <1>3, <1>5 DEF Holds, Unseals
<1>14. SoleHolder'
  <2> SUFFICES ASSUME NEW n \in Materials \ forked', NEW p \in Objects, NEW x \in Objects,
                      NEW q \in SeedIds, NEW y \in SeedIds,
                      Holds(p, q, n)', Holds(x, y, n)'
               PROVE  p = x
    BY DEF SoleHolder
  <2>1. CASE n = m
    <3>1. ASSUME NEW z \in Objects, NEW w \in SeedIds, Holds(z, w, n)' PROVE z = o
      BY <3>1, <2>1, <1>12, <1>13 DEF InUse, Holds
    <3> QED
      BY <3>1
  <2>2. CASE n # m
    <3>1. Holds(p, q, n) /\ Holds(x, y, n)
      BY <2>2, <1>13
    <3> QED
      BY <3>1, <1>6 DEF SoleHolder
  <2> QED
    BY <2>1, <2>2
<1>15. HolderCovers'
  <2> SUFFICES ASSUME NEW n \in Materials \ forked', NEW p \in Objects, NEW q \in SeedIds,
                      Holds(p, q, n)'
               PROVE  highest[n] <= last'[p][q]
    BY DEF HolderCovers
  <2>1. CASE p = o /\ q = s
    BY <2>1, <1>4, <1>12, <1>13
  <2>2. CASE ~ (p = o /\ q = s)
    BY <2>2, <1>4, <1>6, <1>13 DEF HolderCovers
  <2> QED
    BY <2>1, <2>2
<1>16. IssuedBelowHighest' /\ UndrawnUncharged'
  BY DEF IssuedBelowHighest, UndrawnUncharged
<1>17. CodesUniqueUnlessForked'
  BY <1>6 DEF CodesUniqueUnlessForked
<1> QED
  BY <1>7, <1>8, <1>9, <1>10, <1>11, <1>14, <1>15, <1>16, <1>17, <1>18

LEMMA FromBackupIInv ==
  ASSUME IInv, NEW o \in Objects, NEW text \in Texts, NEW pass \in Passphrases,
         FromSealedBackup(o, text, pass)
  PROVE  IInv'
<1> DEFINE st == Import(text, pass)
           L == RestoreLastIssued(0, st.t)
<1>1. /\ st.error = "none" /\ st.mode = "Sequential"
      /\ Create(o, "Sequential", 0)
      /\ last' = [last EXCEPT ![o] = [NoCounters("Sequential") EXCEPT
                    ![st.sid] = RestoreLastIssued(@, st.t)]]
      /\ Restore(o, st)
  BY DEF FromSealedBackup
<1>2. /\ st.seed \in Materials /\ st.sid \in SeedIds /\ st.t \in Counters
      /\ owner[st.seed] = st.sid
  BY <1>1, ImportTyped DEF IInv, TypeOK
<1> HIDE DEF st
<1>3. mode[o] = None /\ last[o] = NoCounters("Sequential")
  BY <1>1 DEF Create, IInv, FreedIsEmpty
<1>4. last[o][st.sid] = 0
  BY <1>2, <1>3 DEF NoCounters
<1>5. L \in Counters \cup {-1} /\ L >= 0 /\ L >= st.t
  BY <1>2, CounterAssumption DEF RestoreLastIssued, Counters, CounterAssumption
<1>6. last' = [last EXCEPT ![o][st.sid] = L]
  <2>1. [NoCounters("Sequential") EXCEPT ![st.sid] = RestoreLastIssued(@, st.t)]
          = [last[o] EXCEPT ![st.sid] = L]
    BY <1>2, <1>3, <1>4 DEF NoCounters
  <2> QED
    BY <1>1, <2>1
<1>7. /\ mode' = [mode EXCEPT ![o] = "Sequential"]
      /\ clock' = [clock EXCEPT ![o] = 0]
      /\ lives < MaxLives /\ lives' = lives + 1
      /\ UNCHANGED <<facade, receipts, sealKey, draft, backups, owner, issued,
                     accepted, highest>>
  BY <1>1 DEF Create
<1>8. /\ mode' \in [Objects -> Modes \cup {None}]
      /\ mode'[o] # None
      /\ mode[o] \in {None, mode'[o]}
      /\ \A p \in Objects : p # o => mode'[p] = mode[p]
  BY <1>3, <1>7, NoneAssumption DEF IInv, TypeOK, Modes, NoneAssumption
<1>9. clock' \in [Objects -> 0..MaxTime] /\ lives' \in 0..MaxLives
  BY <1>7, TimeAssumption, BoundsAssumption
  DEF IInv, TypeOK, TimeAssumption, BoundsAssumption
<1> HIDE DEF L
<1> QED
  BY <1>1, <1>2, <1>4, <1>5, <1>6, <1>7, <1>8, <1>9, RestoreIInv

LEMMA InPlaceIInv ==
  ASSUME IInv, NEW o \in Objects, NEW text \in Texts, NEW pass \in Passphrases,
         RestoreInPlace(o, text, pass)
  PROVE  IInv'
<1> DEFINE st == Import(text, pass)
           L == IF mode[o] = "Sequential" THEN RestoreLastIssued(last[o][st.sid], st.t)
                ELSE last[o][st.sid]
<1>1. /\ mode[o] # None
      /\ st.error = "none" /\ st.mode = mode[o]
      /\ last' = [last EXCEPT ![o][st.sid] = 
                    IF mode[o] = "Sequential" THEN RestoreLastIssued(@, st.t) ELSE @]
      /\ Restore(o, st)
      /\ UNCHANGED <<facade, mode, clock, receipts, sealKey, draft, backups, lives,
                     owner, issued, accepted, highest>>
  BY DEF RestoreInPlace
<1>2. /\ st.seed \in Materials /\ st.sid \in SeedIds /\ st.t \in Counters
      /\ owner[st.seed] = st.sid
  BY <1>1, ImportTyped DEF IInv, TypeOK
<1> HIDE DEF st
<1>3. last[o][st.sid] \in Counters \cup {-1}
  BY <1>2 DEF IInv, TypeOK
<1>4. /\ L \in Counters \cup {-1}
      /\ L >= last[o][st.sid]
      /\ st.mode = "Sequential" => L >= st.t
      /\ mode[o] = "Sequential" => L >= 0
  BY <1>1, <1>2, <1>3, CounterAssumption DEF RestoreLastIssued, Counters, CounterAssumption
<1>5. last' = [last EXCEPT ![o][st.sid] = L]
  BY <1>1, <1>2 DEF IInv, TypeOK
<1>6. /\ mode' \in [Objects -> Modes \cup {None}]
      /\ clock' \in [Objects -> 0..MaxTime] /\ lives' \in 0..MaxLives
  BY <1>1 DEF IInv, TypeOK
<1> HIDE DEF L
<1> QED
  BY <1>1, <1>2, <1>4, <1>5, <1>6, RestoreIInv

LEMMA StepIInv == IInv /\ [Next]_vars => IInv'
<1> SUFFICES ASSUME IInv, [Next]_vars PROVE IInv'
  OBVIOUS
<1>1. CASE Next
  <2>1. CASE Quiet
    BY <2>1, QuietIInv
  <2>2. CASE RegisterStep
    BY <2>2, RegisterIInv DEF RegisterStep
  <2>3. CASE ChargeStep
    BY <2>3, ChargeIInv DEF ChargeStep
  <2>4. CASE AcceptStep
    BY <2>4, AcceptIInv DEF AcceptStep
  <2>5. CASE CreateStep
    BY <2>5, CreateIInv DEF CreateStep
  <2>6. CASE TickStep
    BY <2>6, TickIInv DEF TickStep
  <2>7. CASE KeyLossStep
    BY <2>7, KeyLossIInv DEF KeyLossStep
  <2>8. CASE FreeStep
    BY <2>8, FreeIInv DEF FreeStep
  <2>9. CASE CaptureStep
    BY <2>9, CaptureIInv DEF CaptureStep
  <2>10. CASE WriteStep
    BY <2>10, WriteIInv DEF WriteStep
  <2>11. CASE FromBackupStep
    BY <2>11, FromBackupIInv DEF FromBackupStep
  <2>12. CASE InPlaceStep
    BY <2>12, InPlaceIInv DEF InPlaceStep
  <2> QED
    BY <1>1, <2>1, <2>2, <2>3, <2>4, <2>5, <2>6, <2>7, <2>8, <2>9, <2>10, <2>11,
       <2>12, NextCases
<1>2. CASE UNCHANGED vars
  BY <1>2, QuietIInv DEF vars, Quiet, objects, history
<1> QED
  BY <1>1, <1>2

-----------------------------------------------------------------------------
(***************************************************************************)
(* Theorems                                                                *)
(***************************************************************************)

\* The inductive invariant holds in every reachable state.
THEOREM HandoverIInv == Spec => []IInv
  BY InitIInv, StepIInv, PTL DEF Spec

\* No two charges carry the same code, however many receivers and backups there
\* are, unless the material was restored twice or from a backup that is older
\* than its last charge (uniffi lib.rs from_sealed_backup).
THEOREM CodesStayUnique == Spec => []CodesUniqueUnlessForked
<1>1. IInv => CodesUniqueUnlessForked
  BY DEF IInv
<1> QED
  BY <1>1, HandoverIInv, PTL

\* What one export wrote, both decoders read, with its passphrase alone.
LEMMA ExportRestores ==
  ASSUME NEW b \in Backup, NEW p
  PROVE  LET wanted == IF p = b.pass
                       THEN [error |-> "none", seed |-> b.input.seed,
                             sid |-> b.input.sid, mode |-> b.input.mode, t |-> b.input.t]
                       ELSE Refused("DecryptFailed")
         IN Import(TextOf(b), p) = wanted /\ EmbedImport(TextOf(b), p) = wanted
<1> DEFINE header == WriteHeader(b.params, b.salt)
           payload == WritePayload(b.input)
           text == TextOf(b)
<1>1. /\ text.checksum = TRUE /\ text.header = header
      /\ text.box.key = Key(b.pass, header)
      /\ text.box.aad = header
      /\ text.box.payload = payload
  BY DEF TextOf, Export
<1>2. /\ header.magic = "MBKP" /\ header.version = 1 /\ header.kdf = "argon2id"
      /\ header.params = b.params /\ header.salt = b.salt
  BY DEF WriteHeader
<1>3. b.params \notin RefusedParams
  BY ParamsAssumption DEF ParamsAssumption, Backup
<1>4. /\ payload.version = 1 /\ payload.seed = b.input.seed
      /\ payload.sid = b.input.sid /\ payload.t = b.input.t
      /\ payload.mode = IF b.input.mode = "Sequential" THEN 0 ELSE 1
  BY DEF WritePayload
<1>5. b.input.mode \in Modes /\ b.input.sid \in ValidIds
  BY IdsAssumption DEF Backup, Input, IdsAssumption
<1>6. State(payload) = [error |-> "none", seed |-> b.input.seed,
                        sid |-> b.input.sid, mode |-> b.input.mode, t |-> b.input.t]
  BY <1>4, <1>5 DEF State, ModeOf, Modes
<1>7. IntoState(payload) = State(payload) /\ ParsePayload(payload) = State(payload)
  BY <1>4, <1>5 DEF IntoState, ParsePayload
<1>8. Key(p, header) = Key(b.pass, header) <=> p = b.pass
  BY DEF Key
<1> HIDE DEF header, payload, text
<1>9. Import(text, p) = IF p = b.pass THEN State(payload) ELSE Refused("DecryptFailed")
  BY <1>1, <1>2, <1>3, <1>7, <1>8 DEF Import, ReadHeader, Derives, Opens
<1>10. EmbedImport(text, p) = IF p = b.pass THEN State(payload) ELSE Refused("DecryptFailed")
  <2>1. ParseHeader(header) = [error |-> "none", params |-> b.params, salt |-> b.salt]
    BY <1>2 DEF ParseHeader
  <2>2. <<p, b.salt, b.params>> = Key(b.pass, header) <=> p = b.pass
    BY <1>2 DEF Key
  <2> QED
    BY <1>1, <1>3, <1>7, <2>1, <2>2 DEF EmbedImport
<1> QED
  BY <1>6, <1>9, <1>10 DEF text

\* Both decoders restore from every backup ever written the state it was taken
\* of, and refuse every other passphrase.
THEOREM BackupsAlwaysRestore == Spec => []BackupsRestore
<1>1. IInv => BackupsRestore
  BY ExportRestores DEF IInv, TypeOK, BackupsRestore
<1> QED
  BY <1>1, HandoverIInv, PTL

LEMMA StepForward ==
  ASSUME IInv, [Next]_vars, NEW o \in Objects, NEW s \in SeedIds,
         mode[o] # None, mode'[o] # None
  PROVE  last'[o][s] >= last[o][s]
<1>0. last[o][s] \in Int
  BY CounterAssumption DEF IInv, TypeOK, Counters, CounterAssumption
<1>1. CASE UNCHANGED last
  BY <1>0, <1>1
<1>2. ASSUME NEW p \in Objects, NEW q \in SeedIds, Charge(p, q)
      PROVE  last'[o][s] >= last[o][s]
  <2>1. last' = [last EXCEPT ![p][q] = NextT(p, q)]
    BY <1>2 DEF Charge
  <2>2. NextT(p, q) \in Counters /\ NextT(p, q) > last[p][q]
    BY <1>2, NextTAdvances, ChargeClear DEF Charge, IInv
  <2>3. NextT(p, q) \in Int
    BY <2>2, CounterAssumption DEF Counters, CounterAssumption
  <2> QED
    BY <1>0, <2>1, <2>2, <2>3 DEF IInv, TypeOK
<1>3. ASSUME NEW p \in Objects, p # o, NEW f, last' = [last EXCEPT ![p] = f]
      PROVE  last'[o][s] >= last[o][s]
  BY <1>0, <1>3 DEF IInv, TypeOK
<1>4. ASSUME NEW p \in Objects, NEW md \in Modes, NEW now \in 0..MaxTime,
             CreateEmpty(p, md, now)
      PROVE  last'[o][s] >= last[o][s]
  BY <1>3, <1>4 DEF CreateEmpty, Create
<1>5. ASSUME NEW p \in Objects, Free(p)
      PROVE  last'[o][s] >= last[o][s]
  BY <1>3, <1>5 DEF Free, IInv, TypeOK
<1>6. ASSUME NEW p \in Objects, NEW text \in Texts, NEW pass \in Passphrases,
             FromSealedBackup(p, text, pass)
      PROVE  last'[o][s] >= last[o][s]
  BY <1>3, <1>6 DEF FromSealedBackup, Create
<1>7. ASSUME NEW p \in Objects, NEW text \in Texts, NEW pass \in Passphrases,
             RestoreInPlace(p, text, pass)
      PROVE  last'[o][s] >= last[o][s]
  <2> DEFINE st == Import(text, pass)
  <2>1. last' = [last EXCEPT ![p][st.sid] =
                   IF mode[p] = "Sequential" THEN RestoreLastIssued(@, st.t) ELSE @]
    BY <1>7 DEF RestoreInPlace
  <2>2. st.t \in Int /\ st.sid \in SeedIds
    BY <1>7, ImportTyped, CounterAssumption
    DEF RestoreInPlace, IInv, TypeOK, Counters, CounterAssumption
  <2> HIDE DEF st
  <2>3. last[p][st.sid] \in Int
    BY <2>2, CounterAssumption DEF IInv, TypeOK, Counters, CounterAssumption
  <2>4. RestoreLastIssued(last[p][st.sid], st.t) >= last[p][st.sid]
    BY <2>2, <2>3 DEF RestoreLastIssued
  <2> QED
    BY <1>0, <2>1, <2>2, <2>3, <2>4 DEF IInv, TypeOK
<1>8. CASE Quiet
  BY <1>1, <1>8 DEF Quiet, objects
<1>9. CASE RegisterStep \/ AcceptStep \/ TickStep \/ KeyLossStep \/ CaptureStep \/ WriteStep
  BY <1>1, <1>9
  DEF RegisterStep, AcceptStep, TickStep, KeyLossStep, CaptureStep, WriteStep,
      Register, Accept, Tick, LoseSealKey, Capture, WriteBackup
<1>10. CASE UNCHANGED vars
  BY <1>1, <1>10 DEF vars
<1>11. CASE Next
  BY <1>2, <1>4, <1>5, <1>6, <1>7, <1>8, <1>9, <1>11, NextCases
  DEF ChargeStep, CreateStep, FreeStep, FromBackupStep, InPlaceStep
<1> QED
  BY <1>10, <1>11

\* Neither a charge nor a restore takes a live receiver's counter back.
THEOREM CounterOnlyAdvances == Spec => CounterNeverGoesBack
<1>1. IInv /\ [Next]_vars =>
        [\A o \in Objects, s \in SeedIds :
           mode[o] # None /\ mode'[o] # None => last'[o][s] >= last[o][s]]_vars
  BY StepForward
<1> QED
  BY <1>1, HandoverIInv, PTL DEF Spec, CounterNeverGoesBack

-----------------------------------------------------------------------------
(***************************************************************************)
(* The decoders on what no export wrote                                    *)
(***************************************************************************)
\* The two decoders, written separately, return the same for every text.
LEMMA DecodersAgree ==
  ASSUME NEW text, NEW p
  PROVE  EmbedImport(text, p) = Import(text, p)
<1> DEFINE header == text.header
           payload == text.box.payload
<1>1. ParsePayload(payload) = IntoState(payload)
  BY DEF ParsePayload, IntoState
<1>2. CASE ReadHeader(header) # "none"
  <2>1. ParseHeader(header) = Refused(ReadHeader(header))
    BY <1>2 DEF ReadHeader, ParseHeader
  <2>2. Refused(ReadHeader(header)).error # "none"
    BY <1>2 DEF Refused
  <2> QED
    BY <1>2, <2>1, <2>2 DEF Import, EmbedImport
<1>3. CASE ReadHeader(header) = "none"
  <2>1. ParseHeader(header) = [error |-> "none", params |-> header.params, salt |-> header.salt]
    BY <1>3 DEF ReadHeader, ParseHeader
  <2>2. <<p, header.salt, header.params>> = Key(p, header)
    BY DEF Key
  <2> QED
    BY <1>1, <1>3, <2>1, <2>2 DEF Import, EmbedImport, Derives, Opens
<1> QED
  BY <1>2, <1>3

LEMMA DamagedRefused ==
  ASSUME NEW b \in Backup, NEW p, NEW text \in Damaged(TextOf(b))
  PROVE  Import(text, p).error # "none"
<1> DEFINE x == TextOf(b)
           header == WriteHeader(b.params, b.salt)
<1>1. /\ x = [checksum |-> TRUE, header |-> header, box |-> x.box]
      /\ x.box = [key |-> Key(b.pass, header), aad |-> header, payload |-> x.box.payload]
  BY DEF TextOf, Export
<1>2. header = [magic |-> "MBKP", version |-> 1, kdf |-> "argon2id",
                params |-> b.params, reserved |-> 0, salt |-> b.salt]
  BY DEF WriteHeader
<1> HIDE DEF x, header
<1>3. CASE text = [x EXCEPT !.checksum = FALSE]
  BY <1>1, <1>3 DEF Import, Refused
<1>4. CASE text = [x EXCEPT !.header.reserved = 1]
                \/ text = [x EXCEPT !.header.params = IF @ = "strong" THEN "embed" ELSE "strong"]
  <2>1. text.header # header /\ text.box.aad = header
    BY <1>1, <1>2, <1>4
  <2> QED
    BY <2>1 DEF Import, Opens, Refused
<1>5. CASE text = [x EXCEPT !.box.key = <<>>]
  <2>1. text.box.key = <<>>
    BY <1>1, <1>5
  <2> QED
    BY <2>1 DEF Import, Opens, Key, Refused
<1> QED
  BY <1>3, <1>4, <1>5 DEF Damaged, x

LEMMA OtherReleaseRefused ==
  ASSUME NEW b \in Backup, NEW p, NEW text \in OtherReleases(TextOf(b))
  PROVE  Import(text, p).error # "none"
<1> DEFINE header == TextOf(b).header
           payload == TextOf(b).box.payload
<1>1. /\ header = [magic |-> "MBKP", version |-> 1, kdf |-> "argon2id",
                   params |-> b.params, reserved |-> 0, salt |-> b.salt]
      /\ payload = [version |-> 1, seed |-> b.input.seed, sid |-> b.input.sid,
                    mode |-> IF b.input.mode = "Sequential" THEN 0 ELSE 1, t |-> b.input.t]
  BY DEF TextOf, Export, WriteHeader, WritePayload
<1>2. \/ text.header \in {[header EXCEPT !.magic = "MBK2"], [header EXCEPT !.version = 2],
                          [header EXCEPT !.kdf = "scrypt"]}
      \/ \E q \in RefusedParams : text.header = [header EXCEPT !.params = q]
      \/ text.box.payload \in {[payload EXCEPT !.version = 2], [payload EXCEPT !.mode = 2],
                               [payload EXCEPT !.sid = BadId]}
  BY DEF OtherReleases
<1> HIDE DEF header, payload
<1>3. CASE text.header \in {[header EXCEPT !.magic = "MBK2"], [header EXCEPT !.version = 2],
                            [header EXCEPT !.kdf = "scrypt"]}
  <2>1. ReadHeader(text.header) # "none"
    BY <1>1, <1>3 DEF ReadHeader
  <2> QED
    BY <2>1 DEF Import, Refused
<1>4. CASE \E q \in RefusedParams : text.header = [header EXCEPT !.params = q]
  <2>1. ~ Derives(text.header)
    BY <1>1, <1>4 DEF Derives
  <2> QED
    BY <2>1 DEF Import, ReadHeader, Refused
<1>5. CASE text.box.payload \in {[payload EXCEPT !.version = 2], [payload EXCEPT !.mode = 2],
                                 [payload EXCEPT !.sid = BadId]}
  <2>1. IntoState(text.box.payload).error # "none"
    BY <1>1, <1>5, IdsAssumption DEF IntoState, Refused, IdsAssumption
  <2> QED
    BY <2>1 DEF Import, ReadHeader, Refused
<1> QED
  BY <1>2, <1>3, <1>4, <1>5

\* A backup that was damaged after it was written, or that another release
\* wrote, restores nothing in either decoder, which give the same reason
\* (format.rs:37-39, restore.rs:93-175).
THEOREM OnlyExportsRestore == Spec => []UnwrittenRefused
<1>1. IInv => UnwrittenRefused
  <2> SUFFICES ASSUME IInv, NEW b \in backups, NEW p \in Passphrases,
                      NEW text \in Unwritten(TextOf(b))
               PROVE  Import(text, p).error # "none" /\ EmbedImport(text, p) = Import(text, p)
    BY DEF UnwrittenRefused
  <2>1. b \in Backup
    BY DEF IInv, TypeOK
  <2> QED
    BY <2>1, DecodersAgree, DamagedRefused, OtherReleaseRefused DEF Unwritten
<1> QED
  BY <1>1, HandoverIInv, PTL

-----------------------------------------------------------------------------
(***************************************************************************)
(* No T is used up by a charge that was refused                            *)
(***************************************************************************)
LEMMA ImportIsExport ==
  ASSUME backups \in SUBSET Backup,
         NEW text \in Texts, NEW pass, Import(text, pass).error = "none"
  PROVE  \E b \in backups :
           Import(text, pass) =
             [error |-> "none", seed |-> b.input.seed, sid |-> b.input.sid,
              mode |-> b.input.mode, t |-> b.input.t]
<1>1. PICK b \in backups : text \in {TextOf(b)} \cup Unwritten(TextOf(b))
  BY DEF Texts
<1>2. b \in Backup
  OBVIOUS
<1>3. text = TextOf(b)
  BY <1>1, <1>2, DamagedRefused, OtherReleaseRefused DEF Unwritten
<1>4. pass = b.pass
  <2>1. Refused("DecryptFailed").error # "none"
    BY DEF Refused
  <2> QED
    BY <1>2, <1>3, <2>1, ExportRestores
<1> QED
  BY <1>2, <1>3, <1>4, ExportRestores

Retained(o, s, t) ==
  \/ receipts[o][<<s, t>>] # None
  \/ \E b \in backups :
       b.input.sid = s /\ b.input.mode = "Sequential" /\ t <= b.input.t

LEMMA RecordIsReceipt == ASSUME NEW r \in Receipt PROVE r # None
  BY NoneAssumption DEF NoneAssumption

LEMMA ChargeRetained ==
  ASSUME IInv, ReservedIsRetained, NEW p \in Objects, NEW q \in SeedIds, Charge(p, q),
         NEW o \in Objects, NEW s \in SeedIds, mode[o] = "Sequential",
         NEW t \in 1..last'[o][s]
  PROVE  Retained(o, s, t)'
<1> DEFINE n == NextT(p, q)
           new == [code |-> <<seeds[p][q].seed, n>>, consumed |-> FALSE]
<1>1. /\ last' = [last EXCEPT ![p][q] = n]
      /\ receipts' = [receipts EXCEPT ![p][<<q, n>>] = new]
      /\ UNCHANGED backups
      /\ mode[p] # None /\ NextError(p, q) = "none" /\ Unseals(p, q)
  BY ChargeClear DEF Charge
<1>2. n \in Counters
  BY <1>1, NextTAdvances DEF IInv
<1>3. new # None
  <2>1. seeds[p][q].seed \in Materials
    BY <1>1 DEF IInv, TypeOK, Unseals, Blob
  <2>2. new \in Receipt
    BY <1>2, <2>1 DEF Receipt, Codes
  <2> QED
    BY <2>2, RecordIsReceipt
<1>4. /\ last \in [Objects -> [SeedIds -> Counters \cup {-1}]]
      /\ receipts \in [Objects -> [Keys -> Receipt \cup {None}]]
      /\ <<q, n>> \in Keys
  BY <1>2 DEF IInv, TypeOK, Keys
<1>5. p = o /\ q = s => n = last[o][s] + 1
  BY DEF NextT
<1> HIDE DEF n, new
<1>6. last[o][s] \in Int
  BY <1>4, CounterAssumption DEF Counters, CounterAssumption
<1>7. CASE p = o /\ q = s /\ t = n
  <2>1. receipts'[o][<<s, t>>] = new
    BY <1>1, <1>4, <1>7
  <2> QED
    BY <1>3, <2>1 DEF Retained
<1>8. CASE ~ (p = o /\ q = s /\ t = n)
  <2>1. t \in 1..last[o][s]
    <3>1. last'[o][s] = IF p = o /\ q = s THEN n ELSE last[o][s]
      BY <1>1, <1>4
    <3>2. t \in 1..last'[o][s] /\ t \in Int
      OBVIOUS
    <3> QED
      BY <1>5, <1>6, <1>8, <3>1, <3>2
  <2>2. receipts'[o][<<s, t>>] = receipts[o][<<s, t>>]
    <3>1. CASE p = o
      <4>1. receipts'[o] = [receipts[o] EXCEPT ![<<q, n>>] = new]
        BY <1>1, <1>4, <3>1
      <4>2. <<q, n>> # <<s, t>>
        BY <1>8, <3>1
      <4>3. <<s, t>> \in Keys
        <5>1. t \in Counters
          BY <1>4, <1>6, <2>1, CounterAssumption DEF Counters, CounterAssumption
        <5> QED
          BY <5>1 DEF Keys
      <4> QED
        BY <1>4, <4>1, <4>2, <4>3
    <3>2. CASE p # o
      BY <1>1, <1>4, <3>2
    <3> QED
      BY <3>1, <3>2
  <2>3. Retained(o, s, t)
    BY <2>1 DEF ReservedIsRetained, Retained
  <2> QED
    BY <1>1, <2>2, <2>3 DEF Retained
<1> QED
  BY <1>7, <1>8

LEMMA StepRetained == IInv /\ ReservedIsRetained /\ [Next]_vars => ReservedIsRetained'
<1> SUFFICES ASSUME IInv, ReservedIsRetained, [Next]_vars,
                    NEW o \in Objects, NEW s \in SeedIds, mode'[o] = "Sequential",
                    NEW t \in 1..last'[o][s]
             PROVE  Retained(o, s, t)'
  BY DEF ReservedIsRetained, Retained
<1>0. /\ mode \in [Objects -> Modes \cup {None}]
      /\ receipts \in [Objects -> [Keys -> Receipt \cup {None}]]
      /\ last \in [Objects -> [SeedIds -> Counters \cup {-1}]]
      /\ backups \in SUBSET Backup /\ last[o][s] \in Int
  BY CounterAssumption DEF IInv, TypeOK, Counters, CounterAssumption
<1>1. ASSUME mode[o] = "Sequential", last'[o][s] = last[o][s], backups \subseteq backups',
             receipts[o][<<s, t>>] # None => receipts'[o][<<s, t>>] # None
      PROVE  Retained(o, s, t)'
  <2>1. Retained(o, s, t)
    BY <1>1 DEF ReservedIsRetained, Retained
  <2> QED
    BY <1>1, <2>1 DEF Retained
<1>2. CASE UNCHANGED <<mode, receipts, last>> /\ backups \subseteq backups'
  BY <1>1, <1>2
<1>3. CASE Quiet \/ UNCHANGED vars
  BY <1>2, <1>3 DEF Quiet, objects, vars
<1>4. CASE RegisterStep \/ TickStep \/ KeyLossStep \/ CaptureStep \/ WriteStep
  BY <1>2, <1>4
  DEF RegisterStep, TickStep, KeyLossStep, CaptureStep, WriteStep, Register, Tick,
      LoseSealKey, Capture, WriteBackup
<1>5. CASE ChargeStep
  BY <1>5, ChargeRetained DEF ChargeStep, Charge
<1>6. CASE AcceptStep
  <2>1. PICK p \in Objects, q \in SeedIds, u \in Counters, c \in Codes : Accept(p, q, u, c)
    BY <1>6 DEF AcceptStep
  <2> DEFINE r == receipts[p][<<q, u>>]
  <2>2. /\ r # None /\ UNCHANGED <<mode, last, backups>>
        /\ receipts' = [receipts EXCEPT ![p][<<q, u>>] = [r EXCEPT !.consumed = TRUE]]
    BY <2>1 DEF Accept, Held
  <2>3. <<q, u>> \in Keys
    BY DEF Keys
  <2>4. [r EXCEPT !.consumed = TRUE] # None
    <3>1. r \in Receipt
      BY <1>0, <2>2, <2>3
    <3>2. [r EXCEPT !.consumed = TRUE] \in Receipt
      BY <3>1 DEF Receipt
    <3> QED
      BY <3>2, RecordIsReceipt
  <2> HIDE DEF r
  <2>5. receipts[o][<<s, t>>] # None => receipts'[o][<<s, t>>] # None
    <3>1. CASE p = o /\ <<q, u>> = <<s, t>>
      BY <1>0, <2>2, <2>3, <2>4, <3>1
    <3>2. CASE p # o
      BY <1>0, <2>2, <3>2
    <3>3. CASE p = o /\ <<q, u>> # <<s, t>>
      <4>1. receipts'[o] = [receipts[o] EXCEPT ![<<q, u>>] = [r EXCEPT !.consumed = TRUE]]
        BY <1>0, <2>2, <3>3
      <4>2. <<s, t>> \in Keys
        <5>1. last[o][s] \in Counters \cup {-1} /\ last'[o][s] = last[o][s]
          BY <1>0, <2>2
        <5>2. t \in Counters
          BY <1>0, <5>1, CounterAssumption DEF Counters, CounterAssumption
        <5> QED
          BY <5>2 DEF Keys
      <4> QED
        BY <1>0, <4>1, <4>2, <3>3
    <3> QED
      BY <3>1, <3>2, <3>3
  <2> QED
    BY <1>1, <2>2, <2>5
<1>7. ASSUME NEW p \in Objects, p # o, NEW md, NEW l,
             mode' = [mode EXCEPT ![p] = md], last' = [last EXCEPT ![p] = l],
             receipts'[o] = receipts[o], UNCHANGED backups
      PROVE  Retained(o, s, t)'
  BY <1>0, <1>1, <1>7
<1>8. CASE CreateStep
  <2>1. PICK p \in Objects, md \in Modes, now \in 0..MaxTime : CreateEmpty(p, md, now)
    BY <1>8 DEF CreateStep
  <2>2. /\ mode' = [mode EXCEPT ![p] = md] /\ last' = [last EXCEPT ![p] = NoCounters(md)]
        /\ UNCHANGED <<receipts, backups>>
    BY <2>1 DEF CreateEmpty, Create
  <2>3. p # o
    <3>1. p = o => md = "Sequential" /\ last'[o][s] = 0
      BY <1>0, <2>2 DEF NoCounters
    <3> QED
      BY <3>1
  <2> QED
    BY <1>7, <2>2, <2>3
<1>9. CASE FreeStep
  <2>1. PICK p \in Objects : Free(p)
    BY <1>9 DEF FreeStep
  <2>2. /\ mode' = [mode EXCEPT ![p] = None]
        /\ last' = [last EXCEPT ![p] = NoCounters("Sequential")]
        /\ receipts' = [receipts EXCEPT ![p] = NoReceipts] /\ UNCHANGED backups
    BY <2>1 DEF Free
  <2>3. p # o
    <3>1. None # "Sequential"
      BY NoneAssumption DEF NoneAssumption, Modes
    <3> QED
      BY <1>0, <2>2, <3>1
  <2>4. receipts'[o] = receipts[o]
    BY <1>0, <2>2, <2>3
  <2> QED
    BY <1>7, <2>2, <2>3, <2>4
<1>10. CASE FromBackupStep \/ InPlaceStep
  <2>1. PICK p \in Objects, text \in Texts, pass \in Passphrases :
               FromSealedBackup(p, text, pass) \/ RestoreInPlace(p, text, pass)
    BY <1>10 DEF FromBackupStep, InPlaceStep
  <2> DEFINE st == Import(text, pass)
  <2>2. st.error = "none"
    BY <2>1 DEF FromSealedBackup, RestoreInPlace
  <2>3. PICK b \in backups : st = [error |-> "none", seed |-> b.input.seed,
                                  sid |-> b.input.sid, mode |-> b.input.mode,
                                  t |-> b.input.t]
    BY <1>0, <2>2, ImportIsExport
  <2>4. b.input.t \in Int /\ b.input.sid \in SeedIds
    BY <1>0, CounterAssumption DEF Backup, Input, Counters, CounterAssumption
  <2>5. UNCHANGED <<receipts, backups>>
    BY <2>1 DEF FromSealedBackup, RestoreInPlace, Create
  <2>6. CASE FromSealedBackup(p, text, pass)
    <3>1. /\ b.input.mode = "Sequential"
          /\ mode' = [mode EXCEPT ![p] = "Sequential"]
          /\ last' = [last EXCEPT ![p] = [NoCounters("Sequential") EXCEPT
                        ![b.input.sid] = RestoreLastIssued(@, b.input.t)]]
      BY <2>3, <2>6 DEF FromSealedBackup, Create
    <3>2. CASE p = o
      <4>1. last'[o] = [NoCounters("Sequential") EXCEPT
                          ![b.input.sid] = RestoreLastIssued(@, b.input.t)]
        BY <1>0, <3>1, <3>2
      <4>2. /\ s # b.input.sid => last'[o][s] = 0
            /\ s = b.input.sid => last'[o][s] = RestoreLastIssued(0, b.input.t)
        BY <2>4, <4>1 DEF NoCounters
      <4>3. s = b.input.sid /\ t <= b.input.t
        BY <2>4, <4>2 DEF RestoreLastIssued
      <4> QED
        BY <2>5, <3>1, <4>3 DEF Retained
    <3> QED
      BY <1>7, <2>5, <3>1, <3>2
  <2>7. CASE RestoreInPlace(p, text, pass)
    <3>1. /\ b.input.mode = mode[p] /\ UNCHANGED mode
          /\ last' = [last EXCEPT ![p][b.input.sid] =
                 IF mode[p] = "Sequential" THEN RestoreLastIssued(@, b.input.t) ELSE @]
      BY <2>3, <2>7 DEF RestoreInPlace
    <3>2. CASE p = o /\ s = b.input.sid
      <4>1. /\ b.input.mode = "Sequential"
            /\ last'[o][s] = RestoreLastIssued(last[o][s], b.input.t)
        BY <1>0, <2>4, <3>1, <3>2
      <4>2. CASE last'[o][s] = last[o][s]
        BY <1>1, <2>5, <3>1, <4>2
      <4>3. CASE last'[o][s] # last[o][s]
        <5>1. t <= b.input.t
          BY <4>1, <4>3 DEF RestoreLastIssued
        <5> QED
          BY <2>5, <3>2, <4>1, <5>1 DEF Retained
      <4> QED
        BY <4>2, <4>3
    <3>3. CASE ~ (p = o /\ s = b.input.sid)
      <4>1. last'[o][s] = last[o][s]
        BY <1>0, <2>4, <3>1, <3>3
      <4> QED
        BY <1>1, <2>5, <3>1, <4>1
    <3> QED
      BY <3>2, <3>3
  <2> QED
    BY <2>1, <2>6, <2>7
<1> QED
  BY <1>3, <1>4, <1>5, <1>6, <1>8, <1>9, <1>10, NextCases

\* No charge that is refused uses up a T: whatever a sequential counter went past
\* has its receipt, or was covered by a backup restored into it, over every facade
\* and any number of lost keys, restores and refusals (lib.rs:79-94).
THEOREM NoReservationIsLost == Spec => []ReservedIsRetained
<1>1. Init => ReservedIsRetained
  <2>1. None # "Sequential"
    BY NoneAssumption DEF NoneAssumption, Modes
  <2> QED
    BY <2>1 DEF Init, ReservedIsRetained
<1> QED
  BY <1>1, StepRetained, HandoverIInv, PTL DEF Spec

-----------------------------------------------------------------------------
(***************************************************************************)
(* Acceptances are paid for by charges                                     *)
(***************************************************************************)
\* The receipts that would still answer Valid to a code.
OpenWith(c) ==
  {r \in Objects \X Keys : receipts[r[1]][r[2]] = [code |-> c, consumed |-> FALSE]}

OpenCovered ==
  \A c \in Codes :
    IsFiniteSet(OpenWith(c)) /\ accepted[c] + Cardinality(OpenWith(c)) <= issued[c]

\* No step that neither charges nor accepts opens a receipt.
LEMMA FewerOpen ==
  ASSUME OpenCovered, TypeOK, UNCHANGED <<accepted, issued>>,
         \A o \in Objects, k \in Keys : receipts'[o][k] \in {receipts[o][k], None}
  PROVE  OpenCovered'
<1> SUFFICES ASSUME NEW c \in Codes
             PROVE  /\ IsFiniteSet(OpenWith(c)')
                    /\ accepted[c] + Cardinality(OpenWith(c)') <= issued[c]
  BY DEF OpenCovered
<1>1. [code |-> c, consumed |-> FALSE] # None
  <2>1. [code |-> c, consumed |-> FALSE] \in Receipt
    BY DEF Receipt
  <2> QED
    BY <2>1, NoneAssumption DEF NoneAssumption
<1>2. OpenWith(c)' \subseteq OpenWith(c)
  BY <1>1 DEF OpenWith
<1>3. /\ IsFiniteSet(OpenWith(c)') /\ Cardinality(OpenWith(c)') <= Cardinality(OpenWith(c))
  BY <1>2, FS_Subset DEF OpenCovered
<1>4. Cardinality(OpenWith(c)) \in Nat /\ Cardinality(OpenWith(c)') \in Nat
  BY <1>3, FS_CardinalityType DEF OpenCovered
<1> QED
  BY <1>3, <1>4 DEF OpenCovered, TypeOK

LEMMA ChargeCovered ==
  ASSUME OpenCovered, TypeOK, NEW o \in Objects, NEW s \in SeedIds, Charge(o, s),
         NextT(o, s) \in Counters
  PROVE  OpenCovered'
<1> DEFINE m == seeds[o][s].seed
           k == <<s, NextT(o, s)>>
           d == <<m, NextT(o, s)>>
           new == [code |-> d, consumed |-> FALSE]
<1>1. m \in Materials /\ k \in Keys /\ d \in Codes
  BY ChargeClear DEF Charge, Unseals, TypeOK, Blob, Keys, Codes
<1>2. /\ receipts' = [receipts EXCEPT ![o][k] = new]
      /\ issued' = [issued EXCEPT ![d] = @ + 1] /\ UNCHANGED accepted
  BY DEF Charge
<1> HIDE DEF k, d, m
<1> SUFFICES ASSUME NEW c \in Codes
             PROVE  /\ IsFiniteSet(OpenWith(c)')
                    /\ accepted'[c] + Cardinality(OpenWith(c)') <= issued'[c]
  BY DEF OpenCovered
<1>3. /\ IsFiniteSet(OpenWith(c)) /\ Cardinality(OpenWith(c)) \in Nat
      /\ accepted[c] + Cardinality(OpenWith(c)) <= issued[c]
  BY FS_CardinalityType DEF OpenCovered
<1>4. \A p \in Objects, q \in Keys :
        receipts'[p][q] = IF p = o /\ q = k THEN new ELSE receipts[p][q]
  <2> HIDE DEF new
  <2> QED
    BY <1>1, <1>2 DEF TypeOK
<1>5. CASE c = d
  <2>1. OpenWith(c)' \subseteq OpenWith(c) \cup {<<o, k>>}
    BY <1>4 DEF OpenWith
  <2>2. /\ IsFiniteSet(OpenWith(c) \cup {<<o, k>>})
        /\ Cardinality(OpenWith(c) \cup {<<o, k>>}) \in Nat
        /\ Cardinality(OpenWith(c) \cup {<<o, k>>}) <= Cardinality(OpenWith(c)) + 1
    <3> DEFINE O == OpenWith(c)
               x == <<o, k>>
    <3>1. IsFiniteSet(O) /\ Cardinality(O) \in Nat
      BY <1>3
    <3> HIDE DEF O, x
    <3>2. /\ IsFiniteSet(O \cup {x})
          /\ Cardinality(O \cup {x}) \in {Cardinality(O), Cardinality(O) + 1}
      BY <3>1, FS_AddElement
    <3>3. /\ IsFiniteSet(O \cup {x}) /\ Cardinality(O \cup {x}) \in Nat
          /\ Cardinality(O \cup {x}) <= Cardinality(O) + 1
      BY <3>1, <3>2
    <3> QED
      BY <3>3 DEF O, x
  <2>3. /\ IsFiniteSet(OpenWith(c)') /\ Cardinality(OpenWith(c)') \in Nat
        /\ Cardinality(OpenWith(c)') <= Cardinality(OpenWith(c)) + 1
    BY <1>3, <2>1, <2>2, FS_Subset, FS_CardinalityType
  <2>4. issued'[c] = issued[c] + 1 /\ accepted'[c] = accepted[c]
        /\ issued[c] \in Nat /\ accepted[c] \in Nat
    BY <1>1, <1>2, <1>5 DEF TypeOK
  <2> QED
    BY <1>3, <2>3, <2>4
<1>6. CASE c # d
  <2>1. OpenWith(c)' \subseteq OpenWith(c)
    BY <1>4, <1>6 DEF OpenWith
  <2>2. /\ IsFiniteSet(OpenWith(c)') /\ Cardinality(OpenWith(c)') \in Nat
        /\ Cardinality(OpenWith(c)') <= Cardinality(OpenWith(c))
    BY <1>3, <2>1, FS_Subset, FS_CardinalityType
  <2>3. issued'[c] = issued[c] /\ accepted'[c] = accepted[c]
        /\ issued[c] \in Nat /\ accepted[c] \in Nat
    BY <1>1, <1>2, <1>6 DEF TypeOK
  <2> QED
    BY <1>3, <2>2, <2>3
<1> QED
  BY <1>5, <1>6

LEMMA AcceptCovered ==
  ASSUME OpenCovered, TypeOK, NEW o \in Objects, NEW s \in SeedIds, NEW t \in Counters,
         NEW d \in Codes, Accept(o, s, t, d)
  PROVE  OpenCovered'
<1> DEFINE k == <<s, t>>
<1>1. /\ k \in Keys
      /\ receipts' = [receipts EXCEPT ![o][k].consumed = TRUE]
      /\ accepted' = [accepted EXCEPT ![d] = @ + 1] /\ UNCHANGED issued
  BY DEF Accept, Keys
<1>2. receipts[o][k] = [code |-> d, consumed |-> FALSE]
  <2>1. receipts[o][k] \in Receipt
    BY DEF Accept, Held, TypeOK, Keys
  <2>2. receipts[o][k].code = d /\ ~ receipts[o][k].consumed
    BY DEF Accept, Held, Outcome
  <2> QED
    BY <2>1, <2>2 DEF Receipt
<1> HIDE DEF k
<1> SUFFICES ASSUME NEW c \in Codes
             PROVE  /\ IsFiniteSet(OpenWith(c)')
                    /\ accepted'[c] + Cardinality(OpenWith(c)') <= issued'[c]
  BY DEF OpenCovered
<1>3. /\ IsFiniteSet(OpenWith(c)) /\ Cardinality(OpenWith(c)) \in Nat
      /\ accepted[c] + Cardinality(OpenWith(c)) <= issued[c]
  BY FS_CardinalityType DEF OpenCovered
<1>4. /\ \A p \in Objects, q \in Keys : ~ (p = o /\ q = k) => receipts'[p][q] = receipts[p][q]
      /\ receipts'[o][k].consumed = TRUE
  BY <1>1, <1>2 DEF TypeOK
<1>5. OpenWith(c)' \subseteq OpenWith(c) \ {<<o, k>>}
  BY <1>4 DEF OpenWith
<1>6. CASE c = d
  <2>1. <<o, k>> \in OpenWith(c)
    BY <1>1, <1>2, <1>6 DEF OpenWith
  <2>2. /\ IsFiniteSet(OpenWith(c) \ {<<o, k>>})
        /\ Cardinality(OpenWith(c) \ {<<o, k>>}) = Cardinality(OpenWith(c)) - 1
    BY <1>3, <2>1, FS_RemoveElement
  <2>3. /\ IsFiniteSet(OpenWith(c)') /\ Cardinality(OpenWith(c)') \in Nat
        /\ Cardinality(OpenWith(c)') <= Cardinality(OpenWith(c)) - 1
    BY <1>5, <2>2, FS_Subset, FS_CardinalityType
  <2>4. issued'[c] = issued[c] /\ accepted'[c] = accepted[c] + 1
        /\ issued[c] \in Nat /\ accepted[c] \in Nat
    BY <1>1, <1>6 DEF TypeOK
  <2> QED
    BY <1>3, <2>3, <2>4
<1>7. CASE c # d
  <2>1. /\ IsFiniteSet(OpenWith(c)') /\ Cardinality(OpenWith(c)') \in Nat
        /\ Cardinality(OpenWith(c)') <= Cardinality(OpenWith(c))
    BY <1>3, <1>5, FS_Subset, FS_CardinalityType
  <2>2. issued'[c] = issued[c] /\ accepted'[c] = accepted[c]
        /\ issued[c] \in Nat /\ accepted[c] \in Nat
    BY <1>1, <1>7 DEF TypeOK
  <2> QED
    BY <1>3, <2>1, <2>2
<1> QED
  BY <1>6, <1>7

LEMMA InitCovered == Init => OpenCovered
<1> SUFFICES ASSUME Init, NEW c \in Codes
             PROVE  /\ IsFiniteSet(OpenWith(c))
                    /\ accepted[c] + Cardinality(OpenWith(c)) <= issued[c]
  BY DEF OpenCovered
<1>1. [code |-> c, consumed |-> FALSE] # None
  <2>1. [code |-> c, consumed |-> FALSE] \in Receipt
    BY DEF Receipt
  <2> QED
    BY <2>1, NoneAssumption DEF NoneAssumption
<1>2. OpenWith(c) = {}
  BY <1>1 DEF Init, NoReceipts, OpenWith
<1> QED
  BY <1>2, FS_EmptySet DEF Init

LEMMA StepCovered == IInv /\ OpenCovered /\ [Next]_vars => OpenCovered'
<1> SUFFICES ASSUME IInv, OpenCovered, [Next]_vars PROVE OpenCovered'
  OBVIOUS
<1>0. TypeOK
  BY DEF IInv
<1>1. ASSUME UNCHANGED <<accepted, issued, receipts>> PROVE OpenCovered'
  BY <1>1 DEF OpenCovered, OpenWith
<1>2. CASE ChargeStep
  BY <1>0, <1>2, ChargeCovered, ChargeClear, NextTAdvances DEF ChargeStep, Charge, IInv
<1>3. CASE AcceptStep
  BY <1>0, <1>3, AcceptCovered DEF AcceptStep
<1>4. CASE FreeStep
  BY <1>0, <1>4, FewerOpen DEF FreeStep, Free, history, TypeOK, NoReceipts
<1>5. CASE Quiet
  BY <1>1, <1>5 DEF Quiet, objects, history
<1>6. CASE RegisterStep \/ CreateStep \/ TickStep \/ KeyLossStep \/ CaptureStep \/ WriteStep
  BY <1>1, <1>6
  DEF RegisterStep, CreateStep, TickStep, KeyLossStep, CaptureStep, WriteStep, Register,
      CreateEmpty, Create, Tick, LoseSealKey, Capture, WriteBackup, history
<1>7. CASE FromBackupStep \/ InPlaceStep
  BY <1>1, <1>7
  DEF FromBackupStep, InPlaceStep, FromSealedBackup, Create, RestoreInPlace
<1>8. CASE UNCHANGED vars
  BY <1>1, <1>8 DEF vars
<1> QED
  BY <1>2, <1>3, <1>4, <1>5, <1>6, <1>7, <1>8, NextCases

\* However many receivers share a forked material, Valid is answered for a code
\* at most as often as it was charged: an open receipt is spent by each
\* acceptance and made by a charge only (lib.rs:91-116).
THEOREM AcceptancesAreCharged == Spec => []AcceptedCoveredByCharges
<1>1. IInv /\ OpenCovered => AcceptedCoveredByCharges
  <2> SUFFICES ASSUME IInv, OpenCovered, NEW c \in Codes PROVE accepted[c] <= issued[c]
    BY DEF AcceptedCoveredByCharges
  <2>1. Cardinality(OpenWith(c)) \in Nat /\ accepted[c] + Cardinality(OpenWith(c)) <= issued[c]
    BY FS_CardinalityType DEF OpenCovered
  <2>2. accepted[c] \in Nat /\ issued[c] \in Nat
    BY DEF IInv, TypeOK
  <2> QED
    BY <2>1, <2>2
<1> QED
  BY <1>1, InitCovered, StepCovered, HandoverIInv, PTL DEF Spec

-----------------------------------------------------------------------------
(***************************************************************************)
(* What a forked material costs                                            *)
(***************************************************************************)
\* Only a restore forks a material, and what it restores was exported.
ForkedWereExported == \A m \in forked : \E b \in backups : b.input.seed = m

LEMMA ImportWasExported ==
  ASSUME TypeOK, NEW text \in Texts, NEW pass, Import(text, pass).error = "none"
  PROVE  \E b \in backups : b.input.seed = Import(text, pass).seed
<1>1. PICK b \in backups : text \in {TextOf(b)} \cup Unwritten(TextOf(b))
  BY DEF Texts
<1>2. b \in Backup /\ b.input \in Input
  BY <1>1 DEF Backup, TypeOK
<1> QED
  BY <1>1, <1>2, TextPayload, ImportExported

LEMMA StepExported == IInv /\ ForkedWereExported /\ [Next]_vars => ForkedWereExported'
<1> SUFFICES ASSUME IInv, ForkedWereExported, [Next]_vars PROVE ForkedWereExported'
  OBVIOUS
<1>0. TypeOK
  BY DEF IInv
<1>1. ASSUME UNCHANGED forked, backups \subseteq backups' PROVE ForkedWereExported'
  BY <1>1 DEF ForkedWereExported
<1>2. ASSUME NEW o \in Objects, NEW text \in Texts, NEW pass \in Passphrases,
             Import(text, pass).error = "none", Restore(o, Import(text, pass)),
             UNCHANGED backups
      PROVE  ForkedWereExported'
  <2>1. PICK b \in backups : b.input.seed = Import(text, pass).seed
    BY <1>0, <1>2, ImportWasExported
  <2>2. forked' \subseteq forked \cup {Import(text, pass).seed}
    BY <1>2 DEF Restore
  <2> QED
    BY <1>2, <2>1, <2>2 DEF ForkedWereExported
<1>3. CASE FromBackupStep
  BY <1>2, <1>3 DEF FromBackupStep, FromSealedBackup, Create
<1>4. CASE InPlaceStep
  BY <1>2, <1>4 DEF InPlaceStep, RestoreInPlace
<1>5. CASE Quiet
  BY <1>1, <1>5 DEF Quiet, history
<1>6. CASE RegisterStep \/ ChargeStep \/ AcceptStep \/ CreateStep
  BY <1>1, <1>6
  DEF RegisterStep, ChargeStep, AcceptStep, CreateStep, Register, Charge, Accept,
      CreateEmpty, Create
<1>7. CASE TickStep \/ KeyLossStep \/ FreeStep \/ CaptureStep \/ WriteStep
  BY <1>1, <1>7
  DEF TickStep, KeyLossStep, FreeStep, CaptureStep, WriteStep, Tick, LoseSealKey, Free,
      Capture, WriteBackup, history
<1>8. CASE UNCHANGED vars
  BY <1>1, <1>8 DEF vars
<1> QED
  BY <1>3, <1>4, <1>5, <1>6, <1>7, <1>8, NextCases

\* A code is charged twice only if a backup of its material was written: without
\* one, whatever is registered, charged, freed and re-created, and through which
\* facade, T is never used twice with a material (lib.rs:79-89).
THEOREM ReuseWasExported ==
  Spec => [](\A c \in Codes : issued[c] > 1 => \E b \in backups : b.input.seed = c[1])
<1>1. Init => ForkedWereExported
  BY DEF Init, ForkedWereExported
<1>2. IInv /\ ForkedWereExported =>
        \A c \in Codes : issued[c] > 1 => \E b \in backups : b.input.seed = c[1]
  <2> SUFFICES ASSUME IInv, ForkedWereExported, NEW c \in Codes, issued[c] > 1
               PROVE  c[1] \in forked
    BY DEF ForkedWereExported
  <2>1. issued[c] \in Nat
    BY DEF IInv, TypeOK
  <2> QED
    BY <2>1 DEF IInv, CodesUniqueUnlessForked
<1> QED
  BY <1>1, <1>2, StepExported, HandoverIInv, PTL DEF Spec

-----------------------------------------------------------------------------
(***************************************************************************)
(* How often a forked material can repeat a code.  A receiver that has not *)
(* yet passed T for the SeedId of a material may still charge with it at   *)
(* T, and only once in its life: its counter never comes back to T.        *)
(***************************************************************************)
Alive == {o \in Objects : mode[o] # None}
Behind(c) ==
  {o \in Alive : owner[c[1]] \in SeedIds /\ last[o][owner[c[1]]] < c[2]}

LivesCounted == IsFiniteSet(Alive) /\ Cardinality(Alive) <= lives
ReuseCounted == \A c \in Codes : issued[c] + Cardinality(Behind(c)) <= lives

LEMMA BehindFinite ==
  ASSUME LivesCounted, NEW c
  PROVE  /\ IsFiniteSet(Behind(c)) /\ Cardinality(Behind(c)) \in Nat
         /\ Cardinality(Behind(c)) <= Cardinality(Alive)
<1>1. Behind(c) \subseteq Alive
  BY DEF Behind
<1> QED
  BY <1>1, FS_Subset, FS_CardinalityType DEF LivesCounted

\* A step that neither charges, registers nor creates leaves no more receivers
\* behind a T than there were.
LEMMA FewerBehind ==
  ASSUME TypeOK, LivesCounted, ReuseCounted, UNCHANGED <<issued, owner, lives>>,
         \A o \in Objects : mode'[o] # None =>
           mode[o] # None /\ \A s \in SeedIds : last'[o][s] >= last[o][s],
         last' \in [Objects -> [SeedIds -> Counters \cup {-1}]]
  PROVE  LivesCounted' /\ ReuseCounted'
<1>1. Alive' \subseteq Alive
  BY DEF Alive
<1>2. LivesCounted'
  <2>1. /\ IsFiniteSet(Alive') /\ Cardinality(Alive') <= Cardinality(Alive)
        /\ Cardinality(Alive') \in Nat /\ Cardinality(Alive) \in Nat
    BY <1>1, FS_Subset, FS_CardinalityType DEF LivesCounted
  <2>2. lives \in Int
    BY BoundsAssumption DEF TypeOK, BoundsAssumption
  <2> QED
    BY <2>1, <2>2 DEF LivesCounted
<1>3. ASSUME NEW c \in Codes
      PROVE  issued'[c] + Cardinality(Behind(c)') <= lives'
  <2>1. /\ \A o \in Objects, s \in SeedIds : last[o][s] \in Int /\ last'[o][s] \in Int
        /\ c[2] \in Int
    BY CounterAssumption DEF TypeOK, Counters, Codes, CounterAssumption
  <2>2. Behind(c)' \subseteq Behind(c)
    BY <1>1, <2>1 DEF Behind, Alive
  <2>3. /\ Cardinality(Behind(c)') <= Cardinality(Behind(c))
        /\ Cardinality(Behind(c)') \in Nat /\ Cardinality(Behind(c)) \in Nat
    BY <2>2, BehindFinite, FS_Subset, FS_CardinalityType
  <2>4. issued[c] \in Nat /\ lives \in Int
    BY BoundsAssumption DEF TypeOK, BoundsAssumption
  <2> QED
    BY <2>3, <2>4 DEF ReuseCounted
<1> QED
  BY <1>2, <1>3 DEF ReuseCounted

\* A receiver is created behind every T; it counts one life more.
LEMMA CreateBehind ==
  ASSUME TypeOK, LivesCounted, ReuseCounted, NEW o \in Objects,
         UNCHANGED <<issued, owner>>, lives' = lives + 1,
         \A p \in Objects : p # o => mode'[p] = mode[p] /\ last'[p] = last[p]
  PROVE  LivesCounted' /\ ReuseCounted'
<1>0. lives \in Int
  BY BoundsAssumption DEF TypeOK, BoundsAssumption
<1>1. Alive' \subseteq Alive \cup {o}
  BY DEF Alive
<1>2. ASSUME NEW S, NEW T, IsFiniteSet(S), T \subseteq S \cup {o}
      PROVE  /\ IsFiniteSet(T) /\ Cardinality(S) \in Nat /\ Cardinality(T) \in Nat
             /\ Cardinality(T) <= Cardinality(S) + 1
  <2>1. /\ IsFiniteSet(S \cup {o}) /\ Cardinality(S) \in Nat
        /\ Cardinality(S \cup {o}) \in {Cardinality(S), Cardinality(S) + 1}
    BY <1>2, FS_AddElement, FS_CardinalityType
  <2>2. /\ IsFiniteSet(T) /\ Cardinality(T) <= Cardinality(S \cup {o})
        /\ Cardinality(T) \in Nat
    BY <1>2, <2>1, FS_Subset, FS_CardinalityType
  <2> QED
    BY <2>1, <2>2
<1>3. LivesCounted'
  <2>1. /\ IsFiniteSet(Alive') /\ Cardinality(Alive) \in Nat /\ Cardinality(Alive') \in Nat
        /\ Cardinality(Alive') <= Cardinality(Alive) + 1
    BY <1>1, <1>2 DEF LivesCounted
  <2> QED
    BY <1>0, <2>1 DEF LivesCounted
<1>4. ASSUME NEW c \in Codes
      PROVE  issued'[c] + Cardinality(Behind(c)') <= lives'
  <2>1. Behind(c)' \subseteq Behind(c) \cup {o}
    BY DEF Behind, Alive
  <2>2. /\ Cardinality(Behind(c)) \in Nat /\ Cardinality(Behind(c)') \in Nat
        /\ Cardinality(Behind(c)') <= Cardinality(Behind(c)) + 1
    BY <1>2, <2>1, BehindFinite
  <2>3. issued[c] \in Nat /\ issued[c] + Cardinality(Behind(c)) <= lives
    BY DEF TypeOK, ReuseCounted
  <2> QED
    BY <1>0, <2>2, <2>3
<1> QED
  BY <1>3, <1>4 DEF ReuseCounted

\* A material that has just been drawn has not been charged with.
LEMMA RegisterBehind ==
  ASSUME IInv, LivesCounted, ReuseCounted, NEW o \in Objects, NEW s \in SeedIds,
         NEW m \in Materials, Register(o, s, m)
  PROVE  LivesCounted' /\ ReuseCounted'
<1>0. lives \in Int
  BY BoundsAssumption DEF IInv, TypeOK, BoundsAssumption
<1>1. /\ owner[m] = None /\ owner' = [owner EXCEPT ![m] = s]
      /\ UNCHANGED <<mode, last, lives, issued, highest>>
  BY DEF Register
<1>2. Alive' = Alive /\ LivesCounted'
  BY <1>1 DEF Alive, LivesCounted
<1>3. ASSUME NEW c \in Codes
      PROVE  issued'[c] + Cardinality(Behind(c)') <= lives'
  <2>1. c[1] \in Materials /\ c[2] \in Counters /\ c = <<c[1], c[2]>>
    BY DEF Codes
  <2>2. CASE c[1] = m
    <3>1. highest[m] = -1
      BY <1>1 DEF IInv, UndrawnUncharged
    <3>2. issued[c] \in Nat /\ ~ issued[c] > 0
      BY <2>1, <2>2, <3>1, CounterAssumption
      DEF IInv, TypeOK, IssuedBelowHighest, Counters, CounterAssumption
    <3>3. /\ Cardinality(Behind(c)') \in Nat
          /\ Cardinality(Behind(c)') <= Cardinality(Alive)
      <4>1. Behind(c)' \subseteq Alive
        BY <1>2 DEF Behind
      <4> QED
        BY <4>1, FS_Subset, FS_CardinalityType DEF LivesCounted
    <3>4. Cardinality(Alive) \in Nat /\ Cardinality(Alive) <= lives
      BY FS_CardinalityType DEF LivesCounted
    <3> QED
      BY <1>0, <1>1, <3>2, <3>3, <3>4
  <2>3. CASE c[1] # m
    <3>1. owner'[c[1]] = owner[c[1]]
      BY <1>1, <2>1, <2>3 DEF IInv, TypeOK
    <3>2. Behind(c)' = Behind(c)
      BY <1>1, <1>2, <3>1 DEF Behind
    <3> QED
      BY <1>1, <3>2 DEF ReuseCounted
  <2> QED
    BY <2>2, <2>3
<1> QED
  BY <1>2, <1>3 DEF ReuseCounted

\* A charge passes the T it uses: its receiver is behind that T no longer.
LEMMA ChargeBehind ==
  ASSUME IInv, LivesCounted, ReuseCounted, NEW o \in Objects, NEW s \in SeedIds,
         Charge(o, s)
  PROVE  LivesCounted' /\ ReuseCounted'
<1> DEFINE t == NextT(o, s)
           m == seeds[o][s].seed
           d == <<m, t>>
<1>0. lives \in Int
  BY BoundsAssumption DEF IInv, TypeOK, BoundsAssumption
<1>1. /\ mode[o] # None /\ Unseals(o, s) /\ NextError(o, s) = "none"
      /\ last' = [last EXCEPT ![o][s] = t]
      /\ issued' = [issued EXCEPT ![d] = @ + 1]
      /\ UNCHANGED <<mode, lives, owner>>
  BY ChargeClear DEF Charge
<1>2. t \in Counters /\ t > last[o][s]
  BY <1>1, NextTAdvances DEF IInv
<1>3. m \in Materials /\ owner[m] = s /\ d \in Codes
  BY <1>1, <1>2 DEF Unseals, IInv, TypeOK, Blob, SeedsOwned, Codes
<1>4. /\ \A p \in Objects, q \in SeedIds : last[p][q] \in Int
      /\ t \in Int
  BY <1>2, CounterAssumption DEF IInv, TypeOK, Counters, CounterAssumption
<1> HIDE DEF t, m
<1>5. \A p \in Objects, q \in SeedIds :
        last'[p][q] = IF p = o /\ q = s THEN t ELSE last[p][q]
  BY <1>1 DEF IInv, TypeOK
<1>6. Alive' = Alive /\ LivesCounted'
  BY <1>1 DEF Alive, LivesCounted
<1>7. ASSUME NEW c \in Codes
      PROVE  issued'[c] + Cardinality(Behind(c)') <= lives'
  <2>0. c[2] \in Int /\ issued[c] \in Nat /\ issued[c] + Cardinality(Behind(c)) <= lives
    BY CounterAssumption DEF Codes, Counters, CounterAssumption, IInv, TypeOK, ReuseCounted
  <2>1. Behind(c)' \subseteq Behind(c)
    BY <1>1, <1>2, <1>4, <1>5, <1>6, <2>0 DEF Behind, Alive
  <2>2. IsFiniteSet(Behind(c)) /\ Cardinality(Behind(c)) \in Nat
    BY BehindFinite
  <2>3. CASE c = d
    <3>1. c[1] = m /\ c[2] = t
      BY <2>3
    <3>2. o \in Behind(c) /\ o \notin Behind(c)'
      BY <1>1, <1>2, <1>3, <1>4, <1>5, <3>1 DEF Behind, Alive
    <3>3. /\ IsFiniteSet(Behind(c) \ {o})
          /\ Cardinality(Behind(c) \ {o}) = Cardinality(Behind(c)) - 1
      BY <2>2, <3>2, FS_RemoveElement
    <3>4. Behind(c)' \subseteq Behind(c) \ {o}
      BY <2>1, <3>2
    <3>5. /\ Cardinality(Behind(c)') \in Nat
          /\ Cardinality(Behind(c)') <= Cardinality(Behind(c)) - 1
      BY <3>3, <3>4, FS_Subset, FS_CardinalityType
    <3>6. issued'[c] = issued[c] + 1
      BY <1>1, <1>3, <2>3 DEF IInv, TypeOK
    <3> QED
      BY <1>0, <1>1, <2>0, <2>2, <3>5, <3>6
  <2>4. CASE c # d
    <3>1. issued'[c] = issued[c]
      BY <1>1, <2>4 DEF IInv, TypeOK
    <3>2. /\ Cardinality(Behind(c)') \in Nat
          /\ Cardinality(Behind(c)') <= Cardinality(Behind(c))
      BY <2>1, <2>2, FS_Subset, FS_CardinalityType
    <3> QED
      BY <1>0, <1>1, <2>0, <2>2, <3>1, <3>2
  <2> QED
    BY <2>3, <2>4
<1> QED
  BY <1>6, <1>7 DEF ReuseCounted

LEMMA StepBehind ==
  IInv /\ LivesCounted /\ ReuseCounted /\ [Next]_vars => LivesCounted' /\ ReuseCounted'
<1> SUFFICES ASSUME IInv, LivesCounted, ReuseCounted, [Next]_vars
             PROVE  LivesCounted' /\ ReuseCounted'
  OBVIOUS
<1>0. TypeOK /\ TypeOK'
  BY StepIInv DEF IInv
<1>1. ASSUME UNCHANGED <<issued, owner, lives>>,
             \A o \in Objects : mode'[o] # None => mode[o] # None
      PROVE  LivesCounted' /\ ReuseCounted'
  <2>1. last' \in [Objects -> [SeedIds -> Counters \cup {-1}]]
    BY <1>0 DEF TypeOK
  <2>2. \A o \in Objects : mode'[o] # None =>
          mode[o] # None /\ \A s \in SeedIds : last'[o][s] >= last[o][s]
    BY <1>1, StepForward
  <2> QED
    BY <1>0, <1>1, <2>1, <2>2, FewerBehind
<1>2. ASSUME NEW o \in Objects, NEW md, NEW now, Create(o, md, now),
             \E f : last' = [last EXCEPT ![o] = f]
      PROVE  LivesCounted' /\ ReuseCounted'
  <2>1. \A p \in Objects : p # o => mode'[p] = mode[p] /\ last'[p] = last[p]
    BY <1>0, <1>2 DEF Create, TypeOK
  <2>2. UNCHANGED <<issued, owner>> /\ lives' = lives + 1
    BY <1>2 DEF Create
  <2> QED
    BY <1>0, <2>1, <2>2, CreateBehind
<1>3. CASE RegisterStep
  BY <1>3, RegisterBehind DEF RegisterStep
<1>4. CASE ChargeStep
  BY <1>4, ChargeBehind DEF ChargeStep
<1>5. CASE CreateStep
  BY <1>2, <1>5 DEF CreateStep, CreateEmpty
<1>6. CASE FromBackupStep
  BY <1>2, <1>6 DEF FromBackupStep, FromSealedBackup
<1>7. CASE FreeStep
  BY <1>0, <1>1, <1>7 DEF FreeStep, Free, history, TypeOK
<1>8. CASE Quiet
  BY <1>1, <1>8 DEF Quiet, objects, history
<1>9. CASE AcceptStep \/ TickStep \/ KeyLossStep
  BY <1>1, <1>9 DEF AcceptStep, TickStep, KeyLossStep, Accept, Tick, LoseSealKey, history
<1>10. CASE CaptureStep \/ WriteStep \/ InPlaceStep
  BY <1>1, <1>10
  DEF CaptureStep, WriteStep, InPlaceStep, Capture, WriteBackup, RestoreInPlace, history
<1>11. CASE UNCHANGED vars
  BY <1>1, <1>11 DEF vars
<1> QED
  BY <1>3, <1>4, <1>5, <1>6, <1>7, <1>8, <1>9, <1>10, <1>11, NextCases

LEMMA InitBehind == Init => LivesCounted /\ ReuseCounted
<1> SUFFICES ASSUME Init PROVE LivesCounted /\ ReuseCounted
  OBVIOUS
<1>1. Alive = {} /\ \A c \in Codes : Behind(c) = {}
  BY DEF Init, Alive, Behind
<1>2. IsFiniteSet({}) /\ Cardinality({}) = 0
  BY FS_EmptySet
<1>3. lives = 0 /\ \A c \in Codes : issued[c] = 0
  BY DEF Init
<1> QED
  BY <1>1, <1>2, <1>3 DEF LivesCounted, ReuseCounted

\* However a backup is misused - restored into several receivers, or when it is
\* older than the last charge - a code is neither charged nor accepted more often
\* than receivers were created: each receiver, in its life, charges at most once
\* with a material at a T (uniffi lib.rs:135-137, monotonic_counter.rs:24-26).
THEOREM ForkedReuseIsBounded ==
  Spec => [](AcceptedCoveredByCharges
               /\ \A c \in Codes : issued[c] <= lives /\ accepted[c] <= lives)
<1>1. IInv /\ ReuseCounted /\ LivesCounted /\ AcceptedCoveredByCharges =>
        /\ AcceptedCoveredByCharges
        /\ \A c \in Codes : issued[c] <= lives /\ accepted[c] <= lives
  <2> SUFFICES ASSUME IInv, ReuseCounted, LivesCounted, AcceptedCoveredByCharges,
                      NEW c \in Codes
               PROVE  issued[c] <= lives /\ accepted[c] <= lives
    OBVIOUS
  <2>1. Cardinality(Behind(c)) \in Nat /\ issued[c] + Cardinality(Behind(c)) <= lives
    BY BehindFinite DEF ReuseCounted
  <2>2. issued[c] \in Nat /\ accepted[c] \in Nat /\ lives \in Int
    BY BoundsAssumption DEF IInv, TypeOK, BoundsAssumption
  <2>3. accepted[c] <= issued[c]
    BY DEF AcceptedCoveredByCharges
  <2> QED
    BY <2>1, <2>2, <2>3
<1> QED
  BY <1>1, InitBehind, StepBehind, HandoverIInv, AcceptancesAreCharged, PTL DEF Spec

-----------------------------------------------------------------------------
(***************************************************************************)
(* The receipts a receiver retains                                         *)
(***************************************************************************)
ReceiptsOf(o) == INSTANCE ReceiptLedger WITH ledger <- receipts[o], Volatile <- TRUE

\* A receipt is filed under the SeedId and the T of its code, and the counter of
\* the receiver that retains it has reached that T.
ReceiptsFiled ==
  \A o \in Objects, k \in Keys : receipts[o][k] # None =>
    /\ mode[o] # None
    /\ owner[receipts[o][k].code[1]] = k[1]
    /\ receipts[o][k].code[2] = k[2]
    /\ k[2] <= last[o][k[1]]

LEMMA FiledFree ==
  ASSUME TypeOK, ReceiptsFiled, NEW o \in Objects, NEW s \in SeedIds, NEW t \in Counters,
         t > last[o][s]
  PROVE  /\ receipts[o][<<s, t>>] = None
         /\ \A m \in Materials, k \in Keys : receipts[o][k] # None /\ owner[m] = s =>
              receipts[o][k].code # <<m, t>>
<1>1. last[o][s] \in Int /\ t \in Int
  BY CounterAssumption DEF TypeOK, Counters, CounterAssumption
<1>2. receipts[o][<<s, t>>] = None
  BY <1>1 DEF ReceiptsFiled, Keys
<1>3. ASSUME NEW m \in Materials, NEW k \in Keys, receipts[o][k] # None, owner[m] = s,
             receipts[o][k].code = <<m, t>>
      PROVE  FALSE
  <2>1. k[1] = s /\ k[2] = t /\ k[2] <= last[o][k[1]]
    BY <1>3 DEF ReceiptsFiled
  <2> QED
    BY <1>1, <2>1
<1> QED
  BY <1>2, <1>3

\* A step that writes no receipt, and takes no counter with receipts back, keeps
\* them filed.
LEMMA SameFiled ==
  ASSUME TypeOK, TypeOK', ReceiptsFiled, UNCHANGED receipts,
         \A m \in Materials : owner[m] # None => owner'[m] = owner[m],
         \A o \in Objects : mode[o] # None =>
           mode'[o] # None /\ \A s \in SeedIds : last'[o][s] >= last[o][s]
  PROVE  ReceiptsFiled'
<1> SUFFICES ASSUME NEW o \in Objects, NEW k \in Keys, receipts[o][k] # None
             PROVE  /\ mode'[o] # None
                    /\ owner'[receipts[o][k].code[1]] = k[1]
                    /\ receipts[o][k].code[2] = k[2]
                    /\ k[2] <= last'[o][k[1]]
  BY DEF ReceiptsFiled
<1>1. /\ mode[o] # None /\ owner[receipts[o][k].code[1]] = k[1]
      /\ receipts[o][k].code[2] = k[2] /\ k[2] <= last[o][k[1]]
  BY DEF ReceiptsFiled
<1>2. k[1] \in SeedIds /\ k[2] \in Counters /\ k[1] # None
  BY NoneAssumption DEF Keys, NoneAssumption
<1>3. receipts[o][k] \in Receipt
  BY DEF TypeOK
<1>4. receipts[o][k].code[1] \in Materials
  BY <1>3 DEF Receipt, Codes
<1>5. k[2] \in Int /\ last[o][k[1]] \in Int /\ last'[o][k[1]] \in Int
  BY <1>2, CounterAssumption DEF TypeOK, Counters, CounterAssumption
<1>6. last'[o][k[1]] >= last[o][k[1]]
  BY <1>1, <1>2
<1> QED
  BY <1>1, <1>2, <1>4, <1>5, <1>6

LEMMA ChargeFiled ==
  ASSUME IInv, ReceiptsFiled, NEW o \in Objects, NEW s \in SeedIds, Charge(o, s)
  PROVE  ReceiptsFiled' /\ \E k \in Keys, c \in Codes : ReceiptsOf(o)!Enter(k, c)
<1> DEFINE t == NextT(o, s)
           m == seeds[o][s].seed
           kk == <<s, t>>
           new == [code |-> <<m, t>>, consumed |-> FALSE]
<1>1. /\ mode[o] # None /\ Unseals(o, s) /\ NextError(o, s) = "none"
      /\ last' = [last EXCEPT ![o][s] = t]
      /\ receipts' = [receipts EXCEPT ![o][kk] = new]
      /\ UNCHANGED <<mode, owner>>
  BY ChargeClear DEF Charge
<1>2. t \in Counters /\ t > last[o][s]
  BY <1>1, NextTAdvances DEF IInv
<1>3. m \in Materials /\ owner[m] = s
  BY <1>1 DEF Unseals, IInv, TypeOK, Blob, SeedsOwned
<1> HIDE DEF t, m
<1>4. kk \in Keys /\ <<m, t>> \in Codes
  BY <1>2, <1>3 DEF Keys, Codes
<1>5. /\ t \in Int
      /\ \A p \in Objects, q \in SeedIds : last[p][q] \in Int
  BY <1>2, CounterAssumption DEF IInv, TypeOK, Counters, CounterAssumption
<1>6. \A p \in Objects, q \in SeedIds :
        last'[p][q] = IF p = o /\ q = s THEN t ELSE last[p][q]
  BY <1>1 DEF IInv, TypeOK
<1>7. /\ new.code[1] = m /\ new.code[2] = t
      /\ kk[1] = s /\ kk[2] = t
  OBVIOUS
<1>8. /\ receipts'[o] = [receipts[o] EXCEPT ![kk] = new]
      /\ \A p \in Objects, k \in Keys :
           receipts'[p][k] = IF p = o /\ k = kk THEN new ELSE receipts[p][k]
  <2> HIDE DEF kk, new
  <2> QED
    BY <1>1, <1>4 DEF IInv, TypeOK
<1>9. ReceiptsFiled'
  <2> SUFFICES ASSUME NEW p \in Objects, NEW k \in Keys, receipts'[p][k] # None
               PROVE  /\ mode[p] # None
                      /\ owner[receipts'[p][k].code[1]] = k[1]
                      /\ receipts'[p][k].code[2] = k[2]
                      /\ k[2] <= last'[p][k[1]]
    BY <1>1 DEF ReceiptsFiled
  <2>1. CASE p = o /\ k = kk
    <3>1. receipts'[p][k] = new
      BY <1>8, <2>1
    <3>2. last'[p][k[1]] = t /\ k[2] = t
      BY <1>6, <1>7, <2>1
    <3> HIDE DEF new, kk
    <3> QED
      BY <1>1, <1>3, <1>5, <1>7, <2>1, <3>1, <3>2
  <2>2. CASE ~ (p = o /\ k = kk)
    <3>1. receipts'[p][k] = receipts[p][k]
      BY <1>8, <2>2
    <3>2. k[1] \in SeedIds /\ k[2] \in Int
      BY CounterAssumption DEF Keys, Counters, CounterAssumption
    <3>3. last'[p][k[1]] >= last[p][k[1]] /\ last'[p][k[1]] \in Int
      BY <1>2, <1>5, <1>6, <3>2
    <3> QED
      BY <1>5, <3>1, <3>2, <3>3 DEF ReceiptsFiled
  <2> QED
    BY <2>1, <2>2
<1>10. ReceiptsOf(o)!Enter(kk, <<m, t>>)
  <2>1. /\ receipts[o][kk] = None
        /\ \A k \in Keys : receipts[o][k] # None => receipts[o][k].code # <<m, t>>
    BY <1>2, <1>3, FiledFree DEF IInv
  <2> QED
    BY <1>8, <2>1 DEF ReceiptsOf!Enter
<1> QED
  BY <1>4, <1>9, <1>10

LEMMA AcceptFiled ==
  ASSUME IInv, ReceiptsFiled, NEW o \in Objects, NEW s \in SeedIds, NEW t \in Counters,
         NEW c \in Codes, Accept(o, s, t, c)
  PROVE  ReceiptsFiled' /\ \E k \in Keys : ReceiptsOf(o)!Settle(k)
<1> DEFINE kk == <<s, t>>
           new == [receipts[o][kk] EXCEPT !.consumed = TRUE]
<1>1. /\ kk \in Keys /\ receipts[o][kk] # None /\ ~ receipts[o][kk].consumed
      /\ receipts' = [receipts EXCEPT ![o][kk] = new]
      /\ UNCHANGED <<mode, owner, last>>
  BY DEF Accept, Held, Outcome, Keys
<1>2. receipts[o][kk] \in Receipt
  BY <1>1 DEF IInv, TypeOK
<1>3. new.code = receipts[o][kk].code
  BY <1>2 DEF Receipt
<1>4. /\ receipts'[o] = [receipts[o] EXCEPT ![kk] = new]
      /\ \A p \in Objects, k \in Keys :
           receipts'[p][k] = IF p = o /\ k = kk THEN new ELSE receipts[p][k]
  <2> HIDE DEF kk, new
  <2> QED
    BY <1>1 DEF IInv, TypeOK
<1>5. ReceiptsOf(o)!Settle(kk)
  BY <1>1, <1>4 DEF ReceiptsOf!Settle
<1> HIDE DEF kk, new
<1>6. ReceiptsFiled'
  BY <1>1, <1>3, <1>4 DEF ReceiptsFiled
<1> QED
  BY <1>1, <1>5, <1>6

\* The receipts of a receiver that is freed are lost as a whole; those of the
\* others stay.
LEMMA FreeFiled ==
  ASSUME IInv, ReceiptsFiled, NEW o \in Objects, Free(o)
  PROVE  ReceiptsFiled' /\ ReceiptsOf(o)!Lose
<1>1. /\ receipts' = [receipts EXCEPT ![o] = NoReceipts]
      /\ mode' = [mode EXCEPT ![o] = None]
      /\ last' = [last EXCEPT ![o] = NoCounters("Sequential")]
      /\ UNCHANGED owner
  BY DEF Free, history
<1>2. receipts'[o] = NoReceipts /\ \A k \in Keys : receipts'[o][k] = None
  BY <1>1 DEF IInv, TypeOK, NoReceipts
<1>3. ReceiptsOf(o)!Lose
  BY <1>2 DEF NoReceipts, ReceiptsOf!Lose
<1>4. \A p \in Objects : p # o =>
        receipts'[p] = receipts[p] /\ mode'[p] = mode[p] /\ last'[p] = last[p]
  BY <1>1 DEF IInv, TypeOK
<1>5. ReceiptsFiled'
  BY <1>1, <1>2, <1>4 DEF ReceiptsFiled
<1> QED
  BY <1>3, <1>5

\* Each step is, for the receipts of every receiver, a step of their ledger.
LEMMA StepFiled ==
  IInv /\ ReceiptsFiled /\ [Next]_vars =>
    ReceiptsFiled' /\ \A o \in Objects : [ReceiptsOf(o)!Next]_(receipts[o])
<1> SUFFICES ASSUME IInv, ReceiptsFiled, [Next]_vars
             PROVE  /\ ReceiptsFiled'
                    /\ \A o \in Objects : [ReceiptsOf(o)!Next]_(receipts[o])
  OBVIOUS
<1>0. TypeOK /\ TypeOK'
  BY StepIInv DEF IInv
<1>1. ASSUME UNCHANGED <<receipts, owner>>,
             \A o \in Objects : mode[o] # None => mode'[o] # None
      PROVE  /\ ReceiptsFiled'
             /\ \A o \in Objects : [ReceiptsOf(o)!Next]_(receipts[o])
  <2>1. \A o \in Objects : mode[o] # None =>
          mode'[o] # None /\ \A s \in SeedIds : last'[o][s] >= last[o][s]
    BY <1>1, StepForward
  <2>2. ReceiptsFiled'
    BY <1>0, <1>1, <2>1, SameFiled
  <2> QED
    BY <1>1, <2>2
<1>2. ASSUME NEW o \in Objects, ReceiptsFiled', ReceiptsOf(o)!Next,
             \A p \in Objects : p # o => receipts'[p] = receipts[p]
      PROVE  /\ ReceiptsFiled'
             /\ \A p \in Objects : [ReceiptsOf(p)!Next]_(receipts[p])
  BY <1>2
<1>3. CASE RegisterStep
  <2>1. UNCHANGED <<receipts, mode, last>>
    BY <1>3 DEF RegisterStep, Register
  <2>2. \A m \in Materials : owner[m] # None => owner'[m] = owner[m]
    BY <1>0, <1>3 DEF RegisterStep, Register, TypeOK
  <2>3. \A o \in Objects : mode[o] # None =>
          mode'[o] # None /\ \A s \in SeedIds : last'[o][s] >= last[o][s]
    BY <2>1, StepForward
  <2>4. ReceiptsFiled'
    BY <1>0, <2>1, <2>2, <2>3, SameFiled
  <2> QED
    BY <2>1, <2>4
<1>4. CASE ChargeStep
  <2>1. PICK o \in Objects, s \in SeedIds : Charge(o, s)
    BY <1>4 DEF ChargeStep
  <2>2. ReceiptsFiled' /\ ReceiptsOf(o)!Next
    BY <2>1, ChargeFiled DEF ReceiptsOf!Next
  <2>3. \A p \in Objects : p # o => receipts'[p] = receipts[p]
    BY <1>0, <2>1 DEF Charge, TypeOK
  <2> QED
    BY <1>2, <2>2, <2>3
<1>5. CASE AcceptStep
  <2>1. PICK o \in Objects, s \in SeedIds, t \in Counters, c \in Codes : Accept(o, s, t, c)
    BY <1>5 DEF AcceptStep
  <2>2. ReceiptsFiled' /\ ReceiptsOf(o)!Next
    BY <2>1, AcceptFiled DEF ReceiptsOf!Next
  <2>3. \A p \in Objects : p # o => receipts'[p] = receipts[p]
    BY <1>0, <2>1 DEF Accept, TypeOK
  <2> QED
    BY <1>2, <2>2, <2>3
<1>6. CASE FreeStep
  <2>1. PICK o \in Objects : Free(o)
    BY <1>6 DEF FreeStep
  <2>2. ReceiptsFiled' /\ ReceiptsOf(o)!Next
    BY <2>1, FreeFiled DEF ReceiptsOf!Next
  <2>3. \A p \in Objects : p # o => receipts'[p] = receipts[p]
    BY <1>0, <2>1 DEF Free, TypeOK
  <2> QED
    BY <1>2, <2>2, <2>3
<1>7. ASSUME NEW o \in Objects, NEW md \in Modes, NEW now, Create(o, md, now)
      PROVE  UNCHANGED <<receipts, owner>> /\ \A p \in Objects : mode[p] # None => mode'[p] # None
  <2>1. mode' = [mode EXCEPT ![o] = md] /\ md # None
    BY <1>7, NoneAssumption DEF Create, NoneAssumption
  <2> QED
    BY <1>0, <1>7, <2>1 DEF Create, TypeOK
<1>8. CASE CreateStep
  BY <1>1, <1>7, <1>8 DEF CreateStep, CreateEmpty
<1>9. CASE FromBackupStep
  BY <1>1, <1>7, <1>9 DEF FromBackupStep, FromSealedBackup, Modes
<1>10. CASE Quiet
  BY <1>1, <1>10 DEF Quiet, objects, history
<1>11. CASE TickStep \/ KeyLossStep \/ CaptureStep
  BY <1>1, <1>11 DEF TickStep, KeyLossStep, CaptureStep, Tick, LoseSealKey, Capture, history
<1>12. CASE WriteStep \/ InPlaceStep
  BY <1>1, <1>12 DEF WriteStep, InPlaceStep, WriteBackup, RestoreInPlace, history
<1>13. CASE UNCHANGED vars
  BY <1>1, <1>13 DEF vars
<1> QED
  BY <1>3, <1>4, <1>5, <1>6, <1>8, <1>9, <1>10, <1>11, <1>12, <1>13, NextCases

LEMMA InitFiled == Init => ReceiptsFiled /\ \A o \in Objects : ReceiptsOf(o)!Init
<1> SUFFICES ASSUME Init PROVE ReceiptsFiled /\ \A o \in Objects : ReceiptsOf(o)!Init
  OBVIOUS
<1>1. \A o \in Objects : receipts[o] = [k \in Keys |-> None]
  BY DEF Init, NoReceipts
<1> QED
  BY <1>1 DEF ReceiptsFiled, ReceiptsOf!Init

\* Each receiver, whatever the others do and whatever is restored into it, keeps
\* an append-only ledger of receipts until it is freed: a charge enters a key
\* never used with a code no entry holds, an acceptance settles an open entry,
\* nothing reopens, replaces or removes one (lib.rs:79-116).
THEOREM EachReceiverKeepsALedger ==
  ASSUME NEW o \in Objects
  PROVE  Spec => ReceiptsOf(o)!Spec
<1>1. Init => ReceiptsOf(o)!Init
  BY InitFiled
<1>2. IInv /\ ReceiptsFiled /\ [Next]_vars => [ReceiptsOf(o)!Next]_(receipts[o])
  BY StepFiled
<1>3. Init => ReceiptsFiled
  BY InitFiled
<1>4. IInv /\ ReceiptsFiled /\ [Next]_vars => ReceiptsFiled'
  BY StepFiled
<1> QED
  BY <1>1, <1>2, <1>3, <1>4, HandoverIInv, PTL DEF Spec, ReceiptsOf!Spec

-----------------------------------------------------------------------------
(***************************************************************************)
(* The transport field of a charge                                         *)
(***************************************************************************)
LEMMA IdsAreSymbols ==
  ASSUME NEW s \in SeedIds
  PROVE  LET S == STRING \cup FieldSymbols \cup {"a"}
         IN /\ FieldSymbols \subseteq S /\ s \in Seq(S) /\ ValidSeedId(s)
            /\ "a" \in S \ {Foreign}
<1> DEFINE S == STRING \cup FieldSymbols \cup {"a"}
<1>1. s \in Seq(STRING) /\ ValidSeedId(s)
  BY IdsAssumption DEF IdsAssumption
<1>2. s \in [1..Len(s) -> STRING] /\ Len(s) \in Nat
  BY <1>1, LenProperties
<1>3. s \in Seq(S)
  <2>1. s \in [1..Len(s) -> S]
    BY <1>2
  <2> QED
    BY <1>2, <2>1, SeqDef
<1> QED
  BY <1>1, <1>3 DEF Foreign

\* What generate_charge encodes for a registered SeedId, the payer's parse and
\* the firmware's parse_into read back whole, whatever the length of the
\* identifier; encode and encode_into write the same bytes.
THEOREM FieldsRoundTrip == Spec => []FieldRoundTrip
<1>1. FieldRoundTrip
  BY IdsAreSymbols, RoundTrip DEF FieldRoundTrip
<1> QED
  BY <1>1, PTL

LEMMA WireLength ==
  ASSUME NEW s \in SeedIds, NEW field \in Wire(s)
  PROVE  Len(field) \in Nat
<1> DEFINE S == STRING \cup FieldSymbols \cup {"a"}
           f == Encode(s, "a")
<1>1. f \in Seq(S) /\ Len(f) = FieldLen
  BY IdsAreSymbols, EncodeShape DEF ValidSeedId
<1>2. FieldLen \in Nat /\ FieldLen >= 1
  BY SlotAssumption DEF SlotAssumption, FieldLen
<1> HIDE DEF f, S
<1>3. CASE field = f
  BY <1>1, <1>2, <1>3
<1>4. ASSUME NEW i \in DOMAIN f, NEW x \in Symbols, field = [f EXCEPT ![i] = x]
      PROVE  Len(field) \in Nat
  <2>1. DOMAIN field = 1..Len(f) /\ Len(f) \in Nat
    BY <1>1, <1>4, LenProperties
  <2>2. field \in [1..Len(f) -> S \cup {x}]
    <3>1. f \in [1..Len(f) -> S]
      BY <1>1, LenProperties
    <3> QED
      BY <1>4, <3>1
  <2>3. field \in Seq(S \cup {x})
    BY <2>1, <2>2, SeqDef
  <2> QED
    BY <2>3, LenProperties
<1>5. ASSUME NEW n \in 0..(FieldLen - 1), field = SubSeq(f, 1, n)
      PROVE  Len(field) \in Nat
  <2>1. \A i \in 1..n : f[i] \in S
    BY <1>1, <1>2, LenProperties
  <2>2. field \in Seq(S)
    BY <1>1, <1>2, <1>5, <2>1, SubSeqProperties
  <2> QED
    BY <2>2, LenProperties
<1>6. ASSUME NEW x \in Symbols, field = Append(f, x)
      PROVE  Len(field) \in Nat
  <2>1. f \in Seq(S \cup {x})
    <3>1. f \in [1..Len(f) -> S] /\ Len(f) \in Nat
      BY <1>1, LenProperties
    <3>2. f \in [1..Len(f) -> S \cup {x}]
      BY <3>1
    <3> QED
      BY <3>1, <3>2, SeqDef
  <2>2. field \in Seq(S \cup {x})
    BY <1>6, <2>1, AppendProperties
  <2> QED
    BY <2>2, LenProperties
<1> QED
  BY <1>3, <1>4, <1>5, <1>6 DEF Wire, f

\* Whatever field reaches a payer, mcpix-core and mcpix-embed accept the same
\* ones and read the same from them, and only a field of another version of the
\* family is told apart from garbage.
THEOREM FieldDecodersCoincide == Spec => []FieldDecodersAgree
<1>1. FieldDecodersAgree
  <2> SUFFICES ASSUME NEW s \in SeedIds, NEW field \in Wire(s)
               PROVE  LET read == Parse(field)
                      IN /\ read.error = "none"
                              => IsProtocolField(field) /\ Negotiate({field[2]}) = field[2]
                         /\ (read.error = "none" \/ ParseInto(field).error = "none")
                              => ParseInto(field) = read
                         /\ read.error = "UnsupportedProtocolVersion"
                              => IsAnyVersion(field) /\ Negotiate({field[2]}) = "none"
    BY DEF FieldDecodersAgree
  <2>1. Len(field) \in Nat
    BY WireLength
  <2> QED
    BY <2>1, FieldDecoders
<1> QED
  BY <1>1, PTL

=============================================================================
