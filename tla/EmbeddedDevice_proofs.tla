---------------------- MODULE EmbeddedDevice_proofs ----------------------
(***************************************************************************)
(* For every number of charges, wherever the power is cut: until a boot    *)
(* fails to read its counter, no counter is derived from twice and a       *)
(* consumed receipt stays consumed; and each such failure costs at most    *)
(* one more use of a counter.                                              *)
(***************************************************************************)
EXTENDS EmbeddedDevice, TLAPS

\* What the sets of the model contain, in the form the leaves use.
LEMMA Domains ==
  /\ MaxT \in Nat
  /\ Ts \subseteq Int /\ \A t \in Ts : t > 0 /\ t <= MaxT
  /\ Empty \notin Int /\ Empty \notin Ts /\ Empty \notin Receipt
  /\ \A t \in Ts, b \in BOOLEAN : [t |-> t, consumed |-> b] \in Receipt
  /\ \A r \in Receipt : r.t \in Ts /\ r.consumed \in BOOLEAN
BY BoundsAssumption, EmptyAssumption
   DEF BoundsAssumption, EmptyAssumption, Ts, Receipt

LEMMA CountersAreIntegers == \A t \in Ts : t \in Int /\ t > 0 /\ t # Empty
BY EmptyAssumption DEF EmptyAssumption, Ts

-----------------------------------------------------------------------------
(***************************************************************************)
(* Whatever fails: saves and main() keep step                              *)
(***************************************************************************)
LEMMA InitSaveInv == Init => SaveInv
<1> SUFFICES ASSUME Init PROVE SaveInv
  OBVIOUS
<1> USE DEF Init, Counter!Init, Receipts!Init
<1>1. TypeOK
  BY Domains, BoundsAssumption
     DEF TypeOK, Counter!TypeOK, Receipts!TypeOK, Counter!Results,
         Receipts!Results, BoundsAssumption
<1>2. SavesMatchPc /\ SavedFirst
  BY DEF SavesMatchPc, SavedFirst
<1> QED
  BY <1>1, <1>2 DEF SaveInv

\* A boot goes on from the counter it reads, or from none when the read fails.
LEMMA LoadCounterSaves ==
  ASSUME SaveInv, LoadCounter
  PROVE  /\ SaveInv' /\ newT' \in Ts /\ UNCHANGED <<counterStore, receiptStore, derived>>
         /\ \/ /\ readFaults' = readFaults
               /\ counter # Empty => newT' > counter
            \/ readFaults' = readFaults + 1
<1> USE DEF SaveInv, LoadCounter, counterStore, receiptStore
<1>1. \/ /\ readFaults' = readFaults
         /\ newT' = (IF counter = Empty THEN 0 ELSE counter) + 1
      \/ /\ readFaults' = readFaults + 1 /\ readFaults < MaxReadFaults
         /\ newT' = 1
  OBVIOUS
<1>2. newT' \in Ts
  BY <1>1, Domains DEF TypeOK, Counter!TypeOK, Ts
<1>3. readFaults' \in 0..MaxReadFaults
  BY <1>1, BoundsAssumption DEF TypeOK, BoundsAssumption
<1>4. \/ readFaults' = readFaults /\ (counter # Empty => newT' > counter)
      \/ readFaults' = readFaults + 1
  BY <1>1, Domains DEF TypeOK, Counter!TypeOK, Ts
<1>5. TypeOK'
  BY <1>2, <1>3, Domains
     DEF TypeOK, Counter!TypeOK, Receipts!TypeOK, Counter!Results, Receipts!Results, Ts
<1>6. SavesMatchPc' /\ SavedFirst'
  BY <1>2, Domains DEF SavesMatchPc, SavedFirst
<1> QED
  BY <1>2, <1>4, <1>5, <1>6

\* Reserving the counter: the save is begun, and ends with or without effect.
LEMMA BeginReserveSaves ==
  ASSUME SaveInv, BeginReserve
  PROVE  SaveInv' /\ UNCHANGED <<counter, receiptStore, newT, history>>
<1> USE DEF SaveInv, BeginReserve, Counter!Begin, receiptStore, history
<1>1. newT \in Ts
  BY Domains DEF SavedFirst, TypeOK, Ts
<1>2. TypeOK'
  BY <1>1 DEF TypeOK, Counter!TypeOK, Receipts!TypeOK, Counter!Results, Receipts!Results
<1>3. SavesMatchPc' /\ SavedFirst'
  BY DEF SavesMatchPc, SavedFirst
<1> QED
  BY <1>2, <1>3

LEMMA EndReserveSaves ==
  ASSUME SaveInv, EndReserve
  PROVE  /\ SaveInv' /\ UNCHANGED <<receiptStore, newT, history>>
         /\ newT \in Ts /\ newT # Empty
         /\ \/ counter' = newT /\ pc' = "derive"
            \/ counter' \in {counter, newT} /\ pc' = "halt"
<1> USE DEF SaveInv, EndReserve, receiptStore, history
<1>1. newT \in Ts /\ counterPending = newT /\ newT # Empty /\ receiptPending = Empty
  BY Domains DEF SavesMatchPc, SavedFirst, TypeOK, Ts
<1>2. /\ counterPending' = Empty
      /\ counterResult' \in {"ok", "failed"}
      /\ \/ counter' = newT /\ pc' = "derive"
         \/ counter' \in {counter, newT} /\ pc' = "halt"
  BY <1>1 DEF Counter!Commit, Counter!Abort
<1>3. TypeOK'
  BY <1>1, <1>2
     DEF TypeOK, Counter!TypeOK, Receipts!TypeOK, Counter!Results, Receipts!Results
<1>4. SavesMatchPc'
  BY <1>1, <1>2 DEF SavesMatchPc
<1>5. SavedFirst'
  BY <1>1, <1>2, Domains DEF SavedFirst
<1> QED
  BY <1>1, <1>2, <1>3, <1>4, <1>5

LEMMA DeriveSaves ==
  ASSUME SaveInv, Derive
  PROVE  SaveInv' /\ newT \in Ts /\ counter = newT
<1> USE DEF SaveInv, Derive, counterStore, receiptStore
<1>1. newT \in Ts /\ counter = newT
  BY DEF SavedFirst, TypeOK, Ts
<1>2. TypeOK'
  BY <1>1 DEF TypeOK, Counter!TypeOK, Receipts!TypeOK, Counter!Results, Receipts!Results
<1>3. SavesMatchPc' /\ SavedFirst'
  BY DEF SavesMatchPc, SavedFirst, ToSave
<1> QED
  BY <1>1, <1>2, <1>3

\* Retaining and marking the receipt of the counter just reserved.
LEMMA ReceiptSaves ==
  ASSUME SaveInv, BeginRetain \/ EndRetain \/ BeginMark \/ EndMark
  PROVE  /\ SaveInv' /\ UNCHANGED <<counterStore, newT, history>>
         /\ pc' \in {"retaining", "reload", "halt", "marking", "done"}
         /\ newT \in Ts /\ counter = newT
         /\ receipt' = receipt \/ (receipt' \in Receipt /\ receipt'.t = newT)
         /\ pc' = "retaining" => pc = "retain" /\ receipt' = receipt
         /\ pc' = "done" => receipt' # Empty /\ receipt'.t = newT
<1> DEFINE marked == [ToSave EXCEPT !.consumed = TRUE]
<1>1. /\ newT \in Ts /\ counter = newT
      /\ ToSave \in Receipt /\ ToSave.t = newT /\ ~ ToSave.consumed
      /\ marked \in Receipt /\ marked.t = newT
      /\ ToSave # Empty /\ marked # Empty
  <2>1. newT \in Ts /\ counter = newT
    BY DEF BeginRetain, EndRetain, BeginMark, EndMark, SaveInv, SavedFirst, TypeOK, Ts
  <2>2. ToSave \in Receipt /\ ToSave.t = newT /\ ~ ToSave.consumed
    BY <2>1 DEF ToSave, Receipt
  <2>3. marked \in Receipt /\ marked.t = newT
    BY <2>1 DEF ToSave, Receipt
  <2> QED
    BY <2>1, <2>2, <2>3, Domains
<1> HIDE DEF marked
<1>2. /\ UNCHANGED <<counterStore, newT, history>>
      /\ pc' \in {"retaining", "reload", "halt", "marking", "done"}
  BY DEF BeginRetain, EndRetain, BeginMark, EndMark
<1>3. /\ receiptResult' \in Receipts!Results
      /\ receiptPending' = IF pc' = "retaining" THEN ToSave
                           ELSE IF pc' = "marking" THEN marked ELSE Empty
      /\ \/ receipt' = receipt
         \/ receipt' = ToSave \/ receipt' = marked
      /\ pc' = "reload" => receipt' = ToSave
      /\ pc' = "marking" => receipt' = ToSave
      /\ pc' = "retaining" => pc = "retain" /\ receipt' = receipt
      /\ pc' = "done" => receipt' = marked
  <2> USE DEF SaveInv
  <2>1. CASE BeginRetain
    BY <1>1, <2>1 DEF BeginRetain, Receipts!Begin, SavedFirst, TypeOK, Receipts!TypeOK
  <2>2. CASE EndRetain
    <3>1. receiptPending = ToSave
      BY <2>2 DEF EndRetain, SavesMatchPc
    <3> QED
      BY <1>1, <2>2, <3>1 DEF EndRetain, Receipts!Commit, Receipts!Abort, Receipts!Results
  <2>3. CASE BeginMark
    <3>1. receipt = ToSave /\ ~ receipt.consumed /\ receiptPending = Empty
      BY <1>1, <2>3 DEF BeginMark, SavedFirst, SavesMatchPc
    <3> QED
      BY <1>1, <2>3, <3>1 DEF BeginMark, Receipts!Begin, TypeOK, Receipts!TypeOK, marked
  <2>4. CASE EndMark
    <3>1. receiptPending = marked /\ receipt = ToSave
      BY <2>4 DEF EndMark, SavesMatchPc, SavedFirst, marked
    <3> QED
      BY <1>1, <2>4, <3>1 DEF EndMark, Receipts!Commit, Receipts!Abort, Receipts!Results
  <2> QED
    BY <2>1, <2>2, <2>3, <2>4
<1>4. pc \in {"retain", "retaining", "verify", "marking"}
  BY DEF BeginRetain, EndRetain, BeginMark, EndMark
<1>5. ToSave' = ToSave /\ counter' = counter /\ newT' = newT
  BY <1>2 DEF ToSave, counterStore
<1>6. TypeOK'
  <2>1. receipt' \in Receipt \cup {Empty} /\ receiptPending' \in Receipt \cup {Empty}
    BY <1>1, <1>3 DEF SaveInv, TypeOK, Receipts!TypeOK
  <2> QED
    BY <1>2, <1>3, <2>1
    DEF SaveInv, TypeOK, Counter!TypeOK, Receipts!TypeOK, Counter!Results,
        Receipts!Results, counterStore, history
<1>7. SavesMatchPc'
  <2>1. counterPending' = Empty
    BY <1>2, <1>4 DEF SaveInv, SavesMatchPc, counterStore
  <2> QED
    BY <1>2, <1>3, <1>5, <2>1 DEF SavesMatchPc, marked
<1>8. SavedFirst'
  <2>1. newT > 0
    BY <1>1, Domains
  <2> QED
    BY <1>1, <1>2, <1>3, <1>5, <2>1 DEF SavedFirst
<1> QED
  BY <1>1, <1>2, <1>3, <1>6, <1>7, <1>8 DEF SaveInv

LEMMA ReloadSaves ==
  ASSUME SaveInv, Reload \/ Refuse
  PROVE  /\ SaveInv' /\ UNCHANGED <<counterStore, receiptStore, newT, history>>
         /\ pc' = "halt" \/ (pc = "reload" /\ pc' = "verify")
<1>1. /\ UNCHANGED <<counterStore, receiptStore, newT, history>>
      /\ pc' = "halt" \/ (pc = "reload" /\ pc' = "verify")
      /\ pc \in {"reserve", "derive", "retain", "reload", "verify"}
  BY DEF Reload, Refuse
<1> USE <1>1 DEF SaveInv, counterStore, receiptStore, history
<1>2. TypeOK'
  BY DEF TypeOK, Counter!TypeOK, Receipts!TypeOK, Counter!Results, Receipts!Results
<1>3. SavesMatchPc' /\ SavedFirst'
  BY DEF SavesMatchPc, SavedFirst, ToSave
<1> QED
  BY <1>2, <1>3

\* A power cut ends the save under way, with or without effect.
LEMMA PowerCycleSaves ==
  ASSUME SaveInv, PowerCycle
  PROVE  /\ SaveInv' /\ pc' = "boot" /\ UNCHANGED history
         /\ \/ counter' = counter
            \/ pc = "reserving" /\ counter' = newT /\ newT \in Ts /\ newT # Empty
         /\ \/ receipt' = receipt
            \/ /\ pc \in {"retaining", "marking"}
               /\ receipt' = receiptPending /\ receiptPending # Empty /\ receipt'.t = newT
<1> USE DEF SaveInv
<1>1. /\ pc' = "boot" /\ newT' = 0 /\ UNCHANGED history
      /\ counter' \in {counter, counterPending} /\ counterPending' = Empty
      /\ receipt' \in {receipt, receiptPending} /\ receiptPending' = Empty
      /\ counterResult' \in {counterResult, "failed"}
      /\ receiptResult' \in {receiptResult, "failed"}
      /\ counter' = counter \/ (counterPending # Empty /\ counter' = counterPending)
      /\ receipt' = receipt \/ (receiptPending # Empty /\ receipt' = receiptPending)
  BY DEF PowerCycle, Counter!Abort, Receipts!Abort, counterStore, receiptStore
<1>2. TypeOK'
  BY <1>1, BoundsAssumption
     DEF TypeOK, Counter!TypeOK, Receipts!TypeOK, Counter!Results,
         Receipts!Results, history, BoundsAssumption
<1>3. SavesMatchPc' /\ SavedFirst'
  BY <1>1 DEF SavesMatchPc, SavedFirst
<1>4. \/ counter' = counter
      \/ pc = "reserving" /\ counter' = newT /\ newT \in Ts /\ newT # Empty
  BY <1>1, Domains DEF SavesMatchPc, SavedFirst, TypeOK, Ts
<1>5. receiptPending # Empty =>
        pc \in {"retaining", "marking"} /\ receiptPending.t = newT
  BY DEF SavesMatchPc, ToSave
<1> QED
  BY <1>1, <1>2, <1>3, <1>4, <1>5

LEMMA IdleSaves ==
  ASSUME SaveInv, UNCHANGED vars
  PROVE  SaveInv'
<1> USE DEF vars, SaveInv
<1>1. TypeOK'
  BY DEF TypeOK, Counter!TypeOK, Receipts!TypeOK, Counter!Results, Receipts!Results
<1>2. SavesMatchPc' /\ SavedFirst'
  BY DEF SavesMatchPc, SavedFirst, ToSave
<1> QED
  BY <1>1, <1>2

LEMMA NextSaveInv == SaveInv /\ [Next]_vars => SaveInv'
  BY LoadCounterSaves, BeginReserveSaves, EndReserveSaves, DeriveSaves, ReceiptSaves,
     ReloadSaves, PowerCycleSaves, IdleSaves
  DEF Next

\* Whatever a boot could not read and wherever the power is cut, main() goes on with
\* a counter and a receipt that its saves have written (main.rs:95-170).
THEOREM SavesKeepStep == Spec => []SaveInv
  BY InitSaveInv, NextSaveInv, PTL DEF Spec

\* The check after the reload of both stores cannot fail, whatever the boots
\* before have read (main.rs:133-158).
THEOREM ReloadSucceeds == Spec => []ReloadMatches
<1>1. SaveInv => ReloadMatches
  BY DEF SaveInv, SavedFirst, ReloadMatches
<1> QED
  BY <1>1, SavesKeepStep, PTL

-----------------------------------------------------------------------------
(***************************************************************************)
(* What a failed boot read costs.  The device starts again from 1; the     *)
(* counters above the one it saved have each been used once per failure at *)
(* most, those up to it once more.                                         *)
(***************************************************************************)
Covered(t) == counter # Empty /\ t <= counter

ReuseCounted ==
  /\ \A t \in Ts : derived[t] <= readFaults + (IF Covered(t) THEN 1 ELSE 0)
  /\ pc \in {"reserve", "reserving"} =>
       \A t \in Ts : t >= newT => derived[t] <= readFaults
  /\ pc = "derive" => derived[newT] <= readFaults

LEMMA ReuseTypes ==
  ASSUME SaveInv
  PROVE  /\ readFaults \in Int /\ newT \in Int
         /\ \A t \in Ts : derived[t] \in Int /\ t \in Int
         /\ counter # Empty => counter \in Int
  BY BoundsAssumption, Domains
  DEF SaveInv, TypeOK, Counter!TypeOK, BoundsAssumption

\* A step that saves no counter and derives nothing.
LEMMA SameReuse ==
  ASSUME ReuseCounted, UNCHANGED <<counter, derived, readFaults, newT>>,
         pc' \in {"reserve", "reserving"} => pc \in {"reserve", "reserving"},
         pc' = "derive" => pc = "derive"
  PROVE  ReuseCounted'
  BY DEF ReuseCounted, Covered

LEMMA StepReuse == SaveInv /\ ReuseCounted /\ [Next]_vars => ReuseCounted'
<1> SUFFICES ASSUME SaveInv, ReuseCounted, [Next]_vars PROVE ReuseCounted'
  OBVIOUS
<1>1. CASE LoadCounter
  <2>1. /\ newT' \in Ts /\ counter' = counter /\ derived' = derived /\ pc' = "reserve"
        /\ \/ readFaults' = readFaults /\ (counter # Empty => newT' > counter)
           \/ readFaults' = readFaults + 1
    BY <1>1, LoadCounterSaves DEF LoadCounter, counterStore
  <2>2. newT' \in Int
    BY <2>1, Domains
  <2> QED
    BY <2>1, <2>2, ReuseTypes DEF ReuseCounted, Covered
<1>2. CASE EndReserve
  <2>1. /\ newT \in Ts /\ newT # Empty /\ pc = "reserving"
        /\ UNCHANGED <<newT, derived, readFaults>>
        /\ counter' \in {counter, newT}
        /\ (pc' = "derive" /\ counter' = newT) \/ pc' = "halt"
    BY <1>2, EndReserveSaves DEF history, EndReserve
  <2> QED
    BY <2>1, ReuseTypes DEF ReuseCounted, Covered
<1>3. CASE Derive
  <2>1. /\ newT \in Ts /\ counter = newT /\ newT # Empty
        /\ derived' = [derived EXCEPT ![newT] = @ + 1]
        /\ pc = "derive" /\ pc' = "retain" /\ UNCHANGED <<counter, readFaults>>
    BY <1>3, DeriveSaves, CountersAreIntegers DEF Derive, counterStore
  <2>2. \A t \in Ts : derived'[t] = IF t = newT THEN derived[newT] + 1 ELSE derived[t]
    BY <2>1 DEF SaveInv, TypeOK
  <2> QED
    BY <2>1, <2>2, ReuseTypes DEF ReuseCounted, Covered
<1>4. CASE PowerCycle
  <2>1. /\ pc' = "boot" /\ UNCHANGED <<derived, readFaults>>
        /\ \/ counter' = counter
           \/ pc = "reserving" /\ counter' = newT /\ newT \in Ts /\ newT # Empty
    BY <1>4, PowerCycleSaves DEF history
  <2> QED
    BY <2>1, ReuseTypes DEF ReuseCounted, Covered
<1>5. CASE BeginReserve
  BY <1>5, BeginReserveSaves, SameReuse DEF BeginReserve, history
<1>6. CASE BeginRetain \/ EndRetain \/ BeginMark \/ EndMark
  BY <1>6, ReceiptSaves, SameReuse DEF history, counterStore
<1>7. CASE Reload \/ Refuse
  BY <1>7, ReloadSaves, SameReuse DEF history, counterStore
<1>8. CASE UNCHANGED vars
  BY <1>8, SameReuse DEF vars
<1> QED
  BY <1>1, <1>2, <1>3, <1>4, <1>5, <1>6, <1>7, <1>8 DEF Next

LEMMA InitReuse == Init => ReuseCounted
<1> SUFFICES ASSUME Init PROVE ReuseCounted
  OBVIOUS
<1> QED
  BY DEF Init, ReuseCounted, Counter!Init, Covered

\* Each failure of the boot read, which counts as an empty store, costs at most
\* one more pair per counter: never more pairs of a counter than failures and one,
\* wherever the power is cut (main.rs:95-103).
THEOREM ReuseIsBounded == Spec => [](\A t \in Ts : derived[t] <= 1 + readFaults)
<1>1. SaveInv /\ ReuseCounted => \A t \in Ts : derived[t] <= 1 + readFaults
  BY ReuseTypes DEF ReuseCounted
<1> QED
  BY <1>1, InitReuse, StepReuse, SavesKeepStep, PTL DEF Spec

-----------------------------------------------------------------------------
(***************************************************************************)
(* While every boot has read its counter                                   *)
(***************************************************************************)
LEMMA CoveredReceipt ==
  ASSUME IInv, receipt # Empty
  PROVE  /\ receipt \in Receipt /\ receipt.t \in Int
         /\ counter \in Int /\ counter # Empty /\ receipt.t <= counter
<1>1. receipt \in Receipt /\ receipt.t \in Ts
  BY Domains DEF IInv, SaveInv, TypeOK, Receipts!TypeOK
<1>2. counter \in Ts /\ counter # Empty /\ receipt.t <= counter
  BY Domains DEF IInv, SaveInv, TypeOK, Counter!TypeOK, CounterCoversReceipt
<1> QED
  BY <1>1, <1>2, Domains

LEMMA InitIInv == Init => IInv
<1> SUFFICES ASSUME Init PROVE IInv
  OBVIOUS
<1> USE DEF Init, Counter!Init, Receipts!Init
<1>1. NewTFresh /\ CounterCoversReceipt
  BY DEF NewTFresh, CounterCoversReceipt
<1>2. DerivedIsReserved /\ NoCounterReuse
  BY DEF DerivedIsReserved, NoCounterReuse
<1> QED
  BY <1>1, <1>2, InitSaveInv DEF IInv

\* A counter that is saved goes up, and still covers what it covered.
LEMMA SavedCovers ==
  ASSUME IInv, NEW n \in Ts, counter' = n, counter # Empty => n > counter,
         UNCHANGED <<derived, receipt>>
  PROVE  DerivedIsReserved' /\ CounterCoversReceipt'
<1>1. n # Empty /\ n \in Int /\ (counter # Empty => counter \in Int)
  BY CountersAreIntegers DEF IInv, SaveInv, TypeOK, Counter!TypeOK
<1>2. DerivedIsReserved'
  <2> SUFFICES ASSUME NEW t \in Ts, derived[t] > 0 PROVE t <= n
    BY <1>1 DEF DerivedIsReserved
  <2> QED
    BY <1>1, CountersAreIntegers DEF IInv, DerivedIsReserved
<1>3. CounterCoversReceipt'
  BY <1>1, CoveredReceipt DEF CounterCoversReceipt
<1> QED
  BY <1>2, <1>3

LEMMA ReserveIInv ==
  ASSUME IInv, EndReserve
  PROVE  IInv'
<1>1. /\ SaveInv' /\ newT \in Ts /\ newT # Empty
      /\ UNCHANGED <<receipt, newT, derived>> /\ pc = "reserving"
      /\ \/ counter' = newT /\ pc' = "derive"
         \/ counter' \in {counter, newT} /\ pc' = "halt"
  BY EndReserveSaves DEF IInv, receiptStore, history, EndReserve
<1>2. counter # Empty => newT > counter
  BY <1>1 DEF IInv, NewTFresh
<1>3. DerivedIsReserved' /\ CounterCoversReceipt'
  BY <1>1, <1>2, SavedCovers DEF IInv, DerivedIsReserved, CounterCoversReceipt
<1>4. NewTFresh'
  <2>1. derived[newT] = 0
    <3>1. ~ derived[newT] > 0
      BY <1>1, <1>2, CountersAreIntegers
      DEF IInv, DerivedIsReserved, SaveInv, TypeOK, Counter!TypeOK
    <3> QED
      BY <1>1, <3>1 DEF IInv, SaveInv, TypeOK
  <2>2. receipt # Empty => receipt.t < newT
    BY <1>1, <1>2, CoveredReceipt, CountersAreIntegers
  <2> QED
    BY <1>1, <2>1, <2>2 DEF NewTFresh
<1>5. NoCounterReuse'
  BY <1>1 DEF IInv, NoCounterReuse
<1> QED
  BY <1>1, <1>3, <1>4, <1>5 DEF IInv

\* The pair is derived from a counter that is in the flash, for the first time.
LEMMA DeriveIInv ==
  ASSUME IInv, Derive
  PROVE  IInv'
<1>1. SaveInv' /\ newT \in Ts /\ counter = newT
  BY DeriveSaves DEF IInv
<1>2. derived[newT] = 0 /\ derived \in [Ts -> Nat]
  BY DEF Derive, IInv, NewTFresh, SaveInv, TypeOK
<1> USE DEF Derive, counterStore, receiptStore
<1>3. NewTFresh' /\ CounterCoversReceipt'
  BY DEF IInv, NewTFresh, CounterCoversReceipt
<1>4. DerivedIsReserved'
  BY <1>1, <1>2, Domains DEF IInv, DerivedIsReserved
<1>5. NoCounterReuse'
  BY <1>1, <1>2 DEF IInv, NoCounterReuse
<1> QED
  BY <1>1, <1>3, <1>4, <1>5 DEF IInv

LEMMA ReceiptIInv ==
  ASSUME IInv, BeginRetain \/ EndRetain \/ BeginMark \/ EndMark
  PROVE  IInv'
<1>1. /\ SaveInv' /\ UNCHANGED <<counter, newT, derived>>
      /\ pc' \in {"retaining", "reload", "halt", "marking", "done"}
      /\ newT \in Ts /\ counter = newT
      /\ receipt' = receipt \/ (receipt' \in Receipt /\ receipt'.t = newT)
      /\ pc' = "retaining" => pc = "retain" /\ receipt' = receipt
  BY ReceiptSaves DEF IInv, counterStore, history
<1>2. DerivedIsReserved' /\ NoCounterReuse'
  BY <1>1 DEF IInv, DerivedIsReserved, NoCounterReuse
<1>3. NewTFresh'
  BY <1>1 DEF IInv, NewTFresh
<1>4. CounterCoversReceipt'
  <2>1. newT \in Int /\ newT # Empty /\ newT <= newT
    BY <1>1, CountersAreIntegers
  <2> QED
    BY <1>1, <2>1 DEF IInv, CounterCoversReceipt
<1> QED
  BY <1>1, <1>2, <1>3, <1>4 DEF IInv

LEMMA PowerCycleIInv ==
  ASSUME IInv, PowerCycle
  PROVE  IInv'
<1>1. /\ SaveInv' /\ pc' = "boot" /\ UNCHANGED derived
      /\ \/ counter' = counter
         \/ pc = "reserving" /\ counter' = newT /\ newT \in Ts /\ newT # Empty
      /\ \/ receipt' = receipt
         \/ /\ pc \in {"retaining", "marking"}
            /\ receiptPending # Empty /\ receipt'.t = newT
  BY PowerCycleSaves DEF IInv, history
<1>2. NewTFresh' /\ NoCounterReuse'
  BY <1>1 DEF IInv, NewTFresh, NoCounterReuse
<1>3. CASE pc = "reserving" /\ counter' = newT
  <2>1. newT \in Ts /\ receipt' = receipt /\ (counter # Empty => newT > counter)
    BY <1>1, <1>3, Domains DEF IInv, NewTFresh, SaveInv, SavedFirst, TypeOK, Ts
  <2> QED
    BY <1>1, <1>2, <1>3, <2>1, SavedCovers DEF IInv
<1>4. CASE counter' = counter
  <2>1. DerivedIsReserved'
    BY <1>1, <1>4 DEF IInv, DerivedIsReserved
  <2>2. CounterCoversReceipt'
    <3>1. CASE receipt' = receipt
      BY <1>4, <3>1 DEF IInv, CounterCoversReceipt
    <3>2. CASE pc \in {"retaining", "marking"} /\ receipt'.t = newT
      <4>1. counter' = newT /\ newT \in Ts
        BY <1>4, <3>2 DEF IInv, SaveInv, SavedFirst, TypeOK, Ts
      <4> QED
        BY <3>2, <4>1, CountersAreIntegers DEF CounterCoversReceipt
    <3> QED
      BY <1>1, <3>1, <3>2
  <2> QED
    BY <1>1, <1>2, <2>1, <2>2 DEF IInv
<1> QED
  BY <1>1, <1>3, <1>4

\* A boot that reads the counter goes on from above it.
LEMMA LoadIInv ==
  ASSUME IInv, LoadCounter, BootReadsCounter'
  PROVE  IInv'
<1>1. /\ SaveInv' /\ UNCHANGED <<counter, receipt, derived>> /\ pc' = "reserve"
      /\ counter # Empty => newT' > counter
  <2>1. readFaults \in Nat /\ readFaults' = 0
    BY BoundsAssumption DEF IInv, SaveInv, TypeOK, BoundsAssumption, BootReadsCounter
  <2> QED
    BY <2>1, LoadCounterSaves DEF IInv, LoadCounter, counterStore, receiptStore
<1> QED
  BY <1>1 DEF IInv, DerivedIsReserved, NewTFresh, CounterCoversReceipt, NoCounterReuse

LEMMA SameIInv ==
  ASSUME IInv, BeginReserve \/ Reload \/ Refuse \/ UNCHANGED vars
  PROVE  IInv'
<1>1. /\ SaveInv' /\ UNCHANGED <<counter, receipt, newT, derived>>
      /\ \/ pc' \in {pc, "halt"}
         \/ pc = "reserve" /\ pc' = "reserving"
         \/ pc = "reload" /\ pc' = "verify"
  <2>1. CASE BeginReserve
    BY <2>1, BeginReserveSaves DEF IInv, BeginReserve, receiptStore, history
  <2>2. CASE Reload \/ Refuse
    BY <2>2, ReloadSaves DEF IInv, counterStore, receiptStore, history
  <2>3. CASE UNCHANGED vars
    BY <2>3, IdleSaves DEF IInv, vars
  <2> QED
    BY <2>1, <2>2, <2>3
<1> QED
  BY <1>1 DEF IInv, DerivedIsReserved, NewTFresh, CounterCoversReceipt, NoCounterReuse

\* A failed read is remembered: who has met none so far had met none before.
LEMMA FaultsRemembered ==
  ASSUME SaveInv, [Next]_vars, BootReadsCounter'
  PROVE  BootReadsCounter
<1>1. readFaults \in Nat
  BY BoundsAssumption DEF SaveInv, TypeOK, BoundsAssumption
<1>2. readFaults' = readFaults \/ readFaults' = readFaults + 1
  BY DEF Next, vars, LoadCounter, BeginReserve, EndReserve, Derive, BeginRetain,
         EndRetain, Reload, BeginMark, EndMark, Refuse, PowerCycle, history
<1> QED
  BY <1>1, <1>2 DEF BootReadsCounter

LEMMA NextIInv ==
  SaveInv /\ (BootReadsCounter => IInv) /\ [Next]_vars => (BootReadsCounter => IInv)'
<1> SUFFICES ASSUME SaveInv, BootReadsCounter => IInv, [Next]_vars, BootReadsCounter'
             PROVE  IInv'
  OBVIOUS
<1>1. IInv
  BY FaultsRemembered
<1> QED
  BY <1>1, LoadIInv, ReserveIInv, DeriveIInv, ReceiptIInv, PowerCycleIInv, SameIInv
  DEF Next

\* The invariant holds for as long as the boots can read their counter store.
THEOREM Invariance == Spec => [](BootReadsCounter => IInv)
  BY InitIInv, NextIInv, SavesKeepStep, PTL DEF Spec

\* No boot derives a pair from the counter of another boot, wherever the power
\* is cut, before a boot has failed to read its counter (main.rs:101-103).
THEOREM CounterNeverReused == Spec => [](BootReadsCounter => NoCounterReuse)
<1>1. IInv => NoCounterReuse
  BY DEF IInv
<1> QED
  BY <1>1, Invariance, PTL

\* A boot that finds a retained receipt finds a counter that covers it, wherever
\* the boots before were cut (main.rs:95-158).
THEOREM CounterCoversEveryReceipt == Spec => [](BootReadsCounter => CounterCoversReceipt)
<1>1. IInv => CounterCoversReceipt
  BY DEF IInv
<1> QED
  BY <1>1, Invariance, PTL

\* A consumed receipt stays consumed until a later charge replaces it.
LEMMA ConsumedStep ==
  ASSUME IInv, [Next]_vars, receipt # Empty, receipt.consumed
  PROVE  receipt' = receipt \/ receipt'.t > receipt.t
<1>1. receipt # ToSave
  BY DEF ToSave
<1>2. receiptPending # Empty => receiptPending = ToSave /\ pc = "retaining"
  BY <1>1 DEF IInv, SaveInv, SavesMatchPc, SavedFirst
<1>3. pc = "retaining" => ToSave.t > receipt.t
  <2>1. receipt.t \in Int
    BY CoveredReceipt
  <2>2. newT \in Int
    BY Domains DEF IInv, SaveInv, TypeOK
  <2> QED
    BY <2>1, <2>2 DEF IInv, NewTFresh, ToSave
<1>4. receipt' \in {receipt, receiptPending}
      /\ (receiptPending = Empty => receipt' = receipt)
  BY DEF Next, vars, LoadCounter, BeginReserve, EndReserve, Derive, BeginRetain,
         EndRetain, Reload, BeginMark, EndMark, Refuse, PowerCycle,
         Receipts!Begin, Receipts!Commit, Receipts!Abort, receiptStore
<1> QED
  BY <1>2, <1>3, <1>4

\* A receipt marked consumed stays so, over any power cuts, until the receipt of
\* a later charge takes its place, on a device whose boots read their counter
\* (main.rs:160-170).
THEOREM ReplayDefenceSurvives == Spec /\ []BootReadsCounter => ConsumedIsFinal
<1>1. IInv /\ [Next]_vars =>
        [receipt # Empty /\ receipt.consumed =>
           receipt' = receipt \/ receipt'.t > receipt.t]_vars
  BY ConsumedStep
<1> QED
  BY <1>1, Invariance, PTL DEF Spec, ConsumedIsFinal

\* From the display to the end of a boot its charge has been shown, and the
\* receipt the boot ends with is its own.
Shown ==
  /\ pc \in {"retain", "retaining", "reload", "verify", "marking", "done"} =>
       newT \in Ts /\ derived[newT] > 0
  /\ pc = "done" => receipt # Empty /\ receipt.t = newT

LEMMA ShownStep ==
  ASSUME SaveInv, Shown, [Next]_vars
  PROVE  Shown'
<1>1. CASE LoadCounter \/ BeginReserve \/ EndReserve \/ Refuse \/ PowerCycle
  <2>1. pc' \in {"boot", "reserve", "reserving", "derive", "halt"}
    BY <1>1 DEF LoadCounter, BeginReserve, EndReserve, Refuse, PowerCycle
  <2> QED
    BY <2>1 DEF Shown
<1>2. CASE Derive
  <2>1. newT \in Ts /\ derived \in [Ts -> Nat]
    BY <1>2, DeriveSaves DEF SaveInv, TypeOK
  <2> QED
    BY <1>2, <2>1 DEF Derive, Shown
<1>3. CASE BeginRetain \/ EndRetain \/ EndMark
  <2>1. /\ UNCHANGED <<newT, derived>>
        /\ pc' = "done" => receipt' # Empty /\ receipt'.t = newT
    BY <1>3, ReceiptSaves DEF history
  <2> QED
    BY <1>3, <2>1 DEF BeginRetain, EndRetain, EndMark, Shown
<1>4. CASE BeginMark
  <2>1. /\ UNCHANGED <<newT, derived>> /\ pc = "verify"
        /\ pc' = "done" => receipt' # Empty /\ receipt'.t = newT
    BY <1>4, ReceiptSaves DEF history, BeginMark
  <2> QED
    BY <2>1 DEF Shown
<1>5. CASE Reload
  BY <1>5 DEF Reload, Shown, history
<1>6. CASE UNCHANGED vars
  BY <1>6 DEF vars, Shown
<1> QED
  BY <1>1, <1>2, <1>3, <1>4, <1>5, <1>6 DEF Next

LEMMA InitShown == Init => Shown
  BY DEF Init, Shown

\* Whatever the boots have read, a charge whose boot reached the reload is the
\* one that was displayed and is retained as it was displayed (main.rs:124-170).
THEOREM RetainedWasDisplayed ==
  Spec => [](pc \in {"reload", "verify", "marking", "done"} =>
               derived[newT] > 0 /\ receipt # Empty /\ receipt.t = newT)
<1>1. SaveInv /\ Shown =>
        (pc \in {"reload", "verify", "marking", "done"} =>
           derived[newT] > 0 /\ receipt # Empty /\ receipt.t = newT)
  <2> SUFFICES ASSUME SaveInv, Shown, pc \in {"reload", "verify", "marking"}
               PROVE  receipt # Empty /\ receipt.t = newT
    BY DEF Shown
  <2>1. receipt = ToSave /\ newT \in Ts
    BY DEF SaveInv, SavedFirst, Shown
  <2> QED
    BY <2>1, Domains DEF ToSave
<1> QED
  BY <1>1, InitShown, ShownStep, SavesKeepStep, PTL DEF Spec

\* Until a boot fails to read its counter, no other boot displayed that charge.
THEOREM DisplayIsRetained == Spec => [](BootReadsCounter => DisplayedIsRetained)
<1>1. SaveInv /\ Shown /\ NoCounterReuse =>
        (pc \in {"reload", "verify", "marking", "done"} => derived[newT] = 1)
  <2> SUFFICES ASSUME SaveInv, Shown, NoCounterReuse,
                      pc \in {"reload", "verify", "marking", "done"}
               PROVE  derived[newT] = 1
    OBVIOUS
  <2>1. newT \in Ts /\ derived[newT] > 0
    BY DEF Shown
  <2>2. derived[newT] \in Nat /\ derived[newT] <= 1
    BY <2>1 DEF SaveInv, TypeOK, NoCounterReuse
  <2> QED
    BY <2>1, <2>2
<1> DEFINE D == pc \in {"reload", "verify", "marking", "done"} =>
                  derived[newT] > 0 /\ receipt # Empty /\ receipt.t = newT
           O == pc \in {"reload", "verify", "marking", "done"} => derived[newT] = 1
<1>2. D /\ O => DisplayedIsRetained
  BY DEF DisplayedIsRetained
<1>3. SaveInv /\ Shown /\ NoCounterReuse => O
  BY <1>1
<1>4. Spec => []D
  BY RetainedWasDisplayed
<1> HIDE DEF D, O
<1> QED
  BY <1>2, <1>3, <1>4, InitShown, ShownStep, SavesKeepStep, CounterNeverReused, PTL DEF Spec
=============================================================================
