------------------------ MODULE ReceiverSdk_proofs ------------------------
(***************************************************************************)
(* Proofs about the receiver facade, for any number of threads, SeedIds,   *)
(* materials, counters and restarts, and for both counters.                *)
(***************************************************************************)
EXTENDS ReceiverSdk, FiniteSetTheorems, TLAPS

\* Quantizing an instant: the defining equation of integer division.
LEMMA QuantumDef ==
  ASSUME NEW a \in Nat, NEW w \in Nat \ {0}
  PROVE  /\ a \div w \in Nat
         /\ a = w * (a \div w) + (a % w)
         /\ a % w \in 0..(w - 1)
  OBVIOUS

LEMMA TimesStep ==
  ASSUME NEW w \in Nat, NEW q \in Nat, NEW r \in Nat, q >= r + 1
  PROVE  w * q >= w * r + w
  OBVIOUS

\* The quantum of a later instant is not smaller.
LEMMA QuantumMonotonic ==
  ASSUME NEW a \in Nat, NEW b \in Nat, NEW w \in Nat \ {0}, a <= b
  PROVE  a \div w <= b \div w
<1>1. CASE a \div w >= (b \div w) + 1
  <2> DEFINE q == a \div w
             r == b \div w
  <2>1. /\ q \in Nat /\ r \in Nat
        /\ a >= w * q /\ b < w * r + w
        /\ w * q \in Int /\ w * r \in Int
    BY QuantumDef
  <2>2. w * q >= w * r + w
    <3> HIDE DEF q, r
    <3> QED
      BY <2>1, <1>1, TimesStep DEF q, r
  <2> QED
    BY <2>1, <2>2
<1>2. CASE ~ (a \div w >= (b \div w) + 1)
  BY <1>2, QuantumDef
<1> QED
  BY <1>1, <1>2

\* The process starts in a state of the inductive invariant.
LEMMA InitIInv == Init => IInv
<1> SUFFICES ASSUME Init PROVE IInv
  OBVIOUS
<1> USE DEF Init, NoSeeds, NoReceipts, NoneIssued, AllIdle, Idle
<1>1. TypeOK
  <2>1. /\ MaxCounter \in Nat
        /\ MaxTime \in Nat
        /\ MaxRestarts \in Nat
    BY CounterAssumption, TimeAssumption, RestartsAssumption
    DEF CounterAssumption, TimeAssumption, RestartsAssumption
  <2>2. now \in 0..MaxTime /\ restarts \in 0..MaxRestarts
    BY <2>1
  <2>3. lastIssued \in [SeedIds -> Counters \cup {-1}]
    BY <2>1 DEF Counters
  <2>4. call \in [Threads -> Calls]
    BY DEF Calls
  <2>5. seeds \in [SeedIds -> Materials \cup {None}]
    OBVIOUS
  <2>6. receipts \in [Keys -> Receipt \cup {None}]
    OBVIOUS
  <2>7. owner \in [Materials -> SeedIds \cup {None}]
    OBVIOUS
  <2>8. issued \in [Codes -> Nat] /\ accepted \in [Codes -> Nat]
    OBVIOUS
  <2> QED
    BY <2>2, <2>3, <2>4, <2>5, <2>6, <2>7, <2>8 DEF TypeOK
<1>2. SeedsOwned /\ ReceiptsReserved /\ SavesFresh /\ MarksHeld
  BY DEF SeedsOwned, ReceiptsReserved, SavesFresh, MarksHeld, Reading
<1>3. LiveCountersPassed /\ UndrawnUnissued
  BY DEF LiveCountersPassed, UndrawnUnissued, Codes
<1>4. CodeIssuedAtMostOnce /\ AcceptedCodeIsClosed /\ AcceptedCodeWasIssued
  BY DEF CodeIssuedAtMostOnce, AcceptedCodeIsClosed, AcceptedCodeWasIssued
<1> QED
  BY <1>1, <1>2, <1>3, <1>4 DEF IInv

-----------------------------------------------------------------------------
(***************************************************************************)
(* What needs no assumption on the store: a process may restart over a     *)
(* durable one at any time and with any counter.                           *)
(***************************************************************************)
\* The quantum of an instant that is explored fits the counter.
LEMMA QuantumInCounters ==
  ASSUME NEW n \in 0..MaxTime
  PROVE  n \div Window \in Counters
<1>1. /\ MaxTime \in Nat /\ MaxCounter \in Nat /\ Window \in Nat \ {0}
      /\ MaxTime \div Window <= MaxCounter
  BY TimeAssumption, CounterAssumption, WindowAssumption
  DEF TimeAssumption, CounterAssumption, WindowAssumption
<1>2. /\ n \in Nat /\ n <= MaxTime
      /\ n \div Window \in Nat /\ MaxTime \div Window \in Nat
  BY <1>1, QuantumDef
<1>3. n \div Window <= MaxTime \div Window
  BY <1>1, <1>2, QuantumMonotonic
<1> QED
  BY <1>1, <1>2, <1>3 DEF Counters

\* Every step keeps the state well typed.
LEMMA StepTypeOK ==
  ASSUME TypeOK, [Next]_vars
  PROVE  TypeOK'
<1> USE DEF TypeOK, store, clock, history
<1>1. Idle \in Calls
  BY DEF Idle, Calls
<1>2. ASSUME NEW s \in SeedIds, NEW m \in Materials, Register(s, m)
      PROVE  TypeOK'
  BY <1>2 DEF Register
<1>3. ASSUME NEW th \in Threads, NEW s \in SeedIds, GetSeed(th, s)
      PROVE  TypeOK'
  <2>1. [op |-> "counter", sid |-> s, seed |-> seeds[s]] \in Calls
    BY <1>3 DEF Calls, GetSeed
  <2>2. call' \in [Threads -> Calls]
    BY <1>3, <2>1 DEF GetSeed
  <2> QED
    BY <1>3, <2>2 DEF GetSeed
<1>4. ASSUME NEW th \in Threads, NEW k \in Keys, NEW c \in Codes, GetReceipt(th, k, c)
      PROVE  TypeOK'
  <2>1. [op |-> "mark", key |-> k, code |-> c] \in Calls
    BY DEF Calls
  <2>2. call' \in [Threads -> Calls]
    BY <1>4, <2>1 DEF GetReceipt
  <2> QED
    BY <1>4, <2>2 DEF GetReceipt
<1>5. ASSUME NEW th \in Threads, Fail(th), UNCHANGED <<store, clock, history, restarts>>
      PROVE  TypeOK'
  BY <1>1, <1>5 DEF Fail
<1>6. ASSUME NEW th \in Threads, NEW t \in Counters, Reading(th), Reserve(th, t),
             UNCHANGED <<store, clock, history, restarts>>
      PROVE  TypeOK'
  <2>1. /\ call[th].sid \in SeedIds
        /\ <<call[th].sid, t>> \in Keys /\ <<call[th].seed, t>> \in Codes
    BY <1>6 DEF Reading, Calls, Keys, Codes
  <2>2. Derived(call[th].sid, call[th].seed, t) \in Calls
    BY <2>1 DEF Derived, Calls
  <2>3. call' \in [Threads -> Calls] /\ lastIssued' \in [SeedIds -> Counters \cup {-1}]
    BY <1>6, <2>1, <2>2 DEF Reserve
  <2> QED
    BY <1>6, <2>3
<1>7. ASSUME NEW th \in Threads, NextSequential(th)
      PROVE  TypeOK'
  <2>1. Reading(th) /\ lastIssued[call[th].sid] \in Counters \cup {-1}
    BY <1>7 DEF NextSequential, Reading, Calls
  <2>2. lastIssued[call[th].sid] < MaxCounter => lastIssued[call[th].sid] + 1 \in Counters
    BY <2>1, CounterAssumption DEF CounterAssumption, Counters
  <2> QED
    BY <1>5, <1>6, <1>7, <2>1, <2>2 DEF NextSequential
<1>8. ASSUME NEW th \in Threads, ReadClock(th)
      PROVE  TypeOK'
  <2>1. now \div Window \in Counters
    BY QuantumInCounters
  <2>2. [op |-> "issue", sid |-> call[th].sid, seed |-> call[th].seed,
         t |-> now \div Window] \in Calls
    BY <1>8, <2>1 DEF ReadClock, Calls
  <2>3. call' \in [Threads -> Calls]
    BY <1>8, <2>2 DEF ReadClock
  <2> QED
    BY <1>8, <2>3 DEF ReadClock
<1>9. ASSUME NEW th \in Threads, NextQuantized(th)
      PROVE  TypeOK'
  <2>1. Reading(th) /\ call[th].t \in Counters
    BY <1>9 DEF NextQuantized, Reading, Calls
  <2> QED
    BY <1>5, <1>6, <1>9, <2>1 DEF NextQuantized
<1>10. ASSUME NEW th \in Threads, SaveReceipt(th)
       PROVE  TypeOK'
  <2>1. /\ call[th].key \in Keys /\ call[th].code \in Codes
        /\ [code |-> call[th].code, consumed |-> FALSE] \in Receipt
    BY <1>10 DEF SaveReceipt, Calls, Receipt
  <2> QED
    BY <1>1, <1>10, <2>1 DEF SaveReceipt
<1>11. ASSUME NEW th \in Threads, MarkConsumed(th)
       PROVE  TypeOK'
  <2>1. /\ call[th].key \in Keys /\ call[th].code \in Codes
        /\ receipts[call[th].key] \in Receipt
    BY <1>11 DEF MarkConsumed, Calls
  <2>2. [receipts[call[th].key] EXCEPT !.consumed = TRUE] \in Receipt
    BY <2>1 DEF Receipt
  <2> QED
    BY <1>1, <1>11, <2>1, <2>2 DEF MarkConsumed
<1>12. ASSUME NEW th \in Threads, StoreFails(th)
       PROVE  TypeOK'
  BY <1>5, <1>12 DEF StoreFails
<1>13. CASE Tick \/ SetClockBack
  <2>1. now' \in 0..MaxTime
    BY <1>13, TimeAssumption DEF TimeAssumption, Tick, SetClockBack
  <2> QED
    BY <1>13, <2>1 DEF Tick, SetClockBack
<1>14. CASE Restart
  <2>1. call' \in [Threads -> Calls]
    BY <1>1, <1>14 DEF Restart, AllIdle
  <2>2. lastIssued' \in [SeedIds -> Counters \cup {-1}]
    BY <1>14, CounterAssumption DEF CounterAssumption, Restart, NoneIssued, Counters
  <2>3. /\ seeds' \in [SeedIds -> Materials \cup {None}]
        /\ receipts' \in [Keys -> Receipt \cup {None}]
    BY <1>14 DEF Restart, NoSeeds, NoReceipts
  <2>4. restarts' \in 0..MaxRestarts
    BY <1>14, RestartsAssumption DEF RestartsAssumption, Restart
  <2> QED
    BY <1>14, <2>1, <2>2, <2>3, <2>4 DEF Restart
<1>15. CASE UNCHANGED vars
  BY <1>15 DEF vars
<1> QED
  BY <1>2, <1>3, <1>4, <1>7, <1>8, <1>9, <1>10, <1>11, <1>12, <1>13, <1>14, <1>15
  DEF Next, Step

\* An acceptance and the receipt it is decided on are of codes that were saved.
CodesWereIssued ==
  /\ \A k \in Keys : receipts[k] # None => issued[receipts[k].code] > 0
  /\ \A th \in Threads : call[th].op = "mark" => issued[call[th].code] > 0
  /\ AcceptedCodeWasIssued

\* Every step of the process, a restart over a durable store included, accepts
\* codes of saved charges only.
LEMMA StepIssued ==
  ASSUME TypeOK, CodesWereIssued, [Next]_vars
  PROVE  CodesWereIssued'
<1> USE DEF TypeOK, CodesWereIssued, AcceptedCodeWasIssued, store, clock, history
<1>1. ASSUME NEW s \in SeedIds, NEW m \in Materials, Register(s, m)
      PROVE  CodesWereIssued'
  BY <1>1 DEF Register
<1>2. ASSUME NEW th \in Threads, NEW s \in SeedIds, GetSeed(th, s)
      PROVE  CodesWereIssued'
  BY <1>2 DEF GetSeed
<1>3. ASSUME NEW th \in Threads, NEW k \in Keys, NEW c \in Codes, GetReceipt(th, k, c)
      PROVE  CodesWereIssued'
  <2>1. receipts[k].code = c
    BY <1>3 DEF GetReceipt, ApplyValidateReceipt
  <2> QED
    BY <1>3, <2>1 DEF GetReceipt
<1>4. ASSUME NEW th \in Threads,
             NextSequential(th) \/ ReadClock(th) \/ NextQuantized(th) \/ StoreFails(th)
      PROVE  CodesWereIssued'
  BY <1>4 DEF NextSequential, ReadClock, NextQuantized, StoreFails, Reserve, Derived,
     Fail, Idle
<1>5. ASSUME NEW th \in Threads, SaveReceipt(th)
      PROVE  CodesWereIssued'
  <2> DEFINE k0 == call[th].key
             c0 == call[th].code
  <2>1. /\ k0 \in Keys /\ c0 \in Codes
        /\ receipts' = [receipts EXCEPT ![k0] = [code |-> c0, consumed |-> FALSE]]
        /\ issued' = [issued EXCEPT ![c0] = @ + 1]
        /\ call' = [call EXCEPT ![th] = Idle]
        /\ accepted' = accepted
    BY <1>5 DEF SaveReceipt, Calls
  <2>2. /\ issued'[c0] > 0
        /\ \A c \in Codes : issued[c] > 0 => issued'[c] > 0
    BY <2>1
  <2>3. \A k \in Keys : receipts[k] # None => receipts[k].code \in Codes
    BY DEF Receipt
  <2>4. \A th1 \in Threads : call[th1].op = "mark" => call[th1].code \in Codes
    BY DEF Calls
  <2>5. ASSUME NEW k \in Keys, receipts'[k] # None
        PROVE  issued'[receipts'[k].code] > 0
    BY <2>1, <2>2, <2>3, <2>5
  <2>6. ASSUME NEW th1 \in Threads, call'[th1].op = "mark"
        PROVE  issued'[call'[th1].code] > 0
    BY <2>1, <2>2, <2>4, <2>6 DEF Idle
  <2> QED
    BY <2>1, <2>2, <2>5, <2>6
<1>6. ASSUME NEW th \in Threads, MarkConsumed(th)
      PROVE  CodesWereIssued'
  <2> DEFINE k0 == call[th].key
             c0 == call[th].code
  <2>1. /\ k0 \in Keys /\ c0 \in Codes
        /\ receipts[k0] \in Receipt /\ receipts[k0] # None
        /\ receipts' = [receipts EXCEPT ![k0].consumed = TRUE]
        /\ accepted' = [accepted EXCEPT ![c0] = @ + 1]
        /\ call' = [call EXCEPT ![th] = Idle]
        /\ issued' = issued /\ issued[c0] > 0
    BY <1>6 DEF MarkConsumed, Calls
  <2>2. \A k \in Keys : receipts'[k] # None =>
          receipts[k] # None /\ receipts'[k].code = receipts[k].code
    BY <2>1 DEF Receipt
  <2> QED
    BY <2>1, <2>2 DEF Idle
<1>7. CASE Restart
  BY <1>7 DEF Restart, NoReceipts, AllIdle, Idle
<1>8. CASE Tick \/ SetClockBack \/ UNCHANGED vars
  BY <1>8 DEF Tick, SetClockBack, vars
<1> QED
  BY <1>1, <1>2, <1>3, <1>4, <1>5, <1>6, <1>7, <1>8 DEF Next, Step

\* Every state the facade reaches is well typed, whatever store and counter it
\* was given and however often it restarts.
THEOREM TypeCorrect == Spec => []TypeOK
<1>1. Init => TypeOK
  BY InitIInv DEF IInv
<1>2. TypeOK /\ [Next]_vars => TypeOK'
  BY StepTypeOK
<1> QED
  BY <1>1, <1>2, PTL DEF Spec

\* Only codes of charges that were saved are ever accepted, even by a process that
\* comes back over a durable store with its counters reset (validate_receipt reads
\* the code it compares with from the store).
THEOREM OnlyIssuedAccepted == Spec => []AcceptedCodeWasIssued
<1>1. Init => CodesWereIssued
  BY DEF Init, NoReceipts, AllIdle, Idle, CodesWereIssued, AcceptedCodeWasIssued
<1>2. TypeOK /\ CodesWereIssued /\ [Next]_vars => CodesWereIssued'
  BY StepIssued
<1>3. CodesWereIssued => AcceptedCodeWasIssued
  BY DEF CodesWereIssued
<1> QED
  BY <1>1, <1>2, <1>3, TypeCorrect, PTL DEF Spec

\* register replaces a seed by material nobody has used.
LEMMA RegisterIInv ==
  ASSUME IInv, NEW s \in SeedIds, NEW m \in Materials, Register(s, m)
  PROVE  IInv'
<1> USE DEF IInv, TypeOK
<1> USE DEF Register, clock
<1>1. TypeOK'
  OBVIOUS
<1>2. SeedsOwned'
  BY NoneAssumption DEF NoneAssumption, SeedsOwned, Reading, Calls
<1>3. ReceiptsReserved'
  BY NoneAssumption DEF NoneAssumption, ReceiptsReserved, Reserved, Receipt, UndrawnUnissued, Codes, Keys
<1>4. SavesFresh'
  BY NoneAssumption DEF NoneAssumption, SavesFresh, Reserved, Calls, Codes, Keys
<1>5. MarksHeld'
  BY DEF MarksHeld
<1>6. LiveCountersPassed'
  BY NoneAssumption DEF NoneAssumption, LiveCountersPassed, UndrawnUnissued, Live, Reading, Codes
<1>7. UndrawnUnissued'
  BY NoneAssumption DEF NoneAssumption, UndrawnUnissued
<1>8. CodeIssuedAtMostOnce' /\ AcceptedCodeIsClosed' /\ AcceptedCodeWasIssued'
  BY DEF CodeIssuedAtMostOnce, AcceptedCodeIsClosed, AcceptedCodeWasIssued
<1> QED
  BY <1>1, <1>2, <1>3, <1>4, <1>5, <1>6, <1>7, <1>8
\* get_seed: the call holds the registered material.
LEMMA GetSeedIInv ==
  ASSUME IInv, NEW th \in Threads, NEW s \in SeedIds, GetSeed(th, s)
  PROVE  IInv'
<1> USE DEF IInv, TypeOK, GetSeed, store, clock, history
<1>1. TypeOK'
  <2>1. [op |-> "counter", sid |-> s, seed |-> seeds[s]] \in Calls
    BY DEF Calls, GetSeed
  <2>2. call' \in [Threads -> Calls]
    BY <2>1 DEF GetSeed
  <2> QED
    BY <2>2
<1>2. SeedsOwned'
  BY NoneAssumption DEF NoneAssumption, SeedsOwned, Reading, Calls
<1>3. ReceiptsReserved'
  BY DEF ReceiptsReserved, Reserved
<1>4. SavesFresh'
  BY DEF SavesFresh, Reserved, Calls
<1>5. MarksHeld'
  BY DEF MarksHeld, Calls
<1>6. LiveCountersPassed'
  BY DEF LiveCountersPassed, Live, Reading, Calls
<1>7. UndrawnUnissued'
  BY DEF UndrawnUnissued
<1>8. CodeIssuedAtMostOnce' /\ AcceptedCodeIsClosed' /\ AcceptedCodeWasIssued'
  BY DEF CodeIssuedAtMostOnce, AcceptedCodeIsClosed, AcceptedCodeWasIssued
<1> QED
  BY <1>1, <1>2, <1>3, <1>4, <1>5, <1>6, <1>7, <1>8

\* The clock is read before the lock is taken.
LEMMA ReadClockIInv ==
  ASSUME IInv, NEW th \in Threads, ReadClock(th)
  PROVE  IInv'
<1> USE DEF IInv, TypeOK, ReadClock, store, clock, history
<1>0. now \div Window \in Counters
  BY TimeAssumption, CounterAssumption, WindowAssumption,
     QuantumDef, QuantumMonotonic
  DEF TimeAssumption, CounterAssumption, WindowAssumption, Counters
<1>1. TypeOK'
  <2>1. [op |-> "issue", sid |-> call[th].sid, seed |-> call[th].seed,
         t |-> now \div Window] \in Calls
    BY <1>0 DEF Calls
  <2>2. call' \in [Threads -> Calls]
    BY <2>1
  <2> QED
    BY <2>2
<1>2. SeedsOwned'
  BY DEF SeedsOwned, Reading, Calls
<1>3. ReceiptsReserved'
  BY DEF ReceiptsReserved, Reserved
<1>4. SavesFresh'
  BY DEF SavesFresh, Reserved, Calls
<1>5. MarksHeld'
  BY DEF MarksHeld, Calls
<1>6. LiveCountersPassed'
  BY DEF LiveCountersPassed, Live, Reading, Calls
<1>7. UndrawnUnissued'
  BY DEF UndrawnUnissued
<1>8. CodeIssuedAtMostOnce' /\ AcceptedCodeIsClosed' /\ AcceptedCodeWasIssued'
  BY DEF CodeIssuedAtMostOnce, AcceptedCodeIsClosed, AcceptedCodeWasIssued
<1> QED
  BY <1>1, <1>2, <1>3, <1>4, <1>5, <1>6, <1>7, <1>8

\* get_receipt: a call about to answer Valid holds the code of the receipt.
LEMMA GetReceiptIInv ==
  ASSUME IInv, NEW th \in Threads, NEW k \in Keys, NEW c \in Codes, GetReceipt(th, k, c)
  PROVE  IInv'
<1> USE DEF IInv, TypeOK, GetReceipt, store, clock, history
<1>1. TypeOK'
  BY DEF Calls
<1>2. SeedsOwned'
  BY DEF SeedsOwned, Reading, Calls
<1>3. ReceiptsReserved'
  BY DEF ReceiptsReserved, Reserved
<1>4. SavesFresh'
  BY DEF SavesFresh, Reserved, Calls
<1>5. MarksHeld'
  BY DEF MarksHeld, Calls, ApplyValidateReceipt
<1>6. LiveCountersPassed'
  BY DEF LiveCountersPassed, Live, Reading, Calls
<1>7. UndrawnUnissued'
  BY DEF UndrawnUnissued
<1>8. CodeIssuedAtMostOnce' /\ AcceptedCodeIsClosed' /\ AcceptedCodeWasIssued'
  BY DEF CodeIssuedAtMostOnce, AcceptedCodeIsClosed, AcceptedCodeWasIssued
<1> QED
  BY <1>1, <1>2, <1>3, <1>4, <1>5, <1>6, <1>7, <1>8

\* A counter that refuses ends the call.
LEMMA FailIInv ==
  ASSUME IInv, NEW th \in Threads, Fail(th),
         UNCHANGED <<store, clock, owner, issued, accepted, restarts>>
  PROVE  IInv'
<1> USE DEF IInv, TypeOK, Fail, Idle, store, clock
<1>1. TypeOK'
  BY DEF Calls
<1>2. SeedsOwned'
  BY DEF SeedsOwned, Reading, Calls
<1>3. ReceiptsReserved'
  BY DEF ReceiptsReserved, Reserved
<1>4. SavesFresh'
  BY DEF SavesFresh, Reserved, Calls
<1>5. MarksHeld'
  BY DEF MarksHeld, Calls
<1>6. LiveCountersPassed'
  BY DEF LiveCountersPassed, Live, Reading, Calls
<1>7. UndrawnUnissued'
  BY DEF UndrawnUnissued
<1>8. CodeIssuedAtMostOnce' /\ AcceptedCodeIsClosed' /\ AcceptedCodeWasIssued'
  BY DEF CodeIssuedAtMostOnce, AcceptedCodeIsClosed, AcceptedCodeWasIssued
<1> QED
  BY <1>1, <1>2, <1>3, <1>4, <1>5, <1>6, <1>7, <1>8

\* A counter above the last one issued gives the charge a key and a code that
\* are new to the store and to every other call.
LEMMA ReserveIInv ==
  ASSUME IInv, NEW th \in Threads, NEW t \in Counters, Reading(th),
         t > lastIssued[call[th].sid], Reserve(th, t),
         UNCHANGED <<store, clock, owner, issued, accepted, restarts>>
  PROVE  IInv'
<1> DEFINE s == call[th].sid
           m == call[th].seed
           k0 == <<s, t>>
           c0 == <<m, t>>
<1> USE DEF IInv, TypeOK, store, clock
<1>1. /\ s \in SeedIds
      /\ m \in Materials
      /\ owner[m] = s
      /\ Live(m)
      /\ k0 \in Keys
      /\ c0 \in Codes
  BY DEF Reading, Calls, SeedsOwned, Live, Keys, Codes
<1>2. /\ call' = [call EXCEPT ![th] = [op |-> "save", key |-> k0, code |-> c0]]
      /\ lastIssued' = [lastIssued EXCEPT ![s] = t]
  BY DEF Reserve, Derived
<1>3. /\ Counters \subseteq Int
      /\ \A u \in SeedIds : lastIssued[u] \in Int
  BY CounterAssumption DEF CounterAssumption, Counters
<1>4. /\ \A u \in SeedIds : lastIssued'[u] \in Int /\ lastIssued[u] <= lastIssued'[u]
      /\ lastIssued'[s] = t
      /\ lastIssued[s] < t
  BY <1>1, <1>2, <1>3
<1>5. \A k \in Keys, c \in Codes : Reserved(k, c) => Reserved(k, c)'
  <2> SUFFICES ASSUME NEW k \in Keys, NEW c \in Codes, Reserved(k, c)
               PROVE  Reserved(k, c)'
    OBVIOUS
  <2>1. k[1] \in SeedIds /\ k[2] \in Int
    BY <1>3 DEF Keys
  <2>2. k[2] <= lastIssued[k[1]] /\ lastIssued[k[1]] <= lastIssued'[k[1]]
    BY <2>1, <1>4 DEF Reserved
  <2>3. k[2] <= lastIssued'[k[1]]
    BY <2>1, <2>2, <1>3, <1>4
  <2> QED
    BY <2>3 DEF Reserved
<1>6. /\ owner'[c0[1]] = k0[1] /\ c0[2] = k0[2] /\ k0[2] <= lastIssued'[k0[1]]
      /\ k0[2] > lastIssued[k0[1]]
  BY <1>1, <1>3, <1>4
<1>7. \A k \in Keys, c \in Codes : Reserved(k, c) => k # k0
  BY <1>1, <1>3, <1>4, <1>6 DEF Reserved, Keys
<1>8. issued[c0] = 0
  <2>1. ~ (issued[c0] > 0)
    BY <1>1, <1>3, <1>4 DEF LiveCountersPassed
  <2> QED
    BY <2>1, <1>1
<1>9. receipts[k0] = None
  BY <1>1, <1>7 DEF ReceiptsReserved, Receipt
<1>10. TypeOK'
  <2>1. [op |-> "save", key |-> k0, code |-> c0] \in Calls
    BY <1>1 DEF Calls
  <2> QED
    BY <2>1, <1>2
<1>11. SeedsOwned'
  BY <1>2 DEF SeedsOwned, Reading, Calls
<1>12. ReceiptsReserved'
  BY <1>5 DEF ReceiptsReserved, Receipt
<1>13. SavesFresh'
  <2>1. \A th1 \in Threads : call[th1].op = "save" =>
          /\ call[th1].key \in Keys
          /\ call[th1].code \in Codes
          /\ call[th1].key # k0
    BY <1>7 DEF SavesFresh, Calls
  <2>2. \A th1 \in Threads : call'[th1].op = "save" =>
          /\ owner'[call'[th1].code[1]] = call'[th1].key[1]
          /\ call'[th1].code[2] = call'[th1].key[2]
          /\ call'[th1].key[2] <= lastIssued'[call'[th1].key[1]]
          /\ issued[call'[th1].code] = 0
          /\ receipts[call'[th1].key] = None
    <3> TAKE th1 \in Threads
    <3>1. CASE th1 = th
      <4>1. call'[th1].key = k0 /\ call'[th1].code = c0
        BY <3>1, <1>2
      <4> QED
        BY <4>1, <1>6, <1>8, <1>9
    <3>2. CASE th1 # th
      <4>1. call'[th1] = call[th1]
        BY <3>2, <1>2
      <4> QED
        BY <4>1, <2>1, <1>5 DEF SavesFresh, Reserved
    <3> QED
      BY <3>1, <3>2
  <2>3. \A th1, th2 \in Threads :
          /\ call'[th1].op = "save" /\ call'[th2].op = "save"
          /\ call'[th1].key = call'[th2].key
          => th1 = th2
    BY <1>2, <2>1 DEF SavesFresh
  <2> QED
    BY <2>2, <2>3 DEF SavesFresh, Reserved
<1>14. MarksHeld'
  BY <1>2 DEF MarksHeld
<1>15. LiveCountersPassed'
  <2>1. \A n \in Materials : Live(n)' => Live(n)
    BY <1>2 DEF Live, Reading
  <2> SUFFICES ASSUME NEW n \in Materials, NEW u \in Counters,
                      Live(n), issued[<<n, u>>] > 0
               PROVE  u <= lastIssued'[owner[n]]
    BY <2>1 DEF LiveCountersPassed
  <2>2. u <= lastIssued[owner[n]]
    BY DEF LiveCountersPassed
  <2>3. owner[n] \in SeedIds
    <3>1. CASE \E u1 \in SeedIds : seeds[u1] = n
      BY <3>1, NoneAssumption DEF NoneAssumption, SeedsOwned
    <3>2. CASE \E th1 \in Threads : Reading(th1) /\ call[th1].seed = n
      BY <3>2 DEF SeedsOwned, Reading, Calls
    <3> QED
      BY <3>1, <3>2 DEF Live
  <2> QED
    BY <2>2, <2>3, <1>3, <1>4
<1>16. UndrawnUnissued'
  BY DEF UndrawnUnissued
<1>17. CodeIssuedAtMostOnce' /\ AcceptedCodeIsClosed' /\ AcceptedCodeWasIssued'
  BY DEF CodeIssuedAtMostOnce, AcceptedCodeIsClosed, AcceptedCodeWasIssued
<1> QED
  BY <1>10, <1>11, <1>12, <1>13, <1>14, <1>15, <1>16, <1>17

\* save_receipt enters a receipt under an unused key.
LEMMA SaveReceiptIInv ==
  ASSUME IInv, NEW th \in Threads, SaveReceipt(th)
  PROVE  IInv'
<1> DEFINE k0 == call[th].key
           c0 == call[th].code
<1> USE DEF IInv, TypeOK, clock
<1>1. k0 \in Keys /\ c0 \in Codes
  BY DEF SaveReceipt, Calls
<1>2. /\ Reserved(k0, c0)
      /\ issued[c0] = 0
      /\ receipts[k0] = None
  BY DEF SaveReceipt, SavesFresh
<1>3. /\ receipts' = [receipts EXCEPT ![k0] = [code |-> c0, consumed |-> FALSE]]
      /\ issued' = [issued EXCEPT ![c0] = 1]
      /\ call' = [call EXCEPT ![th] = Idle]
      /\ UNCHANGED <<seeds, lastIssued, now, setBack, owner, accepted, restarts>>
  BY <1>1, <1>2 DEF SaveReceipt
<1>4. \A k \in Keys, c \in Codes : Reserved(k, c)' = Reserved(k, c)
  BY <1>3 DEF Reserved
<1>5. TypeOK'
  <2>1. Idle \in Calls /\ [code |-> c0, consumed |-> FALSE] \in Receipt
    BY <1>1 DEF Idle, Calls, Receipt
  <2> QED
    BY <2>1, <1>3
<1>6. SeedsOwned'
  BY <1>3 DEF SeedsOwned, Reading, Idle
<1>7. ReceiptsReserved'
  BY <1>1, <1>2, <1>3, <1>4 DEF ReceiptsReserved, Receipt
<1>8. SavesFresh'
  <2>1. \A th1 \in Threads : call'[th1].op = "save" =>
          /\ th1 # th
          /\ call'[th1] = call[th1]
    BY <1>3 DEF Idle
  <2>2. \A th1 \in Threads : call[th1].op = "save" =>
          call[th1].key \in Keys /\ call[th1].code \in Codes
    BY DEF Calls
  \* two keys with the same owner and counter are the same key
  <2>3. \A th1 \in Threads : call[th1].op = "save" /\ th1 # th =>
          call[th1].key # k0 /\ call[th1].code # c0
    <3> SUFFICES ASSUME NEW th1 \in Threads, call[th1].op = "save", th1 # th
                 PROVE  call[th1].key # k0 /\ call[th1].code # c0
      OBVIOUS
    <3>1. call[th].op = "save"
      BY DEF SaveReceipt
    <3>2. call[th1].key # k0
      BY <3>1 DEF SavesFresh
    <3>3. Reserved(call[th1].key, call[th1].code)
      BY DEF SavesFresh
    <3>4. call[th1].code = c0 => call[th1].key = k0
      BY <3>3, <1>1, <1>2, <2>2 DEF Reserved, Keys
    <3> QED
      BY <3>2, <3>4
  <2> QED
    BY <1>3, <1>4, <2>1, <2>2, <2>3 DEF SavesFresh
<1>9. MarksHeld'
  BY <1>1, <1>2, <1>3 DEF MarksHeld, Idle, Calls
<1>10. LiveCountersPassed'
  <2> SUFFICES ASSUME NEW n \in Materials, NEW u \in Counters,
                      Live(n)', issued'[<<n, u>>] > 0
               PROVE  u <= lastIssued'[owner'[n]]
    BY DEF LiveCountersPassed
  <2>1. Live(n)
    BY <1>3 DEF Live, Reading, Idle
  <2>2. CASE <<n, u>> = c0
    BY <2>2, <1>2, <1>3 DEF Reserved
  <2>3. CASE <<n, u>> # c0
    BY <2>1, <2>3, <1>3 DEF LiveCountersPassed, Codes
  <2> QED
    BY <2>2, <2>3
<1>11. UndrawnUnissued'
  <2>1. owner[c0[1]] # None
    BY <1>1, <1>2, NoneAssumption DEF NoneAssumption, Reserved, Keys
  <2> QED
    BY <2>1, <1>3 DEF UndrawnUnissued, Codes
<1>12. CodeIssuedAtMostOnce' /\ AcceptedCodeWasIssued'
  BY <1>1, <1>2, <1>3 DEF CodeIssuedAtMostOnce, AcceptedCodeWasIssued
<1>13. AcceptedCodeIsClosed'
  <2>1. ~ (accepted[c0] > 0)
    BY <1>1, <1>2 DEF AcceptedCodeWasIssued
  <2> QED
    BY <2>1, <1>1, <1>3 DEF AcceptedCodeIsClosed
<1> QED
  BY <1>5, <1>6, <1>7, <1>8, <1>9, <1>10, <1>11, <1>12, <1>13

\* mark_consumed closes the receipt whose code is being accepted.
LEMMA MarkConsumedIInv ==
  ASSUME IInv, NEW th \in Threads, MarkConsumed(th)
  PROVE  IInv'
<1> USE DEF IInv, TypeOK, MarkConsumed, Idle, clock
<1>0. /\ call[th].key \in Keys
      /\ call[th].code \in Codes
      /\ receipts[call[th].key] \in Receipt
      /\ receipts[call[th].key].code = call[th].code
      /\ issued[call[th].code] > 0
  BY DEF Calls, MarksHeld, ReceiptsReserved
<1>1. TypeOK'
  <2>1. [receipts[call[th].key] EXCEPT !.consumed = TRUE] \in Receipt
    BY <1>0 DEF Receipt
  <2>2. Idle \in Calls
    BY DEF Calls
  <2> QED
    BY <1>0, <2>1, <2>2
<1>2. SeedsOwned'
  BY DEF SeedsOwned, Reading, Calls
<1>3. ReceiptsReserved'
  BY <1>0 DEF ReceiptsReserved, Reserved, Receipt
<1>4. SavesFresh'
  BY <1>0 DEF SavesFresh, Reserved, Calls
<1>5. MarksHeld'
  BY <1>0, NoneAssumption DEF NoneAssumption, MarksHeld, Calls, Receipt
<1>6. LiveCountersPassed'
  BY DEF LiveCountersPassed, Live, Reading, Calls
<1>7. UndrawnUnissued'
  BY DEF UndrawnUnissued
<1>8. CodeIssuedAtMostOnce' /\ AcceptedCodeIsClosed' /\ AcceptedCodeWasIssued'
  <2>1. CodeIssuedAtMostOnce' /\ AcceptedCodeWasIssued'
    BY <1>0 DEF CodeIssuedAtMostOnce, AcceptedCodeWasIssued
  \* only one key holds the code that is accepted
  <2>2. \A k \in Keys :
          /\ receipts[k] # None
          /\ receipts[k].code = call[th].code
          => k = call[th].key
    BY <1>0 DEF ReceiptsReserved, Reserved, Keys
  <2>3. AcceptedCodeIsClosed'
    BY <1>0, <2>2 DEF AcceptedCodeIsClosed, Receipt
  <2> QED
    BY <2>1, <2>3
<1> QED
  BY <1>1, <1>2, <1>3, <1>4, <1>5, <1>6, <1>7, <1>8

\* The wall clock is read by nothing the invariant speaks of.
LEMMA ClockIInv ==
  ASSUME IInv, Tick \/ SetClockBack
  PROVE  IInv'
<1> USE DEF IInv, TypeOK, Tick, SetClockBack, store, history
<1>1. TypeOK'
  <2>1. now' \in 0..MaxTime
    BY TimeAssumption DEF TimeAssumption
  <2> QED
    BY <2>1
<1>2. SeedsOwned'
  BY DEF SeedsOwned, Reading, Calls
<1>3. ReceiptsReserved'
  BY DEF ReceiptsReserved, Reserved
<1>4. SavesFresh'
  BY DEF SavesFresh, Reserved, Calls
<1>5. MarksHeld'
  BY DEF MarksHeld, Calls
<1>6. LiveCountersPassed'
  BY DEF LiveCountersPassed, Live, Reading, Calls
<1>7. UndrawnUnissued'
  BY DEF UndrawnUnissued
<1>8. CodeIssuedAtMostOnce' /\ AcceptedCodeIsClosed' /\ AcceptedCodeWasIssued'
  BY DEF CodeIssuedAtMostOnce, AcceptedCodeIsClosed, AcceptedCodeWasIssued
<1> QED
  BY <1>1, <1>2, <1>3, <1>4, <1>5, <1>6, <1>7, <1>8

\* A restart forgets the counters, the calls and, with them, the store.
LEMMA RestartIInv ==
  ASSUME IInv, StoreDiesWithCounter, Restart
  PROVE  IInv'
<1> USE DEF IInv, TypeOK
<1>1. /\ restarts' = restarts + 1
      /\ restarts < MaxRestarts
      /\ lastIssued' = NoneIssued
      /\ call' = AllIdle
      /\ seeds' = NoSeeds
      /\ receipts' = NoReceipts
      /\ UNCHANGED <<now, setBack, owner, issued, accepted>>
  <2>1. MaxRestarts # 0
    BY RestartsAssumption DEF RestartsAssumption, Restart
  <2> QED
    BY <2>1 DEF Restart, StoreDiesWithCounter, clock, history
<1>2. \A th \in Threads : call'[th] = Idle
  BY <1>1 DEF AllIdle
<1>3. (\A s \in SeedIds : seeds'[s] = None) /\ (\A k \in Keys : receipts'[k] = None)
  BY <1>1 DEF NoSeeds, NoReceipts
<1>4. TypeOK'
  <2>1. call' \in [Threads -> Calls]
    BY <1>1 DEF AllIdle, Idle, Calls
  <2>2. lastIssued' \in [SeedIds -> Counters \cup {-1}]
    BY <1>1, CounterAssumption DEF CounterAssumption, NoneIssued, Counters
  <2>3. seeds' \in [SeedIds -> Materials \cup {None}]
    BY <1>1 DEF NoSeeds
  <2>4. receipts' \in [Keys -> Receipt \cup {None}]
    BY <1>1 DEF NoReceipts
  <2>5. restarts' \in 0..MaxRestarts
    BY <1>1, RestartsAssumption DEF RestartsAssumption
  <2> QED
    BY <1>1, <2>1, <2>2, <2>3, <2>4, <2>5
<1>5. SeedsOwned' /\ SavesFresh' /\ MarksHeld'
  BY <1>2, <1>3 DEF SeedsOwned, SavesFresh, MarksHeld, Reading, Idle
<1>6. ReceiptsReserved'
  BY <1>3 DEF ReceiptsReserved
<1>7. LiveCountersPassed'
  <2>1. \A n \in Materials : ~ Live(n)'
    BY <1>2, <1>3, NoneAssumption DEF NoneAssumption, Live, Reading, Idle
  <2> QED
    BY <2>1 DEF LiveCountersPassed
<1>8. UndrawnUnissued'
  BY <1>1 DEF UndrawnUnissued
<1>9. CodeIssuedAtMostOnce' /\ AcceptedCodeIsClosed' /\ AcceptedCodeWasIssued'
  BY <1>1, <1>3 DEF CodeIssuedAtMostOnce, AcceptedCodeIsClosed, AcceptedCodeWasIssued
<1> QED
  BY <1>4, <1>5, <1>6, <1>7, <1>8, <1>9

\* Every step of the process preserves the inductive invariant.
LEMMA NextIInv ==
  ASSUME StoreDiesWithCounter, IInv, [Next]_vars
  PROVE  IInv'
<1>1. ASSUME NEW s \in SeedIds, NEW m \in Materials, Register(s, m)
      PROVE  IInv'
  BY <1>1, RegisterIInv
<1>2. ASSUME NEW th \in Threads, NEW s \in SeedIds, GetSeed(th, s)
      PROVE  IInv'
  BY <1>2, GetSeedIInv
<1>3. ASSUME NEW th \in Threads, NEW k \in Keys, NEW c \in Codes,
             GetReceipt(th, k, c)
      PROVE  IInv'
  BY <1>3, GetReceiptIInv
<1>4. ASSUME NEW th \in Threads, NextSequential(th)
      PROVE  IInv'
  <2> DEFINE last == lastIssued[call[th].sid]
  <2>1. Reading(th) /\ last \in Counters \cup {-1}
    BY <1>4 DEF NextSequential, Reading, IInv, TypeOK, Calls
  <2>2. CASE last < MaxCounter /\ Reserve(th, last + 1)
    <3>1. last + 1 \in Counters /\ last + 1 > last
      BY <2>1, <2>2, CounterAssumption DEF CounterAssumption, Counters
    <3> QED
      BY <1>4, <2>1, <2>2, <3>1, ReserveIInv
      DEF NextSequential, history, IInv, TypeOK
  <2>3. CASE Fail(th)
    BY <1>4, <2>3, FailIInv DEF NextSequential, history, IInv, TypeOK
  <2> QED
    BY <1>4, <2>2, <2>3 DEF NextSequential
<1>5. ASSUME NEW th \in Threads, ReadClock(th)
      PROVE  IInv'
  BY <1>5, ReadClockIInv
<1>6. ASSUME NEW th \in Threads, NextQuantized(th)
      PROVE  IInv'
  <2> DEFINE t == call[th].t
  <2>1. Reading(th) /\ t \in Counters
    BY <1>6 DEF NextQuantized, Reading, IInv, TypeOK, Calls
  <2>2. CASE t > lastIssued[call[th].sid] /\ Reserve(th, t)
    BY <1>6, <2>1, <2>2, ReserveIInv DEF NextQuantized, history
  <2>3. CASE Fail(th)
    BY <1>6, <2>3, FailIInv DEF NextQuantized, history
  <2> QED
    BY <1>6, <2>2, <2>3 DEF NextQuantized
<1>7. ASSUME NEW th \in Threads, SaveReceipt(th)
      PROVE  IInv'
  BY <1>7, SaveReceiptIInv
<1>8. ASSUME NEW th \in Threads, MarkConsumed(th)
      PROVE  IInv'
  BY <1>8, MarkConsumedIInv
<1>9. CASE Tick \/ SetClockBack
  BY <1>9, ClockIInv
<1>10. CASE Restart
  BY <1>10, RestartIInv
<1>11. CASE UNCHANGED vars
  BY <1>11 DEF vars, IInv, TypeOK, SeedsOwned, ReceiptsReserved, Reserved,
     SavesFresh, MarksHeld, LiveCountersPassed, Live, Reading, UndrawnUnissued,
     CodeIssuedAtMostOnce, AcceptedCodeIsClosed, AcceptedCodeWasIssued
<1>12. ASSUME NEW th \in Threads, StoreFails(th)
       PROVE  IInv'
  BY <1>12, FailIInv DEF StoreFails, history, IInv, TypeOK
<1> QED
  BY <1>1, <1>2, <1>3, <1>4, <1>5, <1>6, <1>7, <1>8, <1>9, <1>10, <1>11, <1>12
  DEF Next, Step

\* The inductive invariant holds in every reachable state of a process whose
\* store dies with its counter.
THEOREM Invariance ==
  ASSUME StoreDiesWithCounter
  PROVE  Spec => []IInv
<1>1. IInv /\ [Next]_vars => IInv'
  BY NextIInv
<1> QED
  BY <1>1, InitIInv, PTL DEF Spec

\* No confirmation code is ever derived for two charges, whatever threads
\* generate, register or restart, in either counter mode.
THEOREM CodesAreUnique ==
  ASSUME StoreDiesWithCounter
  PROVE  Spec => []CodeIssuedAtMostOnce
<1>1. IInv => CodeIssuedAtMostOnce
  BY DEF IInv
<1> QED
  BY <1>1, Invariance, PTL

\* After a code has been accepted no retained receipt with it is open, so a
\* presentation that begins afterwards is answered with Replay.
THEOREM AcceptanceIsFinal ==
  ASSUME StoreDiesWithCounter
  PROVE  Spec => []AcceptedCodeIsClosed
<1>1. IInv => AcceptedCodeIsClosed
  BY DEF IInv
<1> QED
  BY <1>1, Invariance, PTL

\* A step of the facade is a step of the append-only ledger, or does not touch
\* the receipts: save_receipt enters, the first mark_consumed of a receipt
\* settles, an overlapping one changes nothing.
LEMMA LedgerStep ==
  ASSUME TypeOK, SavesFresh, CodesWereIssued, [Next]_vars
  PROVE  [Ledger!Next]_receipts
<1>1. ASSUME NEW th \in Threads, SaveReceipt(th)
      PROVE  Ledger!Next
  <2> DEFINE k0 == call[th].key
             c0 == call[th].code
  <2>1. k0 \in Keys /\ c0 \in Codes
    BY <1>1 DEF SaveReceipt, TypeOK, Calls
  <2>2. receipts[k0] = None /\ issued[c0] = 0
    BY <1>1 DEF SaveReceipt, SavesFresh
  <2>3. \A j \in Keys : receipts[j] # None => receipts[j].code # c0
    BY <2>2 DEF CodesWereIssued
  <2>4. Ledger!Enter(k0, c0)
    BY <1>1, <2>2, <2>3 DEF SaveReceipt, Ledger!Enter
  <2> QED
    BY <2>1, <2>4 DEF Ledger!Next
<1>2. ASSUME NEW th \in Threads, MarkConsumed(th)
      PROVE  Ledger!Next \/ UNCHANGED receipts
  <2> DEFINE k0 == call[th].key
  <2>1. /\ k0 \in Keys
        /\ receipts[k0] # None
        /\ receipts[k0] \in Receipt
        /\ receipts' = [receipts EXCEPT ![k0].consumed = TRUE]
    BY <1>2 DEF MarkConsumed, TypeOK, Calls
  <2>2. CASE receipts[k0].consumed
    <3>1. [receipts[k0] EXCEPT !.consumed = TRUE] = receipts[k0]
      BY <2>1, <2>2 DEF Receipt
    <3> QED
      BY <2>1, <3>1 DEF TypeOK
  <2>3. CASE ~ receipts[k0].consumed
    <3>1. Ledger!Settle(k0)
      BY <2>1, <2>3 DEF Ledger!Settle
    <3> QED
      BY <2>1, <3>1 DEF Ledger!Next
  <2> QED
    BY <2>2, <2>3
<1>3. ASSUME Restart
      PROVE  Ledger!Next \/ UNCHANGED receipts
  <2>1. CASE Durable
    BY <1>3, <2>1 DEF Restart, store
  <2>2. CASE ~ Durable
    <3>1. Ledger!Lose
      BY <1>3, <2>2 DEF Restart, NoReceipts, Ledger!Lose
    <3> QED
      BY <3>1 DEF Ledger!Next
  <2> QED
    BY <2>1, <2>2
<1>4. ASSUME \/ \E s \in SeedIds, m \in Materials : Register(s, m)
             \/ \E th \in Threads, s \in SeedIds : GetSeed(th, s)
             \/ \E th \in Threads, k \in Keys, c \in Codes : GetReceipt(th, k, c)
             \/ \E th \in Threads : \/ NextSequential(th)
                                    \/ ReadClock(th)
                                    \/ NextQuantized(th)
                                    \/ StoreFails(th)
             \/ Tick
             \/ SetClockBack
             \/ UNCHANGED vars
      PROVE  UNCHANGED receipts
  BY <1>4 DEF Register, GetSeed, GetReceipt, NextSequential, ReadClock,
     NextQuantized, StoreFails, Tick, SetClockBack, store, vars
<1> QED
  BY <1>1, <1>2, <1>3, <1>4 DEF Next, Step

\* The retained receipts implement the append-only ledger: no charge is
\* overwritten, reopened or entered twice, whatever the interleaving.
THEOREM ImplementsLedger ==
  ASSUME StoreDiesWithCounter
  PROVE  Spec => LedgerSpec
<1>1. Init => Ledger!Init
  BY DEF Init, NoReceipts, Ledger!Init
<1>2. IInv /\ [Next]_vars => [Ledger!Next]_receipts
  <2>1. IInv => TypeOK /\ SavesFresh /\ CodesWereIssued
    BY DEF IInv, TypeOK, Calls, MarksHeld, ReceiptsReserved, CodesWereIssued
  <2> QED
    BY <2>1, LedgerStep
<1> QED
  BY <1>1, <1>2, Invariance, PTL DEF Spec, LedgerSpec, Ledger!Spec

\* A call that is about to answer Valid, when calls cannot overlap, is the first
\* of its code.
SerialInv == MarksFirst /\ AcceptedAtMostOnce

LEMMA SerialStep ==
  ASSUME SerialCalls, TypeOK, AcceptedCodeIsClosed, SerialInv, [Next]_vars
  PROVE  SerialInv'
<1> USE DEF SerialInv
<1> USE DEF TypeOK
<1>1. ASSUME NEW th \in Threads, NEW k \in Keys, NEW c \in Codes,
             GetReceipt(th, k, c)
      PROVE  SerialInv'
  <2>1. receipts[k].code = c /\ ~ receipts[k].consumed
    BY <1>1 DEF GetReceipt, ApplyValidateReceipt
  <2>2. accepted[c] = 0
    BY <1>1, <2>1 DEF GetReceipt, AcceptedCodeIsClosed
  <2>3. call' = [call EXCEPT ![th] = [op |-> "mark", key |-> k, code |-> c]]
        /\ accepted' = accepted
    BY <1>1 DEF GetReceipt, history
  <2> QED
    BY <2>2, <2>3 DEF MarksFirst, AcceptedAtMostOnce
<1>2. ASSUME NEW th \in Threads, MarkConsumed(th)
      PROVE  SerialInv'
  <2>1. call[th].code \in Codes /\ accepted[call[th].code] = 0
    BY <1>2 DEF MarkConsumed, MarksFirst, Calls
  <2>2. \A th1 \in Threads : call'[th1] = Idle
    BY <1>2 DEF MarkConsumed, SerialCalls
  <2> QED
    BY <1>2, <2>1, <2>2 DEF MarkConsumed, MarksFirst, AcceptedAtMostOnce, Idle
<1>3. ASSUME Restart
      PROVE  SerialInv'
  BY <1>3 DEF Restart, AllIdle, Idle, history, MarksFirst, AcceptedAtMostOnce
<1>4. ASSUME NEW s \in SeedIds, NEW m \in Materials, Register(s, m)
      PROVE  SerialInv'
  BY <1>4 DEF Register, MarksFirst, AcceptedAtMostOnce
<1>5. ASSUME NEW th \in Threads, NEW s \in SeedIds, GetSeed(th, s)
      PROVE  SerialInv'
  BY <1>5 DEF GetSeed, history, MarksFirst, AcceptedAtMostOnce
<1>6. ASSUME NEW th \in Threads, NextSequential(th) \/ NextQuantized(th) \/ StoreFails(th)
      PROVE  SerialInv'
  BY <1>6 DEF NextSequential, NextQuantized, StoreFails, Reserve, Derived, Fail, Idle,
     history, MarksFirst, AcceptedAtMostOnce
<1>7. ASSUME NEW th \in Threads, ReadClock(th)
      PROVE  SerialInv'
  BY <1>7 DEF ReadClock, history, MarksFirst, AcceptedAtMostOnce
<1>8. ASSUME NEW th \in Threads, SaveReceipt(th)
      PROVE  SerialInv'
  BY <1>8 DEF SaveReceipt, Idle, MarksFirst, AcceptedAtMostOnce
<1>9. CASE Tick \/ SetClockBack \/ UNCHANGED vars
  BY <1>9 DEF Tick, SetClockBack, vars, history, MarksFirst, AcceptedAtMostOnce
<1> QED
  BY <1>1, <1>2, <1>3, <1>4, <1>5, <1>6, <1>7, <1>8, <1>9 DEF Next, Step

LEMMA InitSerial == Init => SerialInv
  BY DEF Init, AllIdle, Idle, MarksFirst, AcceptedAtMostOnce, SerialInv

\* When validations cannot overlap, Valid is answered at most once for a code:
\* the overlap is the only way to a second acceptance.
THEOREM SerialReplayRejected ==
  ASSUME StoreDiesWithCounter, SerialCalls
  PROVE  Spec => []AcceptedAtMostOnce
<1>1. IInv /\ SerialInv /\ [Next]_vars => SerialInv'
  BY SerialStep DEF IInv
<1>2. SerialInv => AcceptedAtMostOnce
  BY DEF SerialInv
<1> QED
  BY <1>1, <1>2, InitSerial, Invariance, PTL DEF Spec

\* Threads that are about to answer Valid for a code.
Marking(c) == {th \in Threads : call[th].op = "mark" /\ call[th].code = c}

\* Every acceptance of a code was decided while its receipt was open.
LEMMA MarkingStep ==
  ASSUME IsFiniteSet(Threads), TypeOK, AcceptedCodeIsClosed, NEW c \in Codes,
         accepted[c] + Cardinality(Marking(c)) <= Cardinality(Threads), [Next]_vars
  PROVE  (accepted[c] + Cardinality(Marking(c)) <= Cardinality(Threads))'
<1> USE DEF TypeOK
<1>0. /\ IsFiniteSet(Marking(c)) /\ Cardinality(Marking(c)) \in Nat
      /\ IsFiniteSet(Marking(c)') /\ Cardinality(Marking(c)') \in Nat
      /\ Cardinality(Marking(c)') <= Cardinality(Threads)
      /\ Cardinality(Threads) \in Nat /\ accepted[c] \in Nat
  BY FS_Subset, FS_CardinalityType DEF Marking
<1>1. ASSUME Marking(c)' \subseteq Marking(c), accepted' = accepted
      PROVE  (accepted[c] + Cardinality(Marking(c)) <= Cardinality(Threads))'
  <2>1. Cardinality(Marking(c)') <= Cardinality(Marking(c))
    BY <1>0, <1>1, FS_Subset
  <2> QED
    BY <1>0, <1>1, <2>1
<1>2. ASSUME NEW th \in Threads, NEW k \in Keys, NEW d \in Codes, GetReceipt(th, k, d)
      PROVE  (accepted[c] + Cardinality(Marking(c)) <= Cardinality(Threads))'
  <2>1. accepted' = accepted
    BY <1>2 DEF GetReceipt, history
  <2>2. CASE d = c
    <3>1. receipts[k] # None /\ receipts[k].code = c /\ ~ receipts[k].consumed
      BY <1>2, <2>2 DEF GetReceipt, ApplyValidateReceipt
    <3>2. ~ (accepted[c] > 0)
      BY <3>1 DEF AcceptedCodeIsClosed
    <3> QED
      BY <1>0, <2>1, <3>2
  <2>3. CASE d # c
    BY <1>1, <1>2, <2>1, <2>3 DEF GetReceipt, Marking
  <2> QED
    BY <2>2, <2>3
<1>3. ASSUME NEW th \in Threads, MarkConsumed(th)
      PROVE  (accepted[c] + Cardinality(Marking(c)) <= Cardinality(Threads))'
  <2>1. /\ call' = [call EXCEPT ![th] = Idle]
        /\ accepted' = [accepted EXCEPT ![call[th].code] = @ + 1]
        /\ call[th].op = "mark"
    BY <1>3 DEF MarkConsumed
  <2>2. Marking(c)' = Marking(c) \ {th}
    BY <2>1 DEF Marking, Idle
  <2>3. CASE call[th].code = c
    <3>1. th \in Marking(c)
      BY <2>1, <2>3 DEF Marking
    <3>2. Cardinality(Marking(c)') = Cardinality(Marking(c)) - 1
      BY <1>0, <2>2, <3>1, FS_RemoveElement
    <3>3. accepted'[c] = accepted[c] + 1
      BY <2>1, <2>3
    <3> QED
      BY <1>0, <3>2, <3>3
  <2>4. CASE call[th].code # c
    <3>1. Cardinality(Marking(c)') <= Cardinality(Marking(c))
      BY <1>0, <2>2, FS_Subset
    <3>2. accepted'[c] = accepted[c]
      BY <2>1, <2>4
    <3> QED
      BY <1>0, <3>1, <3>2
  <2> QED
    BY <2>3, <2>4
<1>4. ASSUME NEW s \in SeedIds, NEW m \in Materials, Register(s, m)
      PROVE  Marking(c)' \subseteq Marking(c) /\ accepted' = accepted
  BY <1>4 DEF Register, Marking
<1>5. ASSUME NEW th \in Threads, NEW s \in SeedIds, GetSeed(th, s)
      PROVE  Marking(c)' \subseteq Marking(c) /\ accepted' = accepted
  BY <1>5 DEF GetSeed, Marking, history
<1>6. ASSUME NEW th \in Threads,
             NextSequential(th) \/ ReadClock(th) \/ NextQuantized(th) \/ SaveReceipt(th)
               \/ StoreFails(th)
      PROVE  Marking(c)' \subseteq Marking(c) /\ accepted' = accepted
  BY <1>6 DEF NextSequential, ReadClock, NextQuantized, SaveReceipt, StoreFails,
     Reserve, Derived, Fail, Idle, Marking, history
<1>7. CASE Tick \/ SetClockBack \/ Restart \/ UNCHANGED vars
  BY <1>1, <1>7 DEF Tick, SetClockBack, Restart, AllIdle, Idle, vars, Marking, history
<1> QED
  BY <1>1, <1>2, <1>3, <1>4, <1>5, <1>6, <1>7 DEF Next, Step

MarkingsCounted ==
  \A c \in Codes : accepted[c] + Cardinality(Marking(c)) <= Cardinality(Threads)

LEMMA InitMarkings ==
  ASSUME IsFiniteSet(Threads), Init
  PROVE  MarkingsCounted
<1> SUFFICES ASSUME NEW c \in Codes
             PROVE  accepted[c] + Cardinality(Marking(c)) <= Cardinality(Threads)
  BY DEF MarkingsCounted
<1>1. Marking(c) = {} /\ accepted[c] = 0
  BY DEF Init, AllIdle, Idle, Marking
<1> QED
  BY <1>1, FS_EmptySet, FS_CardinalityType

LEMMA MarkingsBound ==
  ASSUME IsFiniteSet(Threads), TypeOK, MarkingsCounted
  PROVE  AcceptedAtMostOncePerCaller
<1> SUFFICES ASSUME NEW c \in Codes
             PROVE  accepted[c] <= Cardinality(Threads)
  BY DEF AcceptedAtMostOncePerCaller
<1>1. /\ Cardinality(Marking(c)) \in Nat /\ Cardinality(Threads) \in Nat
      /\ accepted[c] \in Nat
  BY FS_Subset, FS_CardinalityType DEF Marking, TypeOK
<1>2. accepted[c] + Cardinality(Marking(c)) <= Cardinality(Threads)
  BY DEF MarkingsCounted
<1> QED
  BY <1>1, <1>2

\* However many threads present a code, it obtains Valid at most once for each
\* of them: the overlap of validations never grows with time.
THEOREM AcceptancesBounded ==
  ASSUME StoreDiesWithCounter, IsFiniteSet(Threads)
  PROVE  Spec => []AcceptedAtMostOncePerCaller
<1>1. Init => MarkingsCounted
  BY InitMarkings
<1>2. IInv /\ MarkingsCounted /\ [Next]_vars => MarkingsCounted'
  BY MarkingStep DEF IInv, MarkingsCounted
<1>3. IInv /\ MarkingsCounted => AcceptedAtMostOncePerCaller
  BY MarkingsBound DEF IInv
<1> QED
  BY <1>1, <1>2, <1>3, Invariance, PTL DEF Spec

\* A clock that was not set back is never behind a quantum read from it.
ReadsBehindClock ==
  ~ Sequential /\ ~ setBack =>
    \A th \in Threads : call[th].op = "issue" => call[th].t <= now \div Window

\* For every window and any number of threads, a counter is ahead of the clock
\* only if the clock has been set back, whatever the store and the restarts.
THEOREM CountersFollowClock == Spec => []CounterBehindClock
<1> DEFINE CInv == CounterBehindClock /\ ReadsBehindClock
<1> USE DEF CounterBehindClock, ReadsBehindClock
<1>0. ASSUME NEW n \in 0..MaxTime PROVE n \in Nat /\ n \div Window \in Nat
  BY TimeAssumption, WindowAssumption, QuantumDef DEF TimeAssumption, WindowAssumption
<1>1. Init => CInv
  <2> SUFFICES ASSUME Init PROVE CInv
    OBVIOUS
  <2>1. 0 \div Window \in Nat
    BY WindowAssumption, QuantumDef DEF WindowAssumption
  <2> QED
    BY <2>1 DEF Init, NoneIssued, AllIdle, Idle
<1>2. TypeOK /\ CInv /\ [Next]_vars => CInv'
  <2> SUFFICES ASSUME TypeOK, CInv, [Next]_vars
               PROVE  CInv'
    OBVIOUS
  <2> USE DEF TypeOK
  <2>0. now \div Window \in Nat
    BY <1>0
  <2>1. ASSUME NEW th \in Threads, ReadClock(th)
        PROVE  CInv'
    BY <2>1, <2>0 DEF ReadClock, clock
  <2>2. ASSUME NEW th \in Threads, NextQuantized(th)
        PROVE  CInv'
    BY <2>2 DEF NextQuantized, Reserve, Derived, Fail, Idle, clock, Calls
  <2>3. ASSUME NEW th \in Threads, NextSequential(th)
        PROVE  CInv'
    BY <2>3 DEF NextSequential
  <2>4. ASSUME NEW th \in Threads, SaveReceipt(th) \/ MarkConsumed(th) \/ StoreFails(th)
        PROVE  CInv'
    BY <2>4 DEF SaveReceipt, MarkConsumed, StoreFails, Fail, Idle, clock
  <2>5. CASE Tick
    <3>1. /\ now \in Nat /\ now' \in Nat /\ now <= now'
          /\ UNCHANGED <<lastIssued, call, setBack>>
      BY <2>5, <1>0 DEF Tick
    <3>2. now \div Window <= now' \div Window /\ now' \div Window \in Nat
      BY <3>1, WindowAssumption, QuantumMonotonic, QuantumDef DEF WindowAssumption
    <3>3. \A s \in SeedIds : lastIssued[s] \in Int
      BY CounterAssumption DEF CounterAssumption, Counters
    <3>4. \A th \in Threads : call[th].op = "issue" => call[th].t \in Int
      BY CounterAssumption DEF CounterAssumption, Counters, Calls
    <3> QED
      BY <2>0, <3>1, <3>2, <3>3, <3>4
  <2>6. CASE SetClockBack
    BY <2>6 DEF SetClockBack
  <2>7. CASE Restart
    BY <2>7, <2>0 DEF Restart, NoneIssued, AllIdle, Idle, clock
  <2>8. ASSUME NEW s \in SeedIds, NEW m \in Materials, Register(s, m)
        PROVE  CInv'
    BY <2>8 DEF Register, clock
  <2>9. ASSUME NEW th \in Threads, NEW s \in SeedIds, GetSeed(th, s)
        PROVE  CInv'
    BY <2>9 DEF GetSeed, clock
  <2>10. ASSUME NEW th \in Threads, NEW k \in Keys, NEW c \in Codes, GetReceipt(th, k, c)
         PROVE  CInv'
    BY <2>10 DEF GetReceipt, clock
  <2>11. CASE UNCHANGED vars
    BY <2>11 DEF vars
  <2> QED
    BY <2>1, <2>2, <2>3, <2>4, <2>5, <2>6, <2>7, <2>8, <2>9, <2>10, <2>11 DEF Next, Step
<1> QED
  BY <1>1, <1>2, TypeCorrect, PTL DEF Spec

-----------------------------------------------------------------------------
(***************************************************************************)
(* A quantized counter over a durable store.  Finding it restarted in the  *)
(* quantum of a charge breaks uniqueness (QuantizedRestart); what follows  *)
(* is what a restart must respect for everything else to hold.             *)
(***************************************************************************)
DurableQuantized == Durable /\ ~ Sequential

\* The process comes back in a later quantum than that of every receipt it
\* retains, and from then on the clock is not set back.
SafeRestart ==
  /\ restarts' # restarts =>
       \A k \in Keys : receipts[k] # None => k[2] < now \div Window
  /\ restarts > 0 => now' >= now

\* A counter that was used for a SeedId is behind its last one or, when that
\* was forgotten, behind the clock.
Past(s, t) == t <= lastIssued[s] \/ (restarts > 0 /\ t < now \div Window)

ReceiptsKeyed ==
  \A k \in Keys : receipts[k] # None =>
    /\ owner[receipts[k].code[1]] = k[1]
    /\ receipts[k].code[2] = k[2]
    /\ issued[receipts[k].code] > 0

IssuedRetained ==
  \A m \in Materials, t \in Counters : issued[<<m, t>>] > 0 =>
    owner[m] # None /\ receipts[<<owner[m], t>>] # None

ReceiptsPast == \A k \in Keys : receipts[k] # None => Past(k[1], k[2])

\* A quantum that was read from the clock and is accepted by the counter is
\* later than those of the receipts.
ReadsLater ==
  \A th \in Threads : call[th].op = "issue" =>
    \A t \in Counters : receipts[<<call[th].sid, t>>] # None =>
      t <= lastIssued[call[th].sid] \/ t < call[th].t

DInv ==
  /\ TypeOK
  /\ SeedsOwned
  /\ SavesFresh
  /\ MarksHeld
  /\ ReceiptsKeyed
  /\ IssuedRetained
  /\ ReceiptsPast
  /\ ReadsLater
  /\ CodeIssuedAtMostOnce
  /\ AcceptedCodeIsClosed
  /\ AcceptedCodeWasIssued

\* The stores are empty and nothing was issued.
LEMMA InitDInv == Init => DInv
<1> SUFFICES ASSUME Init PROVE DInv
  OBVIOUS
<1>1. /\ TypeOK /\ SeedsOwned /\ SavesFresh /\ MarksHeld /\ CodeIssuedAtMostOnce
      /\ AcceptedCodeIsClosed /\ AcceptedCodeWasIssued
  BY InitIInv DEF IInv
<1>2. /\ \A k \in Keys : receipts[k] = None
      /\ \A c \in Codes : issued[c] = 0
      /\ \A th \in Threads : call[th].op = "idle"
  BY DEF Init, NoReceipts, AllIdle, Idle
<1>3. ReceiptsKeyed /\ ReceiptsPast /\ ReadsLater
  BY <1>2 DEF ReceiptsKeyed, ReceiptsPast, ReadsLater
<1>4. IssuedRetained
  BY <1>2 DEF IssuedRetained, Codes
<1> QED
  BY <1>1, <1>3, <1>4 DEF DInv

\* Counters, quanta and what the calls hold are integers.
LEMMA DNumbers ==
  ASSUME TypeOK
  PROVE  /\ Counters \subseteq Nat
         /\ \A s \in SeedIds : lastIssued[s] \in Int
         /\ now \div Window \in Nat
         /\ \A th \in Threads : call[th].op = "issue" => call[th].t \in Counters
<1>1. Counters \subseteq Nat
  BY CounterAssumption DEF CounterAssumption, Counters
<1>2. \A s \in SeedIds : lastIssued[s] \in Int
  BY CounterAssumption DEF CounterAssumption, Counters, TypeOK
<1>3. now \div Window \in Nat
  <2>1. now \div Window \in Counters
    BY QuantumInCounters DEF TypeOK
  <2> QED
    BY <1>1, <2>1
<1>4. \A th \in Threads : call[th].op = "issue" => call[th].t \in Counters
  BY DEF TypeOK, Calls
<1> QED
  BY <1>1, <1>2, <1>3, <1>4

\* A step that touches neither receipts, counters, clock nor histories, and
\* adds no call that is about to issue or to save.
LEMMA QuietDInv ==
  ASSUME DInv, TypeOK', SeedsOwned', MarksHeld',
         UNCHANGED <<receipts, lastIssued, now, owner, issued, accepted, restarts>>,
         \A th \in Threads : call'[th].op \in {"issue", "save"} => call'[th] = call[th]
  PROVE  DInv'
<1> USE DEF DInv
<1>1. SavesFresh'
  <2>1. \A th \in Threads : call'[th].op = "save" => call[th].op = "save" /\ call'[th] = call[th]
    OBVIOUS
  <2> QED
    BY <2>1 DEF SavesFresh, Reserved
<1>2. ReceiptsKeyed' /\ IssuedRetained' /\ ReceiptsPast'
  BY DEF ReceiptsKeyed, IssuedRetained, ReceiptsPast, Past
<1>3. ReadsLater'
  <2>1. \A th \in Threads : call'[th].op = "issue" => call[th].op = "issue" /\ call'[th] = call[th]
    OBVIOUS
  <2> QED
    BY <2>1 DEF ReadsLater
<1>4. CodeIssuedAtMostOnce' /\ AcceptedCodeIsClosed' /\ AcceptedCodeWasIssued'
  BY DEF CodeIssuedAtMostOnce, AcceptedCodeIsClosed, AcceptedCodeWasIssued
<1> QED
  BY <1>1, <1>2, <1>3, <1>4

\* register: the material is new, so no receipt and no issued code names it.
LEMMA RegisterDInv ==
  ASSUME DInv, TypeOK', NEW s \in SeedIds, NEW m \in Materials, Register(s, m)
  PROVE  DInv'
<1> USE DEF DInv, Register, clock
<1>1. /\ owner \in [Materials -> SeedIds \cup {None}]
      /\ owner' = [owner EXCEPT ![m] = s] /\ owner[m] = None
      /\ \A k \in Keys : receipts[k] # None => receipts[k].code \in Codes
      /\ s # None
  BY NoneAssumption DEF TypeOK, Receipt, NoneAssumption
<1>2. SeedsOwned'
  BY NoneAssumption DEF NoneAssumption, SeedsOwned, Reading, Calls, TypeOK
<1>3. SavesFresh'
  BY NoneAssumption DEF NoneAssumption, SavesFresh, Reserved, Calls, Codes, Keys, TypeOK
<1>4. MarksHeld'
  BY DEF MarksHeld
<1>5. ReceiptsKeyed'
  BY <1>1, NoneAssumption DEF NoneAssumption, ReceiptsKeyed, Codes, Keys
<1>6. IssuedRetained'
  BY <1>1 DEF IssuedRetained
<1>7. ReceiptsPast' /\ ReadsLater'
  BY DEF ReceiptsPast, Past, ReadsLater
<1>8. CodeIssuedAtMostOnce' /\ AcceptedCodeIsClosed' /\ AcceptedCodeWasIssued'
  BY DEF CodeIssuedAtMostOnce, AcceptedCodeIsClosed, AcceptedCodeWasIssued
<1> QED
  BY <1>2, <1>3, <1>4, <1>5, <1>6, <1>7, <1>8

\* The quantum read from the clock is later than every receipt whose counter
\* was forgotten.
LEMMA ReadClockDInv ==
  ASSUME DInv, TypeOK', NEW th \in Threads, ReadClock(th)
  PROVE  DInv'
<1> USE DEF DInv, ReadClock, store, clock, history
<1>1. /\ call[th].op = "counter" /\ call[th].sid \in SeedIds
      /\ call' = [call EXCEPT ![th] = [op |-> "issue", sid |-> call[th].sid,
                                       seed |-> call[th].seed, t |-> now \div Window]]
  BY DEF Calls, TypeOK
<1>2. SeedsOwned'
  BY DEF SeedsOwned, Reading, Calls, TypeOK
<1>3. SavesFresh'
  BY DEF SavesFresh, Reserved, Calls, TypeOK
<1>4. MarksHeld'
  BY DEF MarksHeld, Calls, TypeOK
<1>5. ReceiptsKeyed' /\ IssuedRetained' /\ ReceiptsPast'
  BY DEF ReceiptsKeyed, IssuedRetained, ReceiptsPast, Past
<1>6. ReadsLater'
  <2> SUFFICES ASSUME NEW th1 \in Threads, call'[th1].op = "issue", NEW t \in Counters,
                      receipts[<<call'[th1].sid, t>>] # None
               PROVE  t <= lastIssued[call'[th1].sid] \/ t < call'[th1].t
    BY DEF ReadsLater
  <2>1. CASE th1 = th
    <3>1. call'[th1].sid = call[th].sid /\ call'[th1].t = now \div Window
      BY <1>1, <2>1 DEF TypeOK
    <3>2. <<call[th].sid, t>> \in Keys /\ Past(call[th].sid, t)
      BY <1>1, <3>1 DEF Keys, ReceiptsPast
    <3> QED
      BY <3>1, <3>2 DEF Past
  <2>2. CASE th1 # th
    BY <1>1, <2>2 DEF ReadsLater, TypeOK
  <2> QED
    BY <2>1, <2>2
<1>7. CodeIssuedAtMostOnce' /\ AcceptedCodeIsClosed' /\ AcceptedCodeWasIssued'
  BY DEF CodeIssuedAtMostOnce, AcceptedCodeIsClosed, AcceptedCodeWasIssued
<1> QED
  BY <1>2, <1>3, <1>4, <1>5, <1>6, <1>7

\* A counter above the last one issued gives a key and a code that no receipt,
\* no charge and no other call has.
LEMMA ReserveDInv ==
  ASSUME DInv, TypeOK', NEW th \in Threads, call[th].op = "issue",
         call[th].t > lastIssued[call[th].sid], Reserve(th, call[th].t),
         UNCHANGED <<store, clock, history, restarts>>
  PROVE  DInv'
<1> DEFINE s == call[th].sid
           m == call[th].seed
           t == call[th].t
           k0 == <<s, t>>
           c0 == <<m, t>>
<1> USE DEF DInv, store, clock, history
<1>1. /\ s \in SeedIds /\ m \in Materials /\ t \in Counters
      /\ owner[m] = s
      /\ k0 \in Keys /\ c0 \in Codes
  BY DEF TypeOK, Reading, Calls, SeedsOwned, Keys, Codes
<1>2. /\ call' = [call EXCEPT ![th] = [op |-> "save", key |-> k0, code |-> c0]]
      /\ lastIssued' = [lastIssued EXCEPT ![s] = t]
      /\ UNCHANGED <<seeds, receipts, now, setBack, owner, issued, accepted, restarts>>
      /\ lastIssued[s] < t
  BY <1>1, DNumbers DEF Reserve, Derived
<1>3. /\ Counters \subseteq Nat /\ now \div Window \in Nat
      /\ \A u \in SeedIds : lastIssued[u] \in Int /\ lastIssued'[u] \in Int
      /\ \A u \in SeedIds : lastIssued[u] <= lastIssued'[u]
      /\ lastIssued'[s] = t
  <2>1. /\ Counters \subseteq Nat /\ now \div Window \in Nat
        /\ \A u \in SeedIds : lastIssued[u] \in Int
    BY DNumbers
  <2>2. lastIssued'[s] = t /\ \A u \in SeedIds : u # s => lastIssued'[u] = lastIssued[u]
    BY <1>1, <1>2 DEF TypeOK
  <2> QED
    BY <1>1, <1>2, <2>1, <2>2
<1>4. receipts[k0] = None
  BY <1>1, <1>2, <1>3 DEF ReadsLater
<1>5. issued[c0] = 0
  <2>1. ~ (issued[c0] > 0)
    BY <1>1, <1>4 DEF IssuedRetained
  <2>2. issued[c0] \in Nat
    BY <1>1 DEF TypeOK
  <2> QED
    BY <2>1, <2>2
<1>6. SeedsOwned'
  BY <1>2 DEF SeedsOwned, Reading, Calls, TypeOK
<1>7. SavesFresh'
  <2>1. ASSUME NEW th1 \in Threads, call[th1].op = "save", th1 # th
        PROVE  /\ call'[th1] = call[th1]
               /\ call[th1].key \in Keys /\ call[th1].code \in Codes
               /\ call[th1].key # k0
               /\ call[th1].key[2] <= lastIssued'[call[th1].key[1]]
    <3>1. /\ call[th1].key \in Keys /\ call[th1].code \in Codes
          /\ call'[th1] = call[th1]
          /\ Reserved(call[th1].key, call[th1].code)
      BY <1>2, <2>1 DEF SavesFresh, Calls, TypeOK
    <3>2. /\ call[th1].key[1] \in SeedIds /\ call[th1].key[2] \in Nat
          /\ call[th1].key[2] <= lastIssued[call[th1].key[1]]
      BY <1>3, <3>1 DEF Reserved, Keys
    <3> QED
      BY <1>1, <1>2, <1>3, <3>1, <3>2
  <2>2. ASSUME NEW th1 \in Threads, call'[th1].op = "save"
        PROVE  /\ Reserved(call[th1].key, call[th1].code)' 
               /\ issued[call'[th1].code] = 0
               /\ receipts[call'[th1].key] = None
    <3>1. CASE th1 = th
      <4>1. call'[th1].key = k0 /\ call'[th1].code = c0
        BY <1>2, <3>1 DEF TypeOK
      <4>2. t <= t
        BY <1>1, <1>3
      <4> QED
        BY <1>1, <1>2, <1>3, <1>4, <1>5, <4>1, <4>2 DEF Reserved
    <3>2. CASE th1 # th
      <4>1. call'[th1] = call[th1] /\ call[th1].op = "save"
        BY <1>2, <2>2, <3>2 DEF TypeOK
      <4> QED
        BY <1>2, <2>1, <3>2, <4>1 DEF SavesFresh, Reserved
    <3> QED
      BY <3>1, <3>2
  <2>3. ASSUME NEW th1 \in Threads, NEW th2 \in Threads,
               call'[th1].op = "save", call'[th2].op = "save",
               call'[th1].key = call'[th2].key
        PROVE  th1 = th2
    <3>1. \A u \in Threads : u # th => call'[u] = call[u]
      BY <1>2 DEF TypeOK
    <3>2. call'[th].key = k0
      BY <1>2 DEF TypeOK
    <3> QED
      BY <2>1, <2>3, <3>1, <3>2 DEF SavesFresh
  <2> QED
    BY <1>2, <2>2, <2>3 DEF SavesFresh
<1>8. MarksHeld'
  BY <1>2 DEF MarksHeld, TypeOK
<1>9. ReceiptsKeyed' /\ IssuedRetained'
  BY <1>2 DEF ReceiptsKeyed, IssuedRetained
<1>10. ReceiptsPast'
  <2> SUFFICES ASSUME NEW k \in Keys, receipts[k] # None
               PROVE  Past(k[1], k[2])'
    BY <1>2 DEF ReceiptsPast
  <2>1. Past(k[1], k[2]) /\ k[1] \in SeedIds /\ k[2] \in Nat
    BY <1>3 DEF ReceiptsPast, Keys
  <2>2. CASE k[2] <= lastIssued[k[1]]
    BY <1>2, <1>3, <2>1, <2>2 DEF Past
  <2>3. CASE restarts > 0 /\ k[2] < now \div Window
    BY <1>2, <2>3 DEF Past
  <2> QED
    BY <2>1, <2>2, <2>3 DEF Past
<1>11. ReadsLater'
  <2> SUFFICES ASSUME NEW th1 \in Threads, call'[th1].op = "issue", NEW u \in Counters,
                      receipts[<<call'[th1].sid, u>>] # None
               PROVE  u <= lastIssued'[call'[th1].sid] \/ u < call'[th1].t
    BY <1>2 DEF ReadsLater
  <2>1. th1 # th /\ call'[th1] = call[th1]
    BY <1>2 DEF TypeOK
  <2>2. call[th1].sid \in SeedIds /\ u \in Nat
    BY <1>3, <2>1 DEF TypeOK, Calls
  <2>3. u <= lastIssued[call[th1].sid] \/ u < call[th1].t
    BY <2>1 DEF ReadsLater
  <2> QED
    BY <1>3, <2>1, <2>2, <2>3
<1>12. CodeIssuedAtMostOnce' /\ AcceptedCodeIsClosed' /\ AcceptedCodeWasIssued'
  BY <1>2 DEF CodeIssuedAtMostOnce, AcceptedCodeIsClosed, AcceptedCodeWasIssued
<1> QED
  BY <1>6, <1>7, <1>8, <1>9, <1>10, <1>11, <1>12

\* save_receipt enters the receipt of a reserved counter.
LEMMA SaveReceiptDInv ==
  ASSUME DInv, TypeOK', NEW th \in Threads, SaveReceipt(th)
  PROVE  DInv'
<1> DEFINE k0 == call[th].key
           c0 == call[th].code
<1> USE DEF DInv, clock
<1>1. k0 \in Keys /\ c0 \in Codes
  BY DEF SaveReceipt, Calls, TypeOK
<1>2. /\ Reserved(k0, c0)
      /\ issued[c0] = 0
      /\ receipts[k0] = None
      /\ call[th].op = "save"
  BY DEF SaveReceipt, SavesFresh
<1>3. /\ receipts' = [receipts EXCEPT ![k0] = [code |-> c0, consumed |-> FALSE]]
      /\ issued' = [issued EXCEPT ![c0] = 1]
      /\ call' = [call EXCEPT ![th] = Idle]
      /\ UNCHANGED <<seeds, lastIssued, now, setBack, owner, accepted, restarts>>
  BY <1>1, <1>2 DEF SaveReceipt
<1>4. /\ receipts'[k0].code = c0 /\ receipts'[k0] # None
      /\ \A k \in Keys : k # k0 => receipts'[k] = receipts[k]
      /\ issued'[c0] = 1
      /\ \A c \in Codes : c # c0 => issued'[c] = issued[c]
      /\ \A th1 \in Threads : call'[th1].op # "idle" =>
           th1 # th /\ call'[th1] = call[th1]
  <2>1. [code |-> c0, consumed |-> FALSE] \in Receipt
    BY <1>1 DEF Receipt
  <2>2. [code |-> c0, consumed |-> FALSE] # None
    BY <2>1, NoneAssumption DEF NoneAssumption
  <2> QED
    BY <1>1, <1>3, <2>2 DEF TypeOK, Idle
<1>5. SeedsOwned'
  BY <1>3 DEF SeedsOwned, Reading, Idle, TypeOK
<1>6. SavesFresh'
  <2>1. \A th1 \in Threads : call[th1].op = "save" =>
          call[th1].key \in Keys /\ call[th1].code \in Codes
    BY DEF Calls, TypeOK
  \* two keys with the same owner and counter are the same key
  <2>2. \A th1 \in Threads : call[th1].op = "save" /\ th1 # th =>
          call[th1].key # k0 /\ call[th1].code # c0
    <3> SUFFICES ASSUME NEW th1 \in Threads, call[th1].op = "save", th1 # th
                 PROVE  call[th1].key # k0 /\ call[th1].code # c0
      OBVIOUS
    <3>1. call[th1].key # k0
      BY <1>2 DEF SavesFresh
    <3>2. Reserved(call[th1].key, call[th1].code)
      BY DEF SavesFresh
    <3>3. call[th1].code = c0 => call[th1].key = k0
      BY <1>1, <1>2, <2>1, <3>2 DEF Reserved, Keys
    <3> QED
      BY <3>1, <3>3
  <2> QED
    BY <1>3, <1>4, <2>1, <2>2 DEF SavesFresh, Reserved
<1>7. MarksHeld'
  BY <1>2, <1>4 DEF MarksHeld, Calls, TypeOK
<1>8. ReceiptsKeyed'
  <2>1. \A k \in Keys : receipts[k] # None => receipts[k].code \in Codes
    BY DEF TypeOK, Receipt
  <2> QED
    BY <1>1, <1>2, <1>3, <1>4, <2>1 DEF ReceiptsKeyed, Reserved
<1>9. IssuedRetained'
  <2> SUFFICES ASSUME NEW n \in Materials, NEW u \in Counters, issued'[<<n, u>>] > 0
               PROVE  owner[n] # None /\ receipts'[<<owner[n], u>>] # None
    BY <1>3 DEF IssuedRetained
  <2>1. CASE <<n, u>> = c0
    <3>1. k0 = <<owner[n], u>> /\ k0[1] \in SeedIds
      BY <1>1, <1>2, <2>1 DEF Reserved, Keys
    <3> QED
      BY <1>4, <3>1, NoneAssumption DEF NoneAssumption
  <2>2. CASE <<n, u>> # c0
    <3>1. owner[n] # None /\ receipts[<<owner[n], u>>] # None
      BY <1>4, <2>2 DEF IssuedRetained, Codes
    <3>2. <<owner[n], u>> \in Keys
      BY <3>1 DEF TypeOK, Keys
    <3> QED
      BY <1>4, <3>1, <3>2
  <2> QED
    BY <2>1, <2>2
<1>10. ReceiptsPast'
  BY <1>1, <1>2, <1>3, <1>4 DEF ReceiptsPast, Past, Reserved
<1>11. ReadsLater'
  <2> SUFFICES ASSUME NEW th1 \in Threads, call'[th1].op = "issue", NEW u \in Counters,
                      receipts'[<<call'[th1].sid, u>>] # None
               PROVE  u <= lastIssued[call'[th1].sid] \/ u < call'[th1].t
    BY <1>3 DEF ReadsLater
  <2>1. call'[th1] = call[th1] /\ <<call[th1].sid, u>> \in Keys
    BY <1>4 DEF TypeOK, Calls, Keys
  <2>2. CASE <<call[th1].sid, u>> = k0
    BY <1>2, <2>1, <2>2 DEF Reserved
  <2>3. CASE <<call[th1].sid, u>> # k0
    BY <1>4, <2>1, <2>3 DEF ReadsLater
  <2> QED
    BY <2>2, <2>3
<1>12. CodeIssuedAtMostOnce' /\ AcceptedCodeWasIssued'
  BY <1>1, <1>2, <1>3 DEF CodeIssuedAtMostOnce, AcceptedCodeWasIssued, TypeOK
<1>13. AcceptedCodeIsClosed'
  <2>1. ~ (accepted[c0] > 0)
    BY <1>1, <1>2 DEF AcceptedCodeWasIssued
  <2> QED
    BY <1>1, <1>3, <1>4, <2>1 DEF AcceptedCodeIsClosed
<1> QED
  BY <1>5, <1>6, <1>7, <1>8, <1>9, <1>10, <1>11, <1>12, <1>13

\* mark_consumed closes the only receipt whose code is being accepted.
LEMMA MarkConsumedDInv ==
  ASSUME DInv, TypeOK', NEW th \in Threads, MarkConsumed(th)
  PROVE  DInv'
<1> DEFINE k0 == call[th].key
           c0 == call[th].code
<1> USE DEF DInv, clock
<1>1. /\ k0 \in Keys /\ c0 \in Codes
      /\ receipts[k0] # None /\ receipts[k0] \in Receipt
      /\ receipts[k0].code = c0
      /\ issued[c0] > 0
  BY DEF MarkConsumed, Calls, TypeOK, MarksHeld, ReceiptsKeyed
<1>2. /\ receipts' = [receipts EXCEPT ![k0].consumed = TRUE]
      /\ accepted' = [accepted EXCEPT ![c0] = @ + 1]
      /\ call' = [call EXCEPT ![th] = Idle]
      /\ UNCHANGED <<seeds, lastIssued, now, setBack, owner, issued, restarts>>
  BY DEF MarkConsumed
<1>3. /\ receipts'[k0].code = c0 /\ receipts'[k0].consumed /\ receipts'[k0] # None
      /\ \A k \in Keys : k # k0 => receipts'[k] = receipts[k]
  <2>1. [receipts[k0] EXCEPT !.consumed = TRUE] \in Receipt
    BY <1>1 DEF Receipt
  <2>2. [receipts[k0] EXCEPT !.consumed = TRUE] # None
    BY <2>1, NoneAssumption DEF NoneAssumption
  <2> QED
    BY <1>1, <1>2, <2>2 DEF TypeOK, Receipt
<1>4. \A th1 \in Threads : call'[th1].op # "idle" => call'[th1] = call[th1]
  BY <1>2 DEF Idle, TypeOK
<1>5. SeedsOwned'
  BY <1>2, <1>4 DEF SeedsOwned, Reading
<1>6. SavesFresh'
  <2>1. \A th1 \in Threads : call[th1].op = "save" => call[th1].key \in Keys /\ call[th1].key # k0
    BY <1>1 DEF SavesFresh, Calls, TypeOK
  <2> QED
    BY <1>2, <1>3, <1>4, <2>1 DEF SavesFresh, Reserved
<1>7. MarksHeld'
  <2>1. \A th1 \in Threads : call[th1].op = "mark" => call[th1].key \in Keys
    BY DEF Calls, TypeOK
  <2> QED
    BY <1>1, <1>3, <1>4, <2>1 DEF MarksHeld
<1>8. ReceiptsKeyed' /\ ReceiptsPast'
  BY <1>1, <1>2, <1>3 DEF ReceiptsKeyed, ReceiptsPast, Past
<1>9. IssuedRetained'
  <2>1. \A k \in Keys : receipts[k] # None => receipts'[k] # None
    BY <1>3
  <2> QED
    BY <1>2, <2>1 DEF IssuedRetained, Keys, TypeOK
<1>10. ReadsLater'
  <2>1. \A k \in Keys : receipts'[k] # None => receipts[k] # None
    BY <1>1, <1>3
  <2>2. \A th1 \in Threads : call[th1].op = "issue" =>
          \A t \in Counters : <<call[th1].sid, t>> \in Keys
    BY DEF Calls, TypeOK, Keys
  <2> QED
    BY <1>2, <1>4, <2>1, <2>2 DEF ReadsLater
<1>11. CodeIssuedAtMostOnce' /\ AcceptedCodeWasIssued'
  BY <1>1, <1>2 DEF CodeIssuedAtMostOnce, AcceptedCodeWasIssued, TypeOK
\* only one key holds the code that is accepted
<1>12. AcceptedCodeIsClosed'
  <2>1. \A k \in Keys : receipts[k] # None /\ receipts[k].code = c0 => k = k0
    BY <1>1 DEF ReceiptsKeyed, Keys
  <2> QED
    BY <1>1, <1>2, <1>3, <2>1 DEF AcceptedCodeIsClosed, TypeOK
<1> QED
  BY <1>5, <1>6, <1>7, <1>8, <1>9, <1>10, <1>11, <1>12

\* The clock is set back only while the counter remembers every receipt.
LEMMA ClockDInv ==
  ASSUME DInv, TypeOK', SafeRestart, Tick \/ SetClockBack
  PROVE  DInv'
<1> USE DEF DInv, store, history
<1>1. /\ UNCHANGED <<seeds, receipts, lastIssued, call, owner, issued, accepted, restarts>>
      /\ now \in 0..MaxTime /\ now' \in 0..MaxTime
      /\ restarts > 0 => now <= now'
  <2>1. now \in 0..MaxTime /\ now' \in 0..MaxTime
    BY DEF TypeOK
  <2>2. restarts > 0 => now <= now'
    BY <2>1, TimeAssumption DEF SafeRestart, TimeAssumption
  <2> QED
    BY <2>1, <2>2 DEF Tick, SetClockBack
<1>2. restarts > 0 => now \div Window <= now' \div Window
  <2>1. now \in Nat /\ now' \in Nat /\ Window \in Nat \ {0}
    BY <1>1, TimeAssumption, WindowAssumption DEF TimeAssumption, WindowAssumption
  <2>2. now <= now' => now \div Window <= now' \div Window
    BY <2>1, QuantumMonotonic
  <2> QED
    BY <1>1, <2>2
<1>3. now \div Window \in Nat /\ now' \div Window \in Nat /\ Counters \subseteq Nat
  <2>1. now \div Window \in Counters /\ now' \div Window \in Counters
    BY <1>1, QuantumInCounters
  <2> QED
    BY <2>1, DNumbers
<1>4. SeedsOwned' /\ SavesFresh' /\ MarksHeld' /\ ReceiptsKeyed' /\ IssuedRetained'
  BY <1>1 DEF SeedsOwned, Reading, SavesFresh, Reserved, MarksHeld, ReceiptsKeyed,
     IssuedRetained
<1>5. ReceiptsPast'
  <2> SUFFICES ASSUME NEW k \in Keys, receipts[k] # None
               PROVE  Past(k[1], k[2])'
    BY <1>1 DEF ReceiptsPast
  <2>1. Past(k[1], k[2]) /\ k[2] \in Nat
    BY <1>3 DEF ReceiptsPast, Keys
  <2> QED
    BY <1>1, <1>2, <1>3, <2>1 DEF Past
<1>6. ReadsLater'
  BY <1>1 DEF ReadsLater
<1>7. CodeIssuedAtMostOnce' /\ AcceptedCodeIsClosed' /\ AcceptedCodeWasIssued'
  BY <1>1 DEF CodeIssuedAtMostOnce, AcceptedCodeIsClosed, AcceptedCodeWasIssued
<1> QED
  BY <1>4, <1>5, <1>6, <1>7

\* A restart in a later quantum forgets counters that the clock has passed.
LEMMA RestartDInv ==
  ASSUME DInv, TypeOK', DurableQuantized, SafeRestart, Restart
  PROVE  DInv'
<1> USE DEF DInv
<1>1. /\ UNCHANGED <<seeds, receipts, now, setBack, owner, issued, accepted>>
      /\ restarts' = restarts + 1 /\ restarts \in Nat
      /\ lastIssued' = NoneIssued
      /\ \A th \in Threads : call'[th].op = "idle"
  BY RestartsAssumption
  DEF RestartsAssumption, Restart, DurableQuantized, store, clock, history, AllIdle, Idle, TypeOK
<1>2. restarts' > 0 /\ restarts' # restarts
  BY <1>1
<1>3. SeedsOwned' /\ SavesFresh' /\ MarksHeld' /\ ReadsLater'
  BY <1>1 DEF SeedsOwned, Reading, SavesFresh, MarksHeld, ReadsLater
<1>4. ReceiptsKeyed' /\ IssuedRetained'
  BY <1>1 DEF ReceiptsKeyed, IssuedRetained
<1>5. ReceiptsPast'
  BY <1>1, <1>2 DEF ReceiptsPast, Past, SafeRestart
<1>6. CodeIssuedAtMostOnce' /\ AcceptedCodeIsClosed' /\ AcceptedCodeWasIssued'
  BY <1>1 DEF CodeIssuedAtMostOnce, AcceptedCodeIsClosed, AcceptedCodeWasIssued
<1> QED
  BY <1>3, <1>4, <1>5, <1>6

\* Every step of a quantized counter over a durable store preserves the
\* invariant, if its restarts are safe.
LEMMA NextDInv ==
  ASSUME DurableQuantized, DInv, SafeRestart, [Next]_vars
  PROVE  DInv'
<1>0. TypeOK'
  BY StepTypeOK DEF DInv
<1>1. ASSUME NEW s \in SeedIds, NEW m \in Materials, Register(s, m)
      PROVE  DInv'
  BY <1>0, <1>1, RegisterDInv
<1>2. ASSUME NEW th \in Threads, NEW s \in SeedIds, GetSeed(th, s)
      PROVE  DInv'
  <2>1. SeedsOwned' /\ MarksHeld'
    BY <1>2, NoneAssumption DEF NoneAssumption, GetSeed, DInv, TypeOK, SeedsOwned, Reading,
       MarksHeld, Calls, store, history
  <2>2. \A th1 \in Threads : call'[th1].op \in {"issue", "save"} => call'[th1] = call[th1]
    BY <1>2 DEF GetSeed, DInv, TypeOK
  <2> QED
    BY <1>0, <1>2, <2>1, <2>2, QuietDInv DEF GetSeed, store, clock, history
<1>3. ASSUME NEW th \in Threads, NEW k \in Keys, NEW c \in Codes,
             GetReceipt(th, k, c)
      PROVE  DInv'
  <2>1. SeedsOwned'
    BY <1>3 DEF GetReceipt, DInv, TypeOK, SeedsOwned, Reading, store, history
  <2>2. MarksHeld'
    BY <1>3 DEF GetReceipt, ApplyValidateReceipt, DInv, TypeOK, MarksHeld, store
  <2>3. \A th1 \in Threads : call'[th1].op \in {"issue", "save"} => call'[th1] = call[th1]
    BY <1>3 DEF GetReceipt, DInv, TypeOK
  <2> QED
    BY <1>0, <1>3, <2>1, <2>2, <2>3, QuietDInv DEF GetReceipt, store, clock, history
<1>4. ASSUME NEW th \in Threads, Fail(th), UNCHANGED <<store, clock, history, restarts>>
      PROVE  DInv'
  <2>1. \A th1 \in Threads : call'[th1].op # "idle" => call'[th1] = call[th1]
    BY <1>4 DEF Fail, Idle, DInv, TypeOK
  <2>2. SeedsOwned' /\ MarksHeld'
    BY <1>4, <2>1 DEF DInv, SeedsOwned, Reading, MarksHeld, store, history
  <2> QED
    BY <1>0, <1>4, <2>1, <2>2, QuietDInv DEF Fail, store, clock, history
<1>5. ASSUME NEW th \in Threads, NextSequential(th)
      PROVE  DInv'
  BY <1>5 DEF NextSequential, DurableQuantized
<1>6. ASSUME NEW th \in Threads, ReadClock(th)
      PROVE  DInv'
  BY <1>0, <1>6, ReadClockDInv
<1>7. ASSUME NEW th \in Threads, NextQuantized(th)
      PROVE  DInv'
  BY <1>0, <1>4, <1>7, ReserveDInv DEF NextQuantized
<1>8. ASSUME NEW th \in Threads, SaveReceipt(th)
      PROVE  DInv'
  BY <1>0, <1>8, SaveReceiptDInv
<1>9. ASSUME NEW th \in Threads, MarkConsumed(th)
      PROVE  DInv'
  BY <1>0, <1>9, MarkConsumedDInv
<1>10. ASSUME NEW th \in Threads, StoreFails(th)
       PROVE  DInv'
  BY <1>4, <1>10 DEF StoreFails
<1>11. CASE Tick \/ SetClockBack
  BY <1>0, <1>11, ClockDInv
<1>12. CASE Restart
  BY <1>0, <1>12, RestartDInv
<1>13. CASE UNCHANGED vars
  BY <1>0, <1>13, QuietDInv DEF vars, DInv, SeedsOwned, Reading, MarksHeld
<1> QED
  BY <1>1, <1>2, <1>3, <1>5, <1>6, <1>7, <1>8, <1>9, <1>10, <1>11, <1>12, <1>13
  DEF Next, Step


\* The invariant of a quantized counter over a durable store, as long as each
\* restart is in a later quantum than the receipts and the clock is kept.
LEMMA DurableInvariance ==
  ASSUME DurableQuantized
  PROVE  Spec /\ [][SafeRestart]_vars => []DInv
<1>1. DInv /\ SafeRestart /\ [Next]_vars => DInv'
  BY NextDInv
<1>2. DInv /\ UNCHANGED vars => DInv'
  <2> SUFFICES ASSUME DInv, UNCHANGED vars PROVE DInv'
    OBVIOUS
  <2>1. TypeOK'
    BY StepTypeOK DEF DInv
  <2> QED
    BY <2>1, QuietDInv DEF vars, DInv, SeedsOwned, Reading, MarksHeld
<1> QED
  BY <1>1, <1>2, InitDInv, PTL DEF Spec

\* A quantized counter forgets its state in a restart, but no code is issued
\* twice if the process comes back in a later quantum than its receipts': the
\* converse of what the run QuantizedRestart shows.
THEOREM UniqueAcrossRestarts ==
  ASSUME DurableQuantized
  PROVE  Spec /\ [][SafeRestart]_vars => []CodeIssuedAtMostOnce
<1>1. DInv => CodeIssuedAtMostOnce
  BY DEF DInv
<1> QED
  BY <1>1, DurableInvariance, PTL

\* Under the same condition the replay defence survives restarts: a code accepted
\* before one is answered with Replay after it.
THEOREM FinalAcrossRestarts ==
  ASSUME DurableQuantized
  PROVE  Spec /\ [][SafeRestart]_vars => []AcceptedCodeIsClosed
<1>1. DInv => AcceptedCodeIsClosed
  BY DEF DInv
<1> QED
  BY <1>1, DurableInvariance, PTL

\* Under the same condition the SQLite receipts are one append-only ledger for
\* the life of the database: no restart replaces, reopens or loses an entry.
THEOREM LedgerAcrossRestarts ==
  ASSUME DurableQuantized
  PROVE  Spec /\ [][SafeRestart]_vars => LedgerSpec
<1>1. Init => Ledger!Init
  BY DEF Init, NoReceipts, Ledger!Init
<1>2. DInv /\ [Next]_vars => [Ledger!Next]_receipts
  <2>1. DInv => TypeOK /\ SavesFresh /\ CodesWereIssued
    BY DEF DInv, TypeOK, Calls, MarksHeld, ReceiptsKeyed, CodesWereIssued
  <2> QED
    BY <2>1, LedgerStep
<1> QED
  BY <1>1, <1>2, DurableInvariance, PTL DEF Spec, LedgerSpec, Ledger!Spec

\* Under the same condition a code obtains Valid at most once for each thread,
\* however often the process restarts between their presentations.
THEOREM BoundedAcrossRestarts ==
  ASSUME DurableQuantized, IsFiniteSet(Threads)
  PROVE  Spec /\ [][SafeRestart]_vars => []AcceptedAtMostOncePerCaller
<1>1. Init => MarkingsCounted
  BY InitMarkings
<1>2. DInv /\ MarkingsCounted /\ [Next]_vars => MarkingsCounted'
  BY MarkingStep DEF DInv, MarkingsCounted
<1>3. DInv /\ MarkingsCounted => AcceptedAtMostOncePerCaller
  BY MarkingsBound DEF DInv
<1> QED
  BY <1>1, <1>2, <1>3, DurableInvariance, PTL DEF Spec

\* Under the same condition, calls that do not overlap obtain Valid once in all.
THEOREM SerialAcrossRestarts ==
  ASSUME DurableQuantized, SerialCalls
  PROVE  Spec /\ [][SafeRestart]_vars => []AcceptedAtMostOnce
<1>1. DInv /\ SerialInv /\ [Next]_vars => SerialInv'
  BY SerialStep DEF DInv
<1>2. SerialInv => AcceptedAtMostOnce
  BY DEF SerialInv
<1> QED
  BY <1>1, <1>2, InitSerial, DurableInvariance, PTL DEF Spec

-----------------------------------------------------------------------------
(***************************************************************************)
(* What a restart costs, whatever the counter and the store.  Within one   *)
(* life of the process a T is reserved once for a SeedId; a restart that   *)
(* forgets it lets it be reserved, and its receipt be written, once more.  *)
(***************************************************************************)
Filed(k, c) == owner[c[1]] = k[1] /\ c[2] = k[2]

\* Whose code a call or a receipt is about.
CodesFiled ==
  /\ SeedsOwned
  /\ \A th \in Threads : call[th].op \in {"save", "mark"} =>
       Filed(call[th].key, call[th].code)
  /\ \A k \in Keys : receipts[k] # None => Filed(k, receipts[k].code)
  /\ UndrawnUnissued

LEMMA StepFiled == TypeOK /\ CodesFiled /\ [Next]_vars => CodesFiled'
<1> SUFFICES ASSUME TypeOK, CodesFiled, [Next]_vars PROVE CodesFiled'
  OBVIOUS
<1> USE DEF TypeOK, CodesFiled, SeedsOwned, Filed, UndrawnUnissued, Reading
<1>0. None \notin SeedIds /\ None \notin Materials
  BY NoneAssumption DEF NoneAssumption
<1>1. ASSUME NEW s \in SeedIds, NEW m \in Materials, Register(s, m)
      PROVE  CodesFiled'
  <2>1. /\ seeds' = [seeds EXCEPT ![s] = m] /\ owner' = [owner EXCEPT ![m] = s]
        /\ owner[m] = None /\ UNCHANGED <<receipts, call, issued>>
    BY <1>1 DEF Register
  <2>2. \A n \in Materials : owner[n] # None => owner'[n] = owner[n]
    BY <2>1
  <2>3. SeedsOwned'
    BY <1>0, <2>1, <2>2 DEF Calls
  <2>4. \A th \in Threads : call[th].op \in {"save", "mark"} =>
          call[th].code[1] \in Materials /\ call[th].key[1] \in SeedIds
    BY DEF Calls, Codes, Keys
  <2>5. \A k \in Keys : receipts[k] # None =>
          receipts[k].code[1] \in Materials /\ k[1] \in SeedIds
    BY DEF Receipt, Codes, Keys
  <2> QED
    BY <1>0, <2>1, <2>2, <2>3, <2>4, <2>5
<1>2. ASSUME NEW th \in Threads, NEW s \in SeedIds, GetSeed(th, s)
      PROVE  CodesFiled'
  BY <1>0, <1>2 DEF GetSeed, store, history
<1>3. ASSUME NEW th \in Threads, NEW k \in Keys, NEW c \in Codes, GetReceipt(th, k, c)
      PROVE  CodesFiled'
  <2>1. receipts[k] # None /\ receipts[k].code = c
    BY <1>3 DEF GetReceipt, ApplyValidateReceipt
  <2> QED
    BY <1>3, <2>1 DEF GetReceipt, store, history
<1>4. ASSUME NEW th \in Threads, call' = [call EXCEPT ![th] = Idle],
             UNCHANGED <<seeds, owner>>,
             receipts' = receipts, issued' = issued
      PROVE  CodesFiled'
  BY <1>4 DEF Idle
<1>5. ASSUME NEW th \in Threads, NEW t, Reading(th), Reserve(th, t),
             UNCHANGED <<store, history>>
      PROVE  CodesFiled'
  <2>1. call' = [call EXCEPT ![th] = [op |-> "save", key |-> <<call[th].sid, t>>,
                                      code |-> <<call[th].seed, t>>]]
    BY <1>5 DEF Reserve, Derived
  <2>2. owner[call[th].seed] = call[th].sid
    BY <1>5
  <2> QED
    BY <1>5, <2>1, <2>2 DEF store, history
<1>6. ASSUME NEW th \in Threads, NextSequential(th) \/ NextQuantized(th) \/ StoreFails(th)
      PROVE  CodesFiled'
  BY <1>4, <1>5, <1>6
  DEF NextSequential, NextQuantized, StoreFails, Fail, store, history
<1>7. ASSUME NEW th \in Threads, ReadClock(th)
      PROVE  CodesFiled'
  BY <1>7 DEF ReadClock, store, history
<1>8. ASSUME NEW th \in Threads, SaveReceipt(th)
      PROVE  CodesFiled'
  <2> DEFINE k0 == call[th].key
             c0 == call[th].code
  <2>1. /\ k0 \in Keys /\ c0 \in Codes /\ Filed(k0, c0)
        /\ receipts' = [receipts EXCEPT ![k0] = [code |-> c0, consumed |-> FALSE]]
        /\ issued' = [issued EXCEPT ![c0] = @ + 1]
        /\ call' = [call EXCEPT ![th] = Idle]
        /\ UNCHANGED <<seeds, owner>>
    BY <1>8 DEF SaveReceipt, Calls
  <2>2. SeedsOwned'
    BY <2>1 DEF Idle
  <2>3. \A k \in Keys : receipts'[k] # None => Filed(k, receipts'[k].code)
    BY <2>1
  <2>4. owner[c0[1]] # None
    BY <1>0, <2>1 DEF Keys
  <2>5. UndrawnUnissued'
    <3> SUFFICES ASSUME NEW m \in Materials, NEW t \in Counters, owner[m] = None
                 PROVE  issued'[<<m, t>>] = 0
      BY <2>1
    <3>1. <<m, t>> # c0 /\ <<m, t>> \in Codes
      BY <2>4 DEF Codes
    <3> QED
      BY <2>1, <3>1
  <2> QED
    BY <2>1, <2>2, <2>3, <2>5 DEF Idle
<1>9. ASSUME NEW th \in Threads, MarkConsumed(th)
      PROVE  CodesFiled'
  <2> DEFINE k0 == call[th].key
  <2>1. /\ k0 \in Keys /\ receipts[k0] \in Receipt /\ receipts[k0] # None
        /\ receipts' = [receipts EXCEPT ![k0].consumed = TRUE]
        /\ call' = [call EXCEPT ![th] = Idle]
        /\ UNCHANGED <<seeds, owner, issued>>
    BY <1>9 DEF MarkConsumed, Calls
  <2>2. \A k \in Keys : receipts'[k] # None =>
          receipts[k] # None /\ receipts'[k].code = receipts[k].code
    BY <2>1 DEF Receipt
  <2> QED
    BY <2>1, <2>2 DEF Idle
<1>10. CASE Restart
  BY <1>10 DEF Restart, AllIdle, Idle, NoSeeds, NoReceipts, store, history
<1>11. CASE Tick \/ SetClockBack \/ UNCHANGED vars
  BY <1>11 DEF Tick, SetClockBack, vars, store, history
<1> QED
  BY <1>1, <1>2, <1>3, <1>6, <1>7, <1>8, <1>9, <1>10, <1>11 DEF Next, Step

LEMMA InitFiled == Init => CodesFiled
<1> SUFFICES ASSUME Init PROVE CodesFiled
  OBVIOUS
<1> USE DEF Init, CodesFiled
<1>1. SeedsOwned
  BY DEF NoSeeds, AllIdle, Idle, SeedsOwned, Reading
<1>2. UndrawnUnissued
  BY DEF UndrawnUnissued, Codes
<1> QED
  BY <1>1, <1>2 DEF NoReceipts, AllIdle, Idle

\* The counter has reached the T of the code in this life of the process.
Passed(c) == owner[c[1]] \in SeedIds /\ c[2] <= lastIssued[owner[c[1]]]

ReuseCounted ==
  /\ \A c \in Codes : issued[c] <= restarts + (IF Passed(c) THEN 1 ELSE 0)
  /\ \A th \in Threads : call[th].op = "save" =>
       Passed(call[th].code) /\ issued[call[th].code] <= restarts
  /\ \A th1, th2 \in Threads :
       /\ call[th1].op = "save" /\ call[th2].op = "save"
       /\ call[th1].code = call[th2].code
       => th1 = th2

LEMMA ReuseTypes ==
  ASSUME TypeOK
  PROVE  /\ restarts \in Int
         /\ \A c \in Codes : issued[c] \in Int /\ issued[c] >= 0 /\ c[1] \in Materials
                             /\ c[2] \in Int
         /\ \A s \in SeedIds : lastIssued[s] \in Int
         /\ \A th \in Threads : call[th].op = "save" =>
              /\ call[th].key \in Keys /\ call[th].code \in Codes
              /\ call[th].code[1] \in Materials
  BY RestartsAssumption, CounterAssumption
  DEF TypeOK, RestartsAssumption, CounterAssumption, Counters, Codes, Calls

LEMMA ReadingTyped ==
  ASSUME TypeOK, NEW th \in Threads, Reading(th), NEW t \in Counters
  PROVE  call[th].sid \in SeedIds /\ call[th].seed \in Materials /\ <<call[th].seed, t>> \in Codes
  BY DEF TypeOK, Reading, Calls, Codes

\* A step that issues nothing, reserves nothing and begins no save.
LEMMA SameReuse ==
  ASSUME ReuseCounted, UNCHANGED <<issued, lastIssued, owner, restarts>>,
         \A th \in Threads : call'[th].op = "save" => call'[th] = call[th]
  PROVE  ReuseCounted'
  BY DEF ReuseCounted, Passed

LEMMA RegisterReuse ==
  ASSUME TypeOK, CodesFiled, ReuseCounted, NEW s \in SeedIds, NEW m \in Materials,
         Register(s, m)
  PROVE  ReuseCounted'
<1>1. /\ owner[m] = None /\ owner' = [owner EXCEPT ![m] = s]
      /\ UNCHANGED <<issued, lastIssued, call, restarts>>
  BY DEF Register
<1>2. \A c \in Codes : c[1] # m => (Passed(c)' <=> Passed(c))
  BY <1>1, ReuseTypes DEF Passed, TypeOK
<1>3. \A c \in Codes : c[1] = m => issued[c] = 0
  BY <1>1 DEF CodesFiled, UndrawnUnissued, Codes
<1>4. restarts >= 0
  BY RestartsAssumption DEF TypeOK, RestartsAssumption
<1>5. \A th \in Threads : call[th].op = "save" => call[th].code[1] # m
  <2> SUFFICES ASSUME NEW th \in Threads, call[th].op = "save" PROVE call[th].code[1] # m
    OBVIOUS
  <2>1. owner[call[th].code[1]] = call[th].key[1] /\ call[th].key[1] \in SeedIds
    BY ReuseTypes DEF CodesFiled, Filed, Keys
  <2> QED
    BY <1>1, <2>1, NoneAssumption DEF NoneAssumption
<1> QED
  BY <1>1, <1>2, <1>3, <1>4, <1>5, ReuseTypes DEF ReuseCounted

\* The T reserved is new to this life: no call saves its code and the charges
\* that carried it were made before as many restarts.
LEMMA ReserveReuse ==
  ASSUME TypeOK, CodesFiled, ReuseCounted, NEW th \in Threads, NEW t \in Counters,
         NEW s \in SeedIds, NEW m \in Materials, NEW d \in Codes,
         Reading(th), call[th].sid = s, call[th].seed = m, d = <<m, t>>,
         t > lastIssued[s], Reserve(th, t), UNCHANGED <<issued, owner, restarts>>
  PROVE  ReuseCounted'
<1>1. owner[m] = s
  BY DEF CodesFiled, SeedsOwned
<1>2. /\ lastIssued' = [lastIssued EXCEPT ![s] = t]
      /\ call' = [call EXCEPT ![th] = [op |-> "save", key |-> <<s, t>>, code |-> d]]
  BY DEF Reserve, Derived
<1>3. t \in Int /\ d[1] = m /\ d[2] = t
  BY CounterAssumption DEF Counters, CounterAssumption
<1>4. \A q \in SeedIds : lastIssued'[q] = IF q = s THEN t ELSE lastIssued[q]
  BY <1>2 DEF TypeOK
<1>5. \A c \in Codes : Passed(c) => Passed(c)'
  BY <1>3, <1>4, ReuseTypes DEF Passed
<1>6. ~ Passed(d) /\ Passed(d)'
  BY <1>1, <1>3, <1>4, ReuseTypes DEF Passed
<1>7. issued[d] <= restarts
  BY <1>6, ReuseTypes DEF ReuseCounted
<1>8. \A th1 \in Threads : call[th1].op = "save" => call[th1].code # d
  BY <1>6 DEF ReuseCounted
<1>9. /\ call'[th].op = "save" /\ call'[th].code = d
      /\ \A th1 \in Threads : th1 # th => call'[th1] = call[th1]
  BY <1>2 DEF TypeOK
<1>10. \A c \in Codes : issued[c] <= restarts + (IF Passed(c)' THEN 1 ELSE 0)
  BY <1>5, ReuseTypes DEF ReuseCounted
<1>11. ASSUME NEW th1 \in Threads, call'[th1].op = "save"
       PROVE  \E c \in Codes : call'[th1].code = c /\ Passed(c)' /\ issued[c] <= restarts
  <2>1. CASE th1 = th
    BY <1>6, <1>7, <1>9, <2>1
  <2>2. CASE th1 # th
    <3>1. call'[th1] = call[th1] /\ call[th1].op = "save"
      BY <1>9, <1>11, <2>2
    <3>2. PICK c \in Codes : c = call[th1].code
      BY <3>1, ReuseTypes
    <3>3. Passed(c) /\ issued[c] <= restarts
      BY <3>1, <3>2 DEF ReuseCounted
    <3> QED
      BY <1>5, <3>1, <3>2, <3>3
  <2> QED
    BY <2>1, <2>2
<1>12. \A th1, th2 \in Threads :
         call'[th1].op = "save" /\ call'[th2].op = "save" /\ call'[th1].code = call'[th2].code
           => th1 = th2
  BY <1>8, <1>9 DEF ReuseCounted
<1> QED
  BY <1>10, <1>11, <1>12 DEF ReuseCounted, Passed

LEMMA SaveReuse ==
  ASSUME TypeOK, CodesFiled, ReuseCounted, NEW th \in Threads, SaveReceipt(th)
  PROVE  ReuseCounted'
<1> DEFINE d == call[th].code
<1>1. /\ d \in Codes /\ call[th].op = "save"
      /\ issued' = [issued EXCEPT ![d] = @ + 1]
      /\ call' = [call EXCEPT ![th] = Idle]
      /\ UNCHANGED <<lastIssued, owner, restarts>>
  BY ReuseTypes DEF SaveReceipt
<1>2. Passed(d) /\ issued[d] <= restarts
  BY <1>1 DEF ReuseCounted
<1>3. \A c \in Codes : issued'[c] = IF c = d THEN issued[d] + 1 ELSE issued[c]
  BY <1>1 DEF TypeOK
<1>4. \A th1 \in Threads : call'[th1].op = "save" =>
        call'[th1] = call[th1] /\ call[th1].code # d
  BY <1>1 DEF ReuseCounted, TypeOK, Idle
<1>5. \A c : Passed(c)' <=> Passed(c)
  BY <1>1 DEF Passed
<1> HIDE DEF d
<1> QED
  BY <1>1, <1>2, <1>3, <1>4, <1>5, ReuseTypes DEF ReuseCounted

LEMMA RestartReuse ==
  ASSUME TypeOK, ReuseCounted, Restart
  PROVE  ReuseCounted'
<1>1. /\ restarts' = restarts + 1 /\ issued' = issued
      /\ \A th \in Threads : call'[th].op # "save"
  BY DEF Restart, AllIdle, Idle, history
<1> QED
  BY <1>1, ReuseTypes DEF ReuseCounted

LEMMA StepReuse == TypeOK /\ CodesFiled /\ ReuseCounted /\ [Next]_vars => ReuseCounted'
<1> SUFFICES ASSUME TypeOK, CodesFiled, ReuseCounted, [Next]_vars PROVE ReuseCounted'
  OBVIOUS
<1>1. ASSUME NEW th \in Threads, Fail(th), UNCHANGED <<issued, owner, restarts>>
      PROVE  ReuseCounted'
  BY <1>1, SameReuse DEF Fail, Idle, TypeOK
<1>2. ASSUME NEW th \in Threads, NextSequential(th)
      PROVE  ReuseCounted'
  <2> DEFINE last == lastIssued[call[th].sid]
  <2>1. Reading(th) /\ last \in Counters \cup {-1}
    BY <1>2 DEF NextSequential, Reading, TypeOK, Calls
  <2>2. last < MaxCounter => last + 1 \in Counters /\ last + 1 > last
    BY <2>1, CounterAssumption DEF CounterAssumption, Counters
  <2>3. CASE last < MaxCounter /\ Reserve(th, last + 1)
    BY <1>2, <2>1, <2>2, <2>3, ReserveReuse, ReadingTyped DEF NextSequential, history
  <2> QED
    BY <1>1, <1>2, <2>3 DEF NextSequential, history
<1>3. ASSUME NEW th \in Threads, NextQuantized(th)
      PROVE  ReuseCounted'
  <2>1. Reading(th) /\ call[th].t \in Counters
    BY <1>3 DEF NextQuantized, Reading, TypeOK, Calls
  <2>2. CASE call[th].t > lastIssued[call[th].sid] /\ Reserve(th, call[th].t)
    BY <1>3, <2>1, <2>2, ReserveReuse, ReadingTyped DEF NextQuantized, history
  <2> QED
    BY <1>1, <1>3, <2>2 DEF NextQuantized, history
<1>4. ASSUME NEW th \in Threads, StoreFails(th)
      PROVE  ReuseCounted'
  BY <1>1, <1>4 DEF StoreFails, history
<1>5. ASSUME NEW th \in Threads, ReadClock(th) \/ MarkConsumed(th)
      PROVE  ReuseCounted'
  BY <1>5, SameReuse DEF ReadClock, MarkConsumed, Idle, TypeOK, history
<1>6. ASSUME NEW th \in Threads, NEW s \in SeedIds, GetSeed(th, s)
      PROVE  ReuseCounted'
  BY <1>6, SameReuse DEF GetSeed, TypeOK, history
<1>7. ASSUME NEW th \in Threads, NEW k \in Keys, NEW c \in Codes, GetReceipt(th, k, c)
      PROVE  ReuseCounted'
  BY <1>7, SameReuse DEF GetReceipt, TypeOK, history
<1>8. CASE Tick \/ SetClockBack \/ UNCHANGED vars
  BY <1>8, SameReuse DEF Tick, SetClockBack, vars, history
<1> QED
  BY <1>2, <1>3, <1>4, <1>5, <1>6, <1>7, <1>8, RegisterReuse, SaveReuse, RestartReuse
  DEF Next, Step

LEMMA InitReuse == Init => ReuseCounted
<1> SUFFICES ASSUME Init PROVE ReuseCounted
  OBVIOUS
<1> QED
  BY DEF Init, AllIdle, Idle, ReuseCounted

\* Whatever counter and store the facade was given, a restart costs one reuse at
\* most: a code is carried by no more charges than the process has had lives
\* (monotonic_counter.rs and timestamp_counter.rs keep last_issued in memory).
THEOREM ReuseIsBounded == Spec => [](\A c \in Codes : issued[c] <= 1 + restarts)
<1>1. TypeOK /\ ReuseCounted => \A c \in Codes : issued[c] <= 1 + restarts
  BY ReuseTypes DEF ReuseCounted
<1> QED
  BY <1>1, InitFiled, StepFiled, InitReuse, StepReuse, TypeCorrect, PTL DEF Spec

\* In particular no two charges of the first life carry the same code, with any
\* counter, over any store (traits.rs:36-41).
THEOREM UniqueUntilRestart == Spec => [](restarts = 0 => CodeIssuedAtMostOnce)
<1>1. (\A c \in Codes : issued[c] <= 1 + restarts) => (restarts = 0 => CodeIssuedAtMostOnce)
  BY DEF CodeIssuedAtMostOnce
<1> QED
  BY <1>1, ReuseIsBounded, PTL

(***************************************************************************)
(* What the presentations cost, whatever the counter and the store.  Every *)
(* receipt saved may be accepted once by each caller that found it open.   *)
(***************************************************************************)
Open(c) == \E k \in Keys :
  receipts[k] # None /\ receipts[k].code = c /\ ~ receipts[k].consumed

AcceptancesCovered ==
  \A c \in Codes :
    /\ accepted[c] + Cardinality(Marking(c)) <= Cardinality(Threads) * issued[c]
    /\ Open(c) => accepted[c] + Cardinality(Threads) <= Cardinality(Threads) * issued[c]

LEMMA MarkingTypes ==
  ASSUME IsFiniteSet(Threads), NEW c
  PROVE  /\ IsFiniteSet(Marking(c)) /\ Cardinality(Marking(c)) \in Nat
         /\ IsFiniteSet(Marking(c)') /\ Cardinality(Marking(c)') \in Nat
         /\ Cardinality(Marking(c)') <= Cardinality(Threads)
         /\ Cardinality(Threads) \in Nat
<1>1. Marking(c) \subseteq Threads /\ Marking(c)' \subseteq Threads
  BY DEF Marking
<1> QED
  BY <1>1, FS_Subset, FS_CardinalityType

LEMMA OneMoreIssue ==
  ASSUME NEW n \in Nat, NEW i \in Nat
  PROVE  /\ n * i \in Nat
         /\ n * (i + 1) = n * i + n
  OBVIOUS

\* A step that accepts nothing, saves nothing and begins no mark.
LEMMA SameCovered ==
  ASSUME IsFiniteSet(Threads), TypeOK, AcceptancesCovered, NEW c \in Codes,
         issued' = issued, accepted' = accepted,
         Marking(c)' \subseteq Marking(c), Open(c)' => Open(c)
  PROVE  /\ accepted'[c] + Cardinality(Marking(c)') <= Cardinality(Threads) * issued'[c]
         /\ Open(c)' => accepted'[c] + Cardinality(Threads) <= Cardinality(Threads) * issued'[c]
<1>1. Cardinality(Marking(c)') <= Cardinality(Marking(c))
  BY MarkingTypes, FS_Subset
<1>2. /\ Cardinality(Marking(c)) \in Nat /\ Cardinality(Marking(c)') \in Nat
      /\ accepted[c] \in Nat /\ Cardinality(Threads) * issued[c] \in Nat
  BY MarkingTypes, OneMoreIssue DEF TypeOK
<1>3. accepted[c] + Cardinality(Marking(c)) <= Cardinality(Threads) * issued[c]
  BY DEF AcceptancesCovered
<1>4. accepted[c] + Cardinality(Marking(c)') <= Cardinality(Threads) * issued[c]
  BY <1>1, <1>2, <1>3
<1> QED
  BY <1>4 DEF AcceptancesCovered

\* A presentation finds the receipt open: every caller may accept it once.
LEMMA GetReceiptCovered ==
  ASSUME IsFiniteSet(Threads), TypeOK, AcceptancesCovered, NEW c \in Codes,
         NEW th \in Threads, NEW k \in Keys, GetReceipt(th, k, c)
  PROVE  /\ accepted'[c] + Cardinality(Marking(c)') <= Cardinality(Threads) * issued'[c]
         /\ Open(c)' => accepted'[c] + Cardinality(Threads) <= Cardinality(Threads) * issued'[c]
<1>1. /\ Open(c) /\ accepted' = accepted /\ issued' = issued
  BY DEF GetReceipt, ApplyValidateReceipt, Open, history
<1>2. accepted[c] + Cardinality(Threads) <= Cardinality(Threads) * issued[c]
  BY <1>1 DEF AcceptancesCovered
<1>3. /\ Cardinality(Marking(c)') \in Nat /\ Cardinality(Threads) \in Nat
      /\ Cardinality(Marking(c)') <= Cardinality(Threads)
      /\ accepted[c] \in Nat /\ Cardinality(Threads) * issued[c] \in Nat
  BY MarkingTypes, OneMoreIssue DEF TypeOK
<1>4. accepted[c] + Cardinality(Marking(c)') <= Cardinality(Threads) * issued[c]
  BY <1>2, <1>3
<1> QED
  BY <1>1, <1>2, <1>4

\* Saving a receipt allows for one more round of presentations.
LEMMA SaveCovered ==
  ASSUME IsFiniteSet(Threads), TypeOK, AcceptancesCovered, NEW c \in Codes,
         NEW th \in Threads, SaveReceipt(th)
  PROVE  /\ accepted'[c] + Cardinality(Marking(c)') <= Cardinality(Threads) * issued'[c]
         /\ Open(c)' => accepted'[c] + Cardinality(Threads) <= Cardinality(Threads) * issued'[c]
<1> DEFINE d == call[th].code
           k == call[th].key
           n == Cardinality(Threads)
<1>1. /\ d \in Codes /\ k \in Keys
      /\ issued' = [issued EXCEPT ![d] = @ + 1] /\ accepted' = accepted
      /\ receipts' = [receipts EXCEPT ![k] = [code |-> d, consumed |-> FALSE]]
      /\ call' = [call EXCEPT ![th] = Idle]
  BY DEF SaveReceipt, TypeOK, Calls
<1>2. Marking(c)' \subseteq Marking(c)
  BY <1>1 DEF Marking, Idle, TypeOK
<1>3. CASE c # d
  <2>1. issued'[c] = issued[c]
    BY <1>1, <1>3 DEF TypeOK
  <2>2. Open(c)' => Open(c)
    BY <1>1, <1>3 DEF Open, TypeOK
  <2>3. Cardinality(Marking(c)') <= Cardinality(Marking(c))
    BY <1>2, MarkingTypes, FS_Subset
  <2>4. /\ Cardinality(Marking(c)) \in Nat /\ Cardinality(Marking(c)') \in Nat
        /\ accepted[c] \in Nat /\ Cardinality(Threads) * issued[c] \in Nat
    BY MarkingTypes, OneMoreIssue DEF TypeOK
  <2>5. accepted[c] + Cardinality(Marking(c)') <= Cardinality(Threads) * issued[c]
    BY <2>3, <2>4 DEF AcceptancesCovered
  <2> QED
    BY <1>1, <2>1, <2>2, <2>5 DEF AcceptancesCovered
<1>4. CASE c = d
  <2>1. issued'[c] = issued[c] + 1 /\ issued[c] \in Nat
    BY <1>1, <1>4 DEF TypeOK
  <2>2. n * issued[c] \in Nat /\ n * issued'[c] = n * issued[c] + n
    BY <2>1, MarkingTypes, OneMoreIssue
  <2>3. /\ Cardinality(Marking(c)) \in Nat /\ Cardinality(Marking(c)') \in Nat
        /\ Cardinality(Marking(c)') <= n /\ n \in Nat /\ accepted[c] \in Nat
    BY MarkingTypes DEF TypeOK
  <2>4. accepted[c] + Cardinality(Marking(c)) <= n * issued[c]
    BY DEF AcceptancesCovered
  <2> HIDE DEF n
  <2>5. accepted[c] + n <= n * issued'[c]
    BY <2>2, <2>3, <2>4
  <2>6. accepted[c] + Cardinality(Marking(c)') <= n * issued'[c]
    BY <2>3, <2>2, <2>5
  <2> QED
    BY <1>1, <2>5, <2>6 DEF n
<1> QED
  BY <1>3, <1>4

\* A mark takes its place in the count of acceptances, and closes the code.
LEMMA MarkCovered ==
  ASSUME IsFiniteSet(Threads), TypeOK, CodesFiled, AcceptancesCovered, NEW c \in Codes,
         NEW th \in Threads, MarkConsumed(th)
  PROVE  /\ accepted'[c] + Cardinality(Marking(c)') <= Cardinality(Threads) * issued'[c]
         /\ Open(c)' => accepted'[c] + Cardinality(Threads) <= Cardinality(Threads) * issued'[c]
<1> DEFINE d == call[th].code
           k == call[th].key
<1>1. /\ d \in Codes /\ k \in Keys /\ call[th].op = "mark"
      /\ receipts[k] \in Receipt /\ receipts[k] # None
      /\ issued' = issued /\ accepted' = [accepted EXCEPT ![d] = @ + 1]
      /\ receipts' = [receipts EXCEPT ![k].consumed = TRUE]
      /\ call' = [call EXCEPT ![th] = Idle] /\ owner' = owner
  BY DEF MarkConsumed, TypeOK, Calls
<1>2. /\ receipts'[k].consumed
      /\ \A q \in Keys : q # k => receipts'[q] = receipts[q]
  BY <1>1 DEF TypeOK, Receipt
<1>3. Open(c)' => Open(c)
  BY <1>2 DEF Open
<1>4. CASE c # d
  <2>1. accepted'[c] = accepted[c]
    BY <1>1, <1>4 DEF TypeOK
  <2>2. Marking(c)' \subseteq Marking(c)
    BY <1>1 DEF Marking, Idle, TypeOK
  <2>3. Cardinality(Marking(c)') <= Cardinality(Marking(c))
    BY <2>2, MarkingTypes, FS_Subset
  <2>4. /\ Cardinality(Marking(c)) \in Nat /\ Cardinality(Marking(c)') \in Nat
        /\ accepted[c] \in Nat /\ Cardinality(Threads) * issued[c] \in Nat
    BY MarkingTypes, OneMoreIssue DEF TypeOK
  <2>5. accepted[c] + Cardinality(Marking(c)') <= Cardinality(Threads) * issued[c]
    BY <2>3, <2>4 DEF AcceptancesCovered
  <2> QED
    BY <1>1, <1>3, <2>1, <2>5 DEF AcceptancesCovered
<1>5. CASE c = d
  <2>1. accepted'[c] = accepted[c] + 1
    BY <1>1, <1>5 DEF TypeOK
  <2>2. th \in Marking(c) /\ Marking(c)' = Marking(c) \ {th}
    BY <1>1, <1>5 DEF Marking, Idle, TypeOK
  <2>3. Cardinality(Marking(c)') = Cardinality(Marking(c)) - 1
    BY <2>2, MarkingTypes, FS_RemoveElement
  <2>4. /\ Cardinality(Marking(c)) \in Nat
        /\ accepted[c] \in Nat /\ Cardinality(Threads) * issued[c] \in Nat
    BY MarkingTypes, OneMoreIssue DEF TypeOK
  <2>5. accepted[c] + 1 + Cardinality(Marking(c)') <= Cardinality(Threads) * issued[c]
    BY <2>3, <2>4 DEF AcceptancesCovered
  <2>6. ~ Open(c)'
    <3> SUFFICES ASSUME NEW q \in Keys, receipts'[q] # None, receipts'[q].code = c
                 PROVE  receipts'[q].consumed
      BY DEF Open
    <3>1. CASE q = k
      BY <1>2, <3>1
    <3>2. CASE q # k
      <4>1. Filed(q, c) /\ Filed(k, c)
        BY <1>1, <1>2, <1>5, <3>2 DEF CodesFiled
      <4>2. k \in Keys
        BY <1>1
      <4> HIDE DEF k
      <4>3. q[1] = k[1] /\ q[2] = k[2]
        BY <4>1 DEF Filed
      <4>4. q = k
        BY <4>2, <4>3 DEF Keys
      <4> QED
        BY <3>2, <4>4
    <3> QED
      BY <3>1, <3>2
  <2> QED
    BY <1>1, <2>1, <2>5, <2>6
<1> QED
  BY <1>4, <1>5

LEMMA StepCovered ==
  ASSUME IsFiniteSet(Threads), TypeOK, CodesFiled, AcceptancesCovered, [Next]_vars
  PROVE  AcceptancesCovered'
<1> SUFFICES ASSUME NEW c \in Codes
             PROVE  /\ accepted'[c] + Cardinality(Marking(c)') <= Cardinality(Threads) * issued'[c]
                    /\ Open(c)' => accepted'[c] + Cardinality(Threads) <= Cardinality(Threads) * issued'[c]
  BY DEF AcceptancesCovered
<1> DEFINE Same == /\ issued' = issued /\ accepted' = accepted
                   /\ Marking(c)' \subseteq Marking(c) /\ (Open(c)' => Open(c))
<1>1. ASSUME NEW s \in SeedIds, NEW m \in Materials, Register(s, m)
      PROVE  Same
  BY <1>1 DEF Register, Marking, Open
<1>2. ASSUME NEW th \in Threads, NEW s \in SeedIds, GetSeed(th, s)
      PROVE  Same
  BY <1>2 DEF GetSeed, Marking, Open, store, history, TypeOK
<1>3. ASSUME NEW th \in Threads, NEW k \in Keys, NEW d \in Codes, d # c, GetReceipt(th, k, d)
      PROVE  Same
  BY <1>3 DEF GetReceipt, Marking, Open, store, history, TypeOK
<1>4. ASSUME NEW th \in Threads,
             NextSequential(th) \/ ReadClock(th) \/ NextQuantized(th) \/ StoreFails(th)
      PROVE  Same
  BY <1>4 DEF NextSequential, ReadClock, NextQuantized, StoreFails, Reserve, Derived, Fail,
              Idle, Marking, Open, store, history, TypeOK
<1>5. ASSUME Tick \/ SetClockBack \/ UNCHANGED vars
      PROVE  Same
  BY <1>5 DEF Tick, SetClockBack, vars, Marking, Open, store, history
<1>6. ASSUME Restart
      PROVE  Same
  BY <1>6 DEF Restart, AllIdle, Idle, NoReceipts, Marking, Open, store, history
<1>7. ASSUME NEW th \in Threads, NEW k \in Keys, NEW d \in Codes, GetReceipt(th, k, d)
      PROVE  d = c \/ Same
  BY <1>3, <1>7
<1> HIDE DEF Same
<1>8. CASE Same
  BY <1>8, SameCovered DEF Same
<1> QED
  BY <1>1, <1>2, <1>4, <1>5, <1>6, <1>7, <1>8, GetReceiptCovered, SaveCovered, MarkCovered
  DEF Next, Step

LEMMA InitCovered == ASSUME IsFiniteSet(Threads), Init PROVE AcceptancesCovered
<1> SUFFICES ASSUME NEW c \in Codes
             PROVE  /\ accepted[c] + Cardinality(Marking(c)) <= Cardinality(Threads) * issued[c]
                    /\ ~ Open(c)
  BY DEF AcceptancesCovered
<1>1. Marking(c) = {} /\ accepted[c] = 0 /\ issued[c] = 0 /\ ~ Open(c)
  BY DEF Init, AllIdle, Idle, NoReceipts, Marking, Open
<1>2. Cardinality(Marking(c)) = 0 /\ Cardinality(Threads) \in Nat
  BY <1>1, FS_EmptySet, FS_CardinalityType
<1> QED
  BY <1>1, <1>2

LEMMA CoveredBound ==
  ASSUME IsFiniteSet(Threads), TypeOK, AcceptancesCovered, NEW c \in Codes
  PROVE  accepted[c] <= Cardinality(Threads) * issued[c]
<1>1. /\ Cardinality(Marking(c)) \in Nat /\ accepted[c] \in Nat
      /\ Cardinality(Threads) * issued[c] \in Nat
  BY MarkingTypes, OneMoreIssue DEF TypeOK
<1> QED
  BY <1>1 DEF AcceptancesCovered

\* Whatever counter and store the facade was given, whatever threads overlap and
\* restarts forget, validate_receipt returns Valid for a code at most once for
\* each charge that carried it and each caller that may present it at the same
\* time (lib.rs:107-114: the receipt is read, then marked, under two locks).
THEOREM AcceptanceIsBounded ==
  ASSUME IsFiniteSet(Threads)
  PROVE  Spec => [](\A c \in Codes : accepted[c] <= Cardinality(Threads) * issued[c])
<1>1. Init => AcceptancesCovered
  BY InitCovered
<1>2. TypeOK /\ CodesFiled /\ AcceptancesCovered /\ [Next]_vars => AcceptancesCovered'
  BY StepCovered
<1>3. TypeOK /\ AcceptancesCovered =>
        \A c \in Codes : accepted[c] <= Cardinality(Threads) * issued[c]
  BY CoveredBound
<1> QED
  BY <1>1, <1>2, <1>3, InitFiled, StepFiled, TypeCorrect, PTL DEF Spec

-----------------------------------------------------------------------------
(***************************************************************************)
(* What the ledger the receipts implement gives back to the facade.        *)
(***************************************************************************)
Promise == INSTANCE ReceiptLedger_proofs WITH ledger <- receipts, Volatile <- ~ Durable

LEMMA LedgerIsPromised == LedgerSpec => Promise!Spec
<1>1. Ledger!Init => Promise!Init
  BY DEF Ledger!Init, Promise!Init
<1>2. [Ledger!Next]_receipts => [Promise!Next]_receipts
  BY DEF Ledger!Next, Ledger!Enter, Ledger!Settle, Ledger!Lose,
         Promise!Next, Promise!Enter, Promise!Settle, Promise!Lose
<1> QED
  BY <1>1, <1>2, PTL DEF LedgerSpec, Ledger!Spec, Promise!Spec

LEMMA NoneIsNoEntry == None \notin Promise!Entry
  BY NoneAssumption DEF NoneAssumption, Receipt, Promise!Entry

\* No two retained receipts expect the same confirmation code, in one life of a
\* store that dies with its counter: the (seed_id, counter) a caller presents a
\* code for is the only one it can be valid for (lib.rs:101-116).
THEOREM ReceiptsDiffer ==
  ASSUME StoreDiesWithCounter
  PROVE  Spec => []Promise!CodesDistinct
  BY LedgerIsPromised, NoneIsNoEntry, Promise!CodesAreDistinct, ImplementsLedger, PTL

\* A receipt in the SQLite store that was consumed is consumed for ever after: no
\* later charge, in this life of the process or another, reopens or replaces it,
\* although save_receipt is an INSERT OR REPLACE (sqlite_store.rs:95-111).
THEOREM ConsumedStaysConsumed ==
  ASSUME DurableQuantized, NEW k \in Keys
  PROVE  Spec /\ [][SafeRestart]_vars
           => [](Promise!Settled(k) => []Promise!Settled(k))
<1>1. ~ (~ Durable)
  BY DEF DurableQuantized
<1>2. Promise!Spec => [](Promise!Settled(k) => []Promise!Settled(k))
  BY <1>1, NoneIsNoEntry, Promise!SettledIsFinal
<1> QED
  BY <1>2, LedgerIsPromised, LedgerAcrossRestarts, PTL

-----------------------------------------------------------------------------
(***************************************************************************)
(* The safety half of EveryCallReturns: a call that has begun always finds *)
(* a step it may take, and every step takes it nearer to its return.       *)
(***************************************************************************)
\* Steps that are left to make at most.
StepsLeft(c) ==
  CASE c.op = "counter" -> 3
    [] c.op = "issue" -> 2
    [] c.op \in {"save", "mark"} -> 1
    [] c.op = "idle" -> 0

\* The step that is next for a thread is not refused: each operation of the counter
\* is the one that was built, and a receipt that is marked exists.
Ready(th) ==
  \/ call[th].op = "counter"
  \/ call[th].op = "issue" /\ ~ Sequential
  \/ call[th].op = "save"
  \/ call[th].op = "mark" /\ receipts[call[th].key] # None

CallsReady == \A th \in Threads : call[th].op # "idle" => Ready(th)

LEMMA StepReady == TypeOK /\ CallsReady /\ [Next]_vars => CallsReady'
<1> SUFFICES ASSUME TypeOK, CallsReady, [Next]_vars PROVE CallsReady'
  OBVIOUS
<1> USE DEF TypeOK, CallsReady, Ready
<1>1. ASSUME NEW s \in SeedIds, NEW m \in Materials, Register(s, m)
      PROVE  CallsReady'
  BY <1>1 DEF Register
<1>2. ASSUME NEW th \in Threads, NEW s \in SeedIds, GetSeed(th, s)
      PROVE  CallsReady'
  BY <1>2 DEF GetSeed, store
<1>3. ASSUME NEW th \in Threads, NEW k \in Keys, NEW c \in Codes, GetReceipt(th, k, c)
      PROVE  CallsReady'
  BY <1>3 DEF GetReceipt, store
<1>4. ASSUME NEW th \in Threads,
             NextSequential(th) \/ ReadClock(th) \/ NextQuantized(th) \/ StoreFails(th)
      PROVE  CallsReady'
  BY <1>4 DEF NextSequential, ReadClock, NextQuantized, StoreFails, Reserve, Derived,
              Fail, Idle, store
<1>5. ASSUME NEW th \in Threads, SaveReceipt(th)
      PROVE  CallsReady'
  <2>1. /\ call' = [call EXCEPT ![th] = Idle]
        /\ \A k \in Keys : receipts[k] # None => receipts'[k] # None
    <3> DEFINE r == [code |-> call[th].code, consumed |-> FALSE]
    <3>1. r \in Receipt
      BY <1>5 DEF SaveReceipt, Calls, Receipt
    <3>2. r # None
      BY <3>1, NoneAssumption DEF NoneAssumption
    <3>3. receipts' = [receipts EXCEPT ![call[th].key] = r]
      BY <1>5 DEF SaveReceipt
    <3> HIDE DEF r
    <3> QED
      BY <1>5, <3>2, <3>3 DEF SaveReceipt
  <2>2. \A p \in Threads : call[p].op = "mark" => call[p].key \in Keys
    BY DEF Calls
  <2> QED
    BY <2>1, <2>2 DEF Idle
<1>6. ASSUME NEW th \in Threads, MarkConsumed(th)
      PROVE  CallsReady'
  <2>1. /\ call' = [call EXCEPT ![th] = Idle]
        /\ call[th].key \in Keys /\ receipts[call[th].key] \in Receipt
        /\ receipts' = [receipts EXCEPT ![call[th].key].consumed = TRUE]
    BY <1>6 DEF MarkConsumed, Calls
  <2>2. [receipts[call[th].key] EXCEPT !.consumed = TRUE] \in Receipt
    BY <2>1 DEF Receipt
  <2>3. [receipts[call[th].key] EXCEPT !.consumed = TRUE] # None
    BY <2>2, NoneAssumption DEF NoneAssumption
  <2>4. \A k \in Keys : receipts[k] # None => receipts'[k] # None
    BY <2>1, <2>3
  <2>5. \A p \in Threads : call[p].op = "mark" => call[p].key \in Keys
    BY DEF Calls
  <2> QED
    BY <2>1, <2>4, <2>5 DEF Idle
<1>7. ASSUME Restart
      PROVE  CallsReady'
  BY <1>7 DEF Restart, AllIdle, Idle
<1>8. ASSUME Tick \/ SetClockBack \/ UNCHANGED vars
      PROVE  CallsReady'
  BY <1>8 DEF Tick, SetClockBack, vars, store
<1> QED
  BY <1>1, <1>2, <1>3, <1>4, <1>5, <1>6, <1>7, <1>8 DEF Next, Step

\* Nothing another thread, the clock or a restart does leaves a call of the facade
\* without a step to take (mark_consumed finds the receipt that get_receipt found,
\* and next() answers with a counter or an error: lib.rs:76-116).
THEOREM NeverStuck == Spec => []CallsReady
<1>1. Init => CallsReady
  BY DEF Init, AllIdle, Idle, CallsReady
<1> QED
  BY <1>1, StepReady, TypeCorrect, PTL DEF Spec

\* What a step does to a call that has begun: it is left alone, or it is nearer to
\* its return.
CallsAdvance ==
  \A th \in Threads : call[th].op # "idle" =>
    call'[th] = call[th] \/ StepsLeft(call'[th]) < StepsLeft(call[th])

LEMMA StepAdvances == TypeOK /\ [Next]_vars => CallsAdvance
<1> SUFFICES ASSUME TypeOK, [Next]_vars,
                    NEW th \in Threads, call[th].op # "idle", call'[th] # call[th]
             PROVE  StepsLeft(call'[th]) < StepsLeft(call[th])
  BY DEF CallsAdvance
<1> USE DEF TypeOK
<1>1. call[th].op \in {"counter", "issue", "save", "mark"}
  BY DEF Calls
<1>2. ASSUME call'[th] = Idle
      PROVE  StepsLeft(call'[th]) < StepsLeft(call[th])
  BY <1>1, <1>2 DEF Idle, StepsLeft
<1>3. \/ \E p \in Threads : Step(p)
      \/ Restart
  BY DEF Next, Register, GetSeed, GetReceipt, Tick, SetClockBack, vars
<1>4. CASE Restart
  BY <1>2, <1>4 DEF Restart, AllIdle
<1>5. CASE Step(th)
  <2>1. CASE NextSequential(th) \/ NextQuantized(th)
    <3>1. /\ call[th].op \in {"counter", "issue"}
          /\ call'[th] = Idle \/ call'[th].op = "save"
      BY <2>1 DEF NextSequential, NextQuantized, Reserve, Derived, Fail
    <3>2. CASE call'[th].op = "save"
      <4>1. StepsLeft(call'[th]) = 1 /\ StepsLeft(call[th]) \in {2, 3}
        BY <3>1, <3>2 DEF StepsLeft
      <4> QED
        BY <4>1
    <3> QED
      BY <1>2, <3>1, <3>2
  <2>2. CASE ReadClock(th)
    <3>1. call[th].op = "counter" /\ call'[th].op = "issue"
      BY <2>2 DEF ReadClock
    <3> QED
      BY <3>1 DEF StepsLeft
  <2>3. CASE SaveReceipt(th) \/ MarkConsumed(th) \/ StoreFails(th)
    <3>1. call'[th] = Idle
      BY <2>3 DEF SaveReceipt, MarkConsumed, StoreFails, Fail
    <3> QED
      BY <1>2, <3>1
  <2> QED
    BY <1>5, <2>1, <2>2, <2>3 DEF Step
<1>6. ASSUME NEW p \in Threads, Step(p)
      PROVE  p = th
  BY <1>6 DEF Step, NextSequential, ReadClock, NextQuantized, SaveReceipt,
    MarkConsumed, StoreFails, Reserve, Derived, Fail
<1> QED
  BY <1>3, <1>4, <1>5, <1>6

\* A call of the facade never goes back: once it has found its seed or its receipt
\* it returns after three steps at most, whatever runs between them (lib.rs:76-116).
THEOREM CallsOnlyAdvance == Spec => [][CallsAdvance]_vars
<1>1. TypeOK /\ [Next]_vars => [CallsAdvance]_vars
  BY StepAdvances
<1> QED
  BY <1>1, TypeCorrect, PTL DEF Spec

===========================================================================
