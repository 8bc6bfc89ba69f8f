------------------------ MODULE ReceiptLedger_proofs ------------------------
(***************************************************************************)
(* What a ledger of receipts gives to whoever holds one.  The receiver's   *)
(* store is such a ledger in each of the configurations for which it is    *)
(* shown to implement ReceiptLedger!Spec, and inherits these facts.        *)
(***************************************************************************)
EXTENDS ReceiptLedger, TLAPS

LedgerType == ledger \in [Keys -> Entry \cup {None}]

CodesDistinct ==
  \A j, k \in Keys :
    ledger[j] # None /\ ledger[k] # None /\ ledger[j].code = ledger[k].code => j = k

Settled(k) == ledger[k] # None /\ ledger[k].consumed

\* What a step keeps of every entry, but when the ledger is lost.
EntriesKept ==
  \A k \in Keys : ledger[k] # None =>
    /\ ledger'[k] # None
    /\ ledger'[k].code = ledger[k].code
    /\ Settled(k) => ledger'[k] = ledger[k]

LEMMA EnterKeeps ==
  ASSUME None \notin Entry, LedgerType, CodesDistinct, NEW k \in Keys, NEW c \in Codes, Enter(k, c)
  PROVE  LedgerType' /\ CodesDistinct' /\ EntriesKept
<1> DEFINE e == [code |-> c, consumed |-> FALSE]
<1>1. /\ ledger' = [ledger EXCEPT ![k] = e] /\ ledger[k] = None
      /\ \A j \in Keys : ledger[j] # None => ledger[j].code # c
  BY DEF Enter
<1>2. e \in Entry /\ e.code = c
  BY DEF Entry
<1> HIDE DEF e
<1>0. e # None
  BY <1>2
<1>3. LedgerType'
  BY <1>1, <1>2 DEF LedgerType
<1>4. \A j \in Keys : ledger'[j] = IF j = k THEN e ELSE ledger[j]
  BY <1>1 DEF LedgerType
<1>5. CodesDistinct'
  BY <1>0, <1>1, <1>2, <1>4 DEF CodesDistinct
<1> QED
  BY <1>0, <1>1, <1>3, <1>4, <1>5 DEF EntriesKept

LEMMA SettleKeeps ==
  ASSUME None \notin Entry, LedgerType, CodesDistinct, NEW k \in Keys, Settle(k)
  PROVE  LedgerType' /\ CodesDistinct' /\ EntriesKept
<1>1. ledger[k] \in Entry /\ ~ ledger[k].consumed
  BY DEF Settle, LedgerType
<1>2. \A j \in Keys : ledger'[j] = IF j = k THEN [ledger[k] EXCEPT !.consumed = TRUE]
                                            ELSE ledger[j]
  BY DEF Settle, LedgerType
<1>3. ledger'[k] \in Entry /\ ledger'[k].code = ledger[k].code
  BY <1>1, <1>2 DEF Entry
<1>4. LedgerType'
  BY <1>3 DEF Settle, LedgerType
<1>5. \A j \in Keys : ledger'[j] # None => ledger[j] # None /\ ledger'[j].code = ledger[j].code
  BY <1>1, <1>2, <1>3
<1>6. CodesDistinct'
  BY <1>5 DEF CodesDistinct
<1> QED
  BY <1>1, <1>2, <1>3, <1>4, <1>6 DEF EntriesKept, Settled

LEMMA LoseKeeps ==
  ASSUME Lose
  PROVE  Volatile /\ LedgerType' /\ CodesDistinct'
  BY DEF Lose, LedgerType, CodesDistinct

LEMMA StepKeeps ==
  None \notin Entry /\ LedgerType /\ CodesDistinct /\ [Next]_ledger
    => LedgerType' /\ CodesDistinct' /\ (Volatile \/ EntriesKept)
<1>1. LedgerType /\ CodesDistinct /\ UNCHANGED ledger
        => LedgerType' /\ CodesDistinct' /\ EntriesKept
  BY DEF LedgerType, CodesDistinct, EntriesKept
<1> QED
  BY <1>1, EnterKeeps, SettleKeeps, LoseKeeps DEF Next

\* A confirmation code is held by one entry at most (the primary key of
\* sqlite_store.rs:49-56 is <<seed_id, counter>>, which says nothing of codes):
\* the receipt a code is presented for is the one it was issued with.
THEOREM CodesAreDistinct ==
  ASSUME None \notin Entry
  PROVE  Spec => [](LedgerType /\ CodesDistinct)
<1>1. Init => LedgerType /\ CodesDistinct
  BY DEF Init, LedgerType, CodesDistinct
<1>2. LedgerType /\ CodesDistinct /\ [Next]_ledger => LedgerType' /\ CodesDistinct'
  BY StepKeeps
<1> QED
  BY <1>1, <1>2, PTL DEF Spec

\* A ledger that outlives the process is append-only: no step removes an entry,
\* gives it another code or changes a settled one.
THEOREM AppendOnly ==
  ASSUME None \notin Entry, ~ Volatile
  PROVE  Spec => [][EntriesKept]_ledger
<1>1. LedgerType /\ CodesDistinct /\ [Next]_ledger => [EntriesKept]_ledger
  BY StepKeeps
<1> QED
  BY <1>1, CodesAreDistinct, PTL DEF Spec

\* Once settled, an entry is settled for ever: a second presentation is answered
\* with Replay however much later it comes.
THEOREM SettledIsFinal ==
  ASSUME None \notin Entry, ~ Volatile, NEW k \in Keys
  PROVE  Spec => [](Settled(k) => []Settled(k))
<1>1. Settled(k) /\ [EntriesKept]_ledger => Settled(k)'
  BY DEF Settled, EntriesKept
<1> QED
  BY <1>1, AppendOnly, PTL
=============================================================================
