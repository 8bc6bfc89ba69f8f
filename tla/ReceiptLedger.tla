--------------------------- MODULE ReceiptLedger ---------------------------
(***************************************************************************)
(* What the receiver's store of retained receipts promises to the rest of  *)
(* the protocol: an append-only ledger.  A charge is entered once, under   *)
(* a key that was never used and with a confirmation code that no other    *)
(* entry holds; it may be settled once; it is never reopened, replaced or  *)
(* removed.  A ledger kept in memory may be lost as a whole.               *)
(***************************************************************************)
CONSTANTS
  Keys,       \* (SeedId, counter) pairs, the primary key of a receipt
  Codes,      \* confirmation codes
  None,       \* no entry
  Volatile    \* TRUE when the ledger lives in the memory of the process

VARIABLE ledger

Entry == [code: Codes, consumed: BOOLEAN]

Init == ledger = [k \in Keys |-> None]

Enter(k, c) ==
  /\ ledger[k] = None
  /\ \A j \in Keys : ledger[j] # None => ledger[j].code # c
  /\ ledger' = [ledger EXCEPT ![k] = [code |-> c, consumed |-> FALSE]]

Settle(k) ==
  /\ ledger[k] # None
  /\ ~ ledger[k].consumed
  /\ ledger' = [ledger EXCEPT ![k].consumed = TRUE]

Lose ==
  /\ Volatile
  /\ ledger' = [k \in Keys |-> None]

Next ==
  \/ \E k \in Keys, c \in Codes : Enter(k, c)
  \/ \E k \in Keys : Settle(k)
  \/ Lose

Spec == Init /\ [][Next]_ledger
=============================================================================
