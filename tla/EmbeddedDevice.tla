-------------------------- MODULE EmbeddedDevice --------------------------
(***************************************************************************)
(* The firmware of a receiver device (embedded-uno-q/src/main.rs; the      *)
(* other demo, embedded/src/main.rs, is the same program): each boot       *)
(* reserves the next counter in flash, derives the pair, shows the charge  *)
(* as a QR code, retains its receipt in flash, reloads both stores and     *)
(* marks the receipt consumed once the payer's code verifies.              *)
(*                                                                         *)
(* The CounterStore and the ReceiptStore are two DurableCells, which       *)
(* FlashStore implements as long as no record decays.  Flash outlives the  *)
(* boot, as on a device (the demos put a RamFlash in its place).  The      *)
(* power may be cut at any step, and the flash backend may refuse any      *)
(* access.                                                                 *)
(***************************************************************************)
EXTENDS Integers

CONSTANTS
  MaxT,           \* last counter explored
  MaxReadFaults,  \* failed reads of the counter at boot that are explored
  Empty           \* no valid record in a store

ASSUME BoundsAssumption == MaxT \in Nat /\ MaxReadFaults \in Nat

Ts == 1..MaxT
Receipt == [t: Ts, consumed: BOOLEAN]

ASSUME EmptyAssumption == Empty \notin Int /\ Empty \notin Receipt

VARIABLES
  counter, counterPending, counterResult,   \* CounterStore: last_t
  receipt, receiptPending, receiptResult,   \* ReceiptStore
  pc,          \* where main() is
  newT,        \* new_t, 0 before it is computed
  derived,     \* history: how many boots derived and showed the pair of a T
  readFaults   \* history: failed reads of the counter at boot

counterStore == <<counter, counterPending, counterResult>>
receiptStore == <<receipt, receiptPending, receiptResult>>
history == <<derived, readFaults>>
vars == <<counter, counterPending, counterResult, receipt, receiptPending,
          receiptResult, pc, newT, derived, readFaults>>

Counter == INSTANCE DurableCell WITH Values <- Ts, cell <- counter,
             pending <- counterPending, result <- counterResult
Receipts == INSTANCE DurableCell WITH Values <- Receipt, cell <- receipt,
             pending <- receiptPending, result <- receiptResult

TypeOK ==
  /\ Counter!TypeOK
  /\ Receipts!TypeOK
  /\ pc \in {"boot", "reserve", "reserving", "derive", "retain", "retaining",
             "reload", "verify", "marking", "done", "halt"}
  /\ newT \in 0..MaxT
  /\ derived \in [Ts -> Nat]
  /\ readFaults \in 0..MaxReadFaults

Init ==
  /\ Counter!Init
  /\ Receipts!Init
  /\ pc = "boot"
  /\ newT = 0
  /\ derived = [t \in Ts |-> 0]
  /\ readFaults = 0

ToSave == [t |-> newT, consumed |-> FALSE]

\* Mutant: the counter is not advanced past the one found.
LoadCounterUnadvanced ==
  /\ pc = "boot"
  /\ newT' = (IF counter = Empty THEN 1 ELSE counter)
  /\ pc' = "reserve"
  /\ UNCHANGED <<counterStore, receiptStore, history>>

\* new_t = load().map(last_t).unwrap_or(0) + 1: an empty store and a failed
\* read both count as 0.
LoadCounter ==
  /\ pc = "boot"
  /\ LET last == IF counter = Empty THEN 0 ELSE counter
     IN \/ newT' = last + 1 /\ UNCHANGED readFaults
        \/ /\ readFaults < MaxReadFaults
           /\ newT' = 1
           /\ readFaults' = readFaults + 1
  /\ newT' <= MaxT
  /\ pc' = "reserve"
  /\ UNCHANGED <<counterStore, receiptStore, derived>>

\* The counter is saved before anything is derived from it.
BeginReserve ==
  /\ pc = "reserve"
  /\ Counter!Begin(newT)
  /\ pc' = "reserving"
  /\ UNCHANGED <<receiptStore, newT, history>>

\* Mutants: the pair is derived while the counter is still being saved; a
\* failed save is taken for a success.
EndReserveLate ==
  /\ pc = "reserving"
  /\ derived' = [derived EXCEPT ![newT] = @ + 1]
  /\ \/ Counter!Commit /\ pc' = "retain"
     \/ Counter!Abort /\ pc' = "halt"
  /\ UNCHANGED <<receiptStore, newT, readFaults>>

EndReserveUnchecked ==
  /\ pc = "reserving"
  /\ Counter!Commit \/ Counter!Abort
  /\ pc' = "derive"
  /\ UNCHANGED <<receiptStore, newT, history>>

EndReserve ==
  /\ pc = "reserving"
  /\ \/ Counter!Commit /\ pc' = "derive"
     \/ Counter!Abort /\ pc' = "halt"
  /\ UNCHANGED <<receiptStore, newT, history>>

\* derive_pair, encode_into and charge_qr: the charge is on the display.
Derive ==
  /\ pc = "derive"
  /\ derived' = [derived EXCEPT ![newT] = @ + 1]
  /\ pc' = "retain"
  /\ UNCHANGED <<counterStore, receiptStore, newT, readFaults>>

BeginRetain ==
  /\ pc = "retain"
  /\ Receipts!Begin(ToSave)
  /\ pc' = "retaining"
  /\ UNCHANGED <<counterStore, newT, history>>

\* Mutant: a failed save is taken for a success.
EndRetainUnchecked ==
  /\ pc = "retaining"
  /\ Receipts!Commit \/ Receipts!Abort
  /\ pc' = "reload"
  /\ UNCHANGED <<counterStore, newT, history>>

EndRetain ==
  /\ pc = "retaining"
  /\ \/ Receipts!Commit /\ pc' = "reload"
     \/ Receipts!Abort /\ pc' = "halt"
  /\ UNCHANGED <<counterStore, newT, history>>

\* Both stores are reopened and must hold what was saved.
Reload ==
  /\ pc = "reload"
  /\ pc' = IF receipt = ToSave /\ counter = newT THEN "verify" ELSE "halt"
  /\ UNCHANGED <<counterStore, receiptStore, newT, history>>

\* verify_c2 succeeds: mark_consumed reads the record again and saves a copy,
\* unless it is consumed already.
BeginMark ==
  /\ pc = "verify"
  /\ \/ /\ ~ receipt.consumed
        /\ Receipts!Begin([receipt EXCEPT !.consumed = TRUE])
        /\ pc' = "marking"
     \/ /\ receipt.consumed
        /\ pc' = "done"
        /\ UNCHANGED receiptStore
  /\ UNCHANGED <<counterStore, newT, history>>

EndMark ==
  /\ pc = "marking"
  /\ \/ Receipts!Commit /\ pc' = "done"
     \/ Receipts!Abort /\ pc' = "halt"
  /\ UNCHANGED <<counterStore, newT, history>>

\* A read that fails in save, load or mark_consumed, or a code that does not
\* verify: STATUS 0xFF.
Refuse ==
  /\ pc \in {"reserve", "derive", "retain", "reload", "verify"}
  /\ pc' = "halt"
  /\ UNCHANGED <<counterStore, receiptStore, newT, history>>

\* The power is cut, during a save or elsewhere, and the device boots again.
PowerCycle ==
  /\ pc # "boot"
  /\ pc' = "boot"
  /\ newT' = 0
  /\ Counter!Abort \/ (counterPending = Empty /\ UNCHANGED counterStore)
  /\ Receipts!Abort \/ (receiptPending = Empty /\ UNCHANGED receiptStore)
  /\ UNCHANGED history

Next ==
  \/ LoadCounter \/ BeginReserve \/ EndReserve
  \/ Derive
  \/ BeginRetain \/ EndRetain
  \/ Reload
  \/ BeginMark \/ EndMark
  \/ Refuse \/ PowerCycle

Spec == Init /\ [][Next]_vars

-----------------------------------------------------------------------------
(***************************************************************************)
(* Properties                                                              *)
(***************************************************************************)

\* main.rs:101-103 and THREAT_MODEL 7.2: no boot derives from a counter that
\* another boot derived from, wherever the power is cut.
NoCounterReuse == \A t \in Ts : derived[t] <= 1

\* The check that follows the reload cannot fail: what a save that returned
\* Ok has written is there, in both stores.
ReloadMatches == pc = "reload" => receipt = ToSave /\ counter = newT

\* "Defesa de replay sobrevive a reboot": once consumed, a receipt is only
\* ever replaced by the one of a later charge.
ConsumedIsFinal ==
  [][receipt # Empty /\ receipt.consumed =>
       receipt' = receipt \/ receipt'.t > receipt.t]_vars

\* The retained receipt is never ahead of the counter: a boot that finds a
\* receipt reserves a later counter than the receipt's.
CounterCoversReceipt ==
  receipt # Empty => counter # Empty /\ receipt.t <= counter

\* From the reload on, the retained receipt is that of the charge on display,
\* shown by this boot only.  A boot that ends before may have shown a charge and
\* lost it: the display comes before the save (main.rs:124-158).
DisplayedIsRetained ==
  pc \in {"reload", "verify", "marking", "done"} =>
    derived[newT] = 1 /\ receipt # Empty /\ receipt.t = newT

(***************************************************************************)
(* The inductive invariants.  SaveInv holds whatever fails; the rest of    *)
(* IInv, until a boot fails to read its counter.                           *)
(***************************************************************************)
\* Which save is in progress, and of what.
SavesMatchPc ==
  /\ counterPending = IF pc = "reserving" THEN newT ELSE Empty
  /\ receiptPending = IF pc = "retaining" THEN ToSave
                      ELSE IF pc = "marking" THEN [ToSave EXCEPT !.consumed = TRUE]
                      ELSE Empty

\* What main() goes on with is what its saves have written.
SavedFirst ==
  /\ pc \in {"reserve", "reserving"} => newT > 0
  /\ pc \in {"derive", "retain", "retaining", "reload", "verify", "marking"} =>
       newT > 0 /\ counter = newT
  /\ pc \in {"reload", "verify", "marking"} => receipt = ToSave

SaveInv ==
  /\ TypeOK
  /\ SavesMatchPc
  /\ SavedFirst

\* Every counter derived from, and the receipt's, is persisted as last_t.
DerivedIsReserved ==
  \A t \in Ts : derived[t] > 0 => counter # Empty /\ t <= counter

\* new_t is ahead of every counter used until it is derived from.
NewTFresh ==
  /\ pc \in {"reserve", "reserving"} /\ counter # Empty => newT > counter
  /\ pc = "derive" => derived[newT] = 0
  /\ pc \in {"derive", "retain", "retaining"} /\ receipt # Empty => receipt.t < newT

IInv ==
  /\ SaveInv
  /\ DerivedIsReserved
  /\ NewTFresh
  /\ CounterCoversReceipt
  /\ NoCounterReuse

\* The condition of the theorems: every boot so far has read its counter.
BootReadsCounter == readFaults = 0

=============================================================================
