---------------------------- MODULE DurableCell ----------------------------
(***************************************************************************)
(* What a ReceiptStore or a CounterStore of mcpix-embed promises to the    *)
(* firmware: one durable value.  A save that returns Ok has replaced it; a *)
(* save that fails, or that a power cut interrupts, has replaced it or     *)
(* left it alone; nothing else changes it (storage.rs, "Atomicidade de     *)
(* cold-cut").                                                             *)
(***************************************************************************)
CONSTANTS
  Values,     \* what the records of the store hold
  Empty       \* no valid record

VARIABLES
  cell,       \* what load returns
  pending,    \* value of the save in progress, Empty when there is none
  result      \* how the last save ended

Results == {"none", "ok", "failed"}

TypeOK ==
  /\ cell \in Values \cup {Empty}
  /\ pending \in Values \cup {Empty}
  /\ result \in Results

Init == cell = Empty /\ pending = Empty /\ result = "none"

Begin(v) ==
  /\ pending = Empty
  /\ pending' = v
  /\ UNCHANGED <<cell, result>>

Commit ==
  /\ pending # Empty
  /\ cell' = pending
  /\ pending' = Empty
  /\ result' = "ok"

Abort ==
  /\ pending # Empty
  /\ cell' \in {cell, pending}
  /\ pending' = Empty
  /\ result' = "failed"

Next == (\E v \in Values : Begin(v)) \/ Commit \/ Abort

Spec == Init /\ [][Next]_<<cell, pending, result>>
=============================================================================
