-------------------------- MODULE PaymentPromise --------------------------
(***************************************************************************)
(* What institutional substitution promises the receiver (docs/PROTOCOL.md *)
(* 4): a charge is settled only after the payer's bank has issued a        *)
(* receipt for that very charge, and it is settled once.                   *)
(***************************************************************************)
CONSTANT Keys      \* (SeedId, counter) pairs: the charges

VARIABLE status

Statuses == {"unused", "charged", "paid", "settled"}

Init == status = [k \in Keys |-> "unused"]

Advance(k, from, to) ==
  /\ status[k] = from
  /\ status' = [status EXCEPT ![k] = to]

Charge(k) == Advance(k, "unused", "charged")
Pay(k) == Advance(k, "charged", "paid")
Settle(k) == Advance(k, "paid", "settled")

Next == \E k \in Keys : Charge(k) \/ Pay(k) \/ Settle(k)

Spec == Init /\ [][Next]_status
=============================================================================
