---------------------------- MODULE ReceiverSdk ----------------------------
(***************************************************************************)
(* The receiver facade (crates/mcpix-receiver-sdk): register,              *)
(* generate_charge and validate_receipt, called from several threads of    *)
(* one process over a shared SeedStore and a shared Counter.               *)
(*                                                                         *)
(* The traits are Send + Sync and every implementation guards its map (or  *)
(* connection) with one mutex per call, so a store or counter call is one  *)
(* step and a facade operation is as many steps as it makes calls.  What a *)
(* call returns early with (UnknownSeed, NoRetainedReceipt, Mismatch,      *)
(* Replay) leaves every state as it was and is not a step.                 *)
(*                                                                         *)
(* HMAC is symbolic: derive_pair(seed, T) yields the code <<seed, T>>,     *)
(* so two codes are equal only if seed and counter are.                    *)
(***************************************************************************)
EXTENDS Integers, FiniteSets

CONSTANTS
  Threads,        \* threads of the host application
  SeedIds,        \* public identifiers of registered receivers
  Materials,      \* 32-byte seeds the random generator may draw
  None,           \* absent map entry
  Sequential,     \* TRUE: InMemoryCounter, FALSE: TimestampQuantizedCounter
  Durable,        \* TRUE: SqliteSeedStore, FALSE: InMemorySeedStore
  MaxCounter,     \* stands for u64::MAX
  Window,         \* window_seconds of the quantized counter
  MaxTime,        \* last instant of the wall clock that is explored
  MaxRestarts     \* process restarts that are explored

ASSUME ModesAssumption == Sequential \in BOOLEAN /\ Durable \in BOOLEAN
ASSUME CounterAssumption == MaxCounter \in Nat
ASSUME WindowAssumption == Window \in Nat \ {0}
ASSUME TimeAssumption == MaxTime \in Nat /\ (MaxTime \div Window) <= MaxCounter
ASSUME RestartsAssumption == MaxRestarts \in Nat

VARIABLES
  seeds,       \* SeedStore: material registered for a SeedId
  receipts,    \* SeedStore: retained receipt of a key
  lastIssued,  \* Counter: last T issued for a SeedId, -1 when it has no entry
  now,         \* wall clock
  call,        \* facade call in progress on each thread
  owner,       \* history: SeedId a material was drawn for
  issued,      \* history: how many charges carried a code
  accepted,    \* history: how many Valid outcomes a code obtained
  setBack,     \* history: the wall clock has been set back
  restarts     \* history: process restarts so far

store == <<seeds, receipts>>
clock == <<now, setBack>>
history == <<owner, issued, accepted>>
vars == <<seeds, receipts, lastIssued, now, call, owner, issued, accepted,
          setBack, restarts>>

Counters == 0..MaxCounter
Keys == SeedIds \X Counters
Codes == Materials \X Counters

Receipt == [code: Codes, consumed: BOOLEAN]

ASSUME NoneAssumption == None \notin SeedIds \cup Materials \cup Receipt

Idle == [op |-> "idle"]
Calls == [op: {"idle"}]
    \cup [op: {"counter"}, sid: SeedIds, seed: Materials]
    \cup [op: {"issue"}, sid: SeedIds, seed: Materials, t: Counters]
    \cup [op: {"save"}, key: Keys, code: Codes]
    \cup [op: {"mark"}, key: Keys, code: Codes]

TypeOK ==
  /\ seeds \in [SeedIds -> Materials \cup {None}]
  /\ receipts \in [Keys -> Receipt \cup {None}]
  /\ lastIssued \in [SeedIds -> Counters \cup {-1}]
  /\ now \in 0..MaxTime
  /\ call \in [Threads -> Calls]
  /\ owner \in [Materials -> SeedIds \cup {None}]
  /\ issued \in [Codes -> Nat]
  /\ accepted \in [Codes -> Nat]
  /\ setBack \in BOOLEAN
  /\ restarts \in 0..MaxRestarts

(***************************************************************************)
(* Construction of the process: an empty in-memory counter.  The           *)
(* sequential one starts each entry at 0, the quantized one has no entry.  *)
(***************************************************************************)
NoneIssued == [s \in SeedIds |-> IF Sequential THEN 0 ELSE -1]
NoSeeds == [s \in SeedIds |-> None]
NoReceipts == [k \in Keys |-> None]
AllIdle == [th \in Threads |-> Idle]

Init ==
  /\ seeds = NoSeeds
  /\ receipts = NoReceipts
  /\ lastIssued = NoneIssued
  /\ now = 0
  /\ call = AllIdle
  /\ owner = [m \in Materials |-> None]
  /\ issued = [c \in Codes |-> 0]
  /\ accepted = [c \in Codes |-> 0]
  /\ setBack = FALSE
  /\ restarts = 0

(***************************************************************************)
(* register: draw fresh material, put_seed (which replaces an earlier one) *)
(***************************************************************************)
Register(s, m) ==
  /\ owner[m] = None
  /\ seeds' = [seeds EXCEPT ![s] = m]
  /\ owner' = [owner EXCEPT ![m] = s]
  /\ UNCHANGED <<receipts, lastIssued, clock, call, issued, accepted,
                 restarts>>

(***************************************************************************)
(* generate_charge: get_seed, then Counter::next, then save_receipt        *)
(***************************************************************************)
GetSeed(th, s) ==
  /\ call[th].op = "idle"
  /\ seeds[s] # None
  /\ call' = [call EXCEPT ![th] =
                [op |-> "counter", sid |-> s, seed |-> seeds[s]]]
  /\ UNCHANGED <<store, lastIssued, clock, history, restarts>>

\* apply_generate_charge, as far as the store is concerned: the receipt that
\* the charge of counter t leaves to be saved
Derived(s, m, t) == [op |-> "save", key |-> <<s, t>>, code |-> <<m, t>>]

Reserve(th, t) ==
  /\ lastIssued' = [lastIssued EXCEPT ![call[th].sid] = t]
  /\ call' = [call EXCEPT ![th] = Derived(call[th].sid, call[th].seed, t)]

Fail(th) ==
  /\ call' = [call EXCEPT ![th] = Idle]
  /\ UNCHANGED lastIssued

\* Mutant: the incremented counter is returned but not written back.
NextSequentialUnsaved(th) ==
  /\ Sequential
  /\ call[th].op = "counter"
  /\ LET last == lastIssued[call[th].sid]
     IN \/ last < MaxCounter
           /\ call' = [call EXCEPT ![th] =
                         Derived(call[th].sid, call[th].seed, last + 1)]
           /\ UNCHANGED lastIssued
        \/ last = MaxCounter /\ Fail(th)
  /\ UNCHANGED <<store, clock, history, restarts>>

\* Mutant: an exhausted counter is waited on instead of refused.
NextSequentialWaits(th) ==
  /\ Sequential
  /\ call[th].op = "counter"
  /\ lastIssued[call[th].sid] < MaxCounter
  /\ Reserve(th, lastIssued[call[th].sid] + 1)
  /\ UNCHANGED <<store, clock, history, restarts>>

\* InMemoryCounter::next
NextSequential(th) ==
  /\ Sequential
  /\ call[th].op = "counter"
  /\ LET last == lastIssued[call[th].sid]
     IN \/ last < MaxCounter /\ Reserve(th, last + 1)
        \/ last = MaxCounter /\ Fail(th)        \* CounterOverflow
  /\ UNCHANGED <<store, clock, history, restarts>>

\* Mutant: an instant is rounded up to the next quantum.
ReadClockRoundsUp(th) ==
  /\ ~ Sequential
  /\ call[th].op = "counter"
  /\ call' = [call EXCEPT ![th] =
                [op |-> "issue", sid |-> @.sid, seed |-> @.seed,
                 t |-> (now + Window - 1) \div Window]]
  /\ UNCHANGED <<store, lastIssued, clock, history, restarts>>

\* TimestampQuantizedCounter::next, the clock read that precedes the lock
ReadClock(th) ==
  /\ ~ Sequential
  /\ call[th].op = "counter"
  /\ call' = [call EXCEPT ![th] =
                [op |-> "issue", sid |-> @.sid, seed |-> @.seed,
                 t |-> now \div Window]]
  /\ UNCHANGED <<store, lastIssued, clock, history, restarts>>

\* Mutant: a second charge in the quantum of the last one is let through.
NextQuantizedCollides(th) ==
  /\ call[th].op = "issue"
  /\ LET t == call[th].t
         last == lastIssued[call[th].sid]
     IN \/ t >= last /\ Reserve(th, t)
        \/ t < last /\ Fail(th)
  /\ UNCHANGED <<store, clock, history, restarts>>

\* TimestampQuantizedCounter::next, under the lock: CounterCollision when t is
\* the last one, CounterRollback when it is smaller
NextQuantized(th) ==
  /\ call[th].op = "issue"
  /\ LET t == call[th].t
         last == lastIssued[call[th].sid]
     IN \/ t > last /\ Reserve(th, t)
        \/ t <= last /\ Fail(th)
  /\ UNCHANGED <<store, clock, history, restarts>>

SaveReceipt(th) ==
  /\ call[th].op = "save"
  /\ LET k == call[th].key
         c == call[th].code
     IN /\ receipts' = [receipts EXCEPT ![k] = [code |-> c, consumed |-> FALSE]]
        /\ issued' = [issued EXCEPT ![c] = @ + 1]
  /\ call' = [call EXCEPT ![th] = Idle]
  /\ UNCHANGED <<seeds, lastIssued, clock, owner, accepted, restarts>>

(***************************************************************************)
(* validate_receipt: get_receipt and the pure decision, then mark_consumed *)
(***************************************************************************)
\* Mutants: a receipt is accepted whatever code is presented; the consumed flag
\* is not looked at.
AcceptAnyCode(receipt, presented) ==
  IF receipt.consumed THEN "Replay" ELSE "Valid"
AcceptConsumed(receipt, presented) ==
  IF receipt.code = presented THEN "Valid" ELSE "Mismatch"

ApplyValidateReceipt(receipt, presented) ==
  IF receipt.consumed THEN "Replay"
  ELSE IF receipt.code = presented THEN "Valid" ELSE "Mismatch"

GetReceipt(th, k, presented) ==
  /\ call[th].op = "idle"
  /\ receipts[k] # None
  /\ ApplyValidateReceipt(receipts[k], presented) = "Valid"
  /\ call' = [call EXCEPT ![th] =
                [op |-> "mark", key |-> k, code |-> presented]]
  /\ UNCHANGED <<store, lastIssued, clock, history, restarts>>

\* Mutants: Valid is returned without marking; marking drops the receipt.
MarkConsumedSkipped(th) ==
  /\ call[th].op = "mark"
  /\ accepted' = [accepted EXCEPT ![call[th].code] = @ + 1]
  /\ call' = [call EXCEPT ![th] = Idle]
  /\ UNCHANGED <<store, lastIssued, clock, owner, issued, restarts>>
MarkConsumedDrops(th) ==
  /\ call[th].op = "mark"
  /\ receipts' = [receipts EXCEPT ![call[th].key] = None]
  /\ accepted' = [accepted EXCEPT ![call[th].code] = @ + 1]
  /\ call' = [call EXCEPT ![th] = Idle]
  /\ UNCHANGED <<seeds, lastIssued, clock, owner, issued, restarts>>

\* mark_consumed, after which the outcome Valid is returned.  Receipts are
\* never deleted, so the NoRetainedReceipt branch cannot be taken here.
MarkConsumed(th) ==
  /\ call[th].op = "mark"
  /\ receipts[call[th].key] # None
  /\ receipts' = [receipts EXCEPT ![call[th].key].consumed = TRUE]
  /\ accepted' = [accepted EXCEPT ![call[th].code] = @ + 1]
  /\ call' = [call EXCEPT ![th] = Idle]
  /\ UNCHANGED <<seeds, lastIssued, clock, owner, issued, restarts>>

\* Mutant: Valid is returned although the mark could not be stored.
StoreFailsAccepted(th) ==
  /\ Durable
  /\ call[th].op = "mark"
  /\ accepted' = [accepted EXCEPT ![call[th].code] = @ + 1]
  /\ Fail(th)
  /\ UNCHANGED <<store, clock, owner, issued, restarts>>

\* The SQLite store refuses the write (McpixError::Storage): the call returns
\* the error, and a reserved counter stays reserved.
StoreFails(th) ==
  /\ Durable
  /\ call[th].op \in {"save", "mark"}
  /\ Fail(th)
  /\ UNCHANGED <<store, clock, history, restarts>>

(***************************************************************************)
(* Environment: the wall clock, and the end of the process at any step.    *)
(* Counters and in-flight calls die with the process, the store does       *)
(* unless it is the SQLite one.                                            *)
(***************************************************************************)
Tick ==
  /\ ~ Sequential
  /\ now < MaxTime
  /\ now' = now + 1
  /\ UNCHANGED <<store, lastIssued, call, history, setBack, restarts>>

SetClockBack ==
  /\ ~ Sequential
  /\ now' \in 0..(now - 1)
  /\ setBack' = TRUE
  /\ UNCHANGED <<store, lastIssued, call, history, restarts>>

Restart ==
  /\ restarts < MaxRestarts
  /\ restarts' = restarts + 1
  /\ lastIssued' = NoneIssued
  /\ call' = AllIdle
  /\ IF Durable THEN UNCHANGED store
     ELSE seeds' = NoSeeds /\ receipts' = NoReceipts
  /\ UNCHANGED <<clock, history>>

Step(th) ==
  \/ NextSequential(th)
  \/ ReadClock(th)
  \/ NextQuantized(th)
  \/ SaveReceipt(th)
  \/ MarkConsumed(th)
  \/ StoreFails(th)

Next ==
  \/ \E s \in SeedIds, m \in Materials : Register(s, m)
  \/ \E th \in Threads, s \in SeedIds : GetSeed(th, s)
  \/ \E th \in Threads, k \in Keys, c \in Codes : GetReceipt(th, k, c)
  \/ \E th \in Threads : Step(th)
  \/ Tick
  \/ SetClockBack
  \/ Restart

Spec == Init /\ [][Next]_vars

\* A call that has begun is run to its end: each of its steps waits for one
\* mutex, held by another call only for the duration of a map operation.
FairSpec == Spec /\ \A th \in Threads : WF_vars(Step(th))

-----------------------------------------------------------------------------
(***************************************************************************)
(* Properties                                                              *)
(***************************************************************************)

\* No two charges carry the same confirmation code: Counter::next never
\* hands out a T twice for the seed it will be combined with
\* (traits.rs:36-41), whatever threads register, generate and restart.
CodeIssuedAtMostOnce == \A c \in Codes : issued[c] <= 1

\* Once validate_receipt has returned Valid for a code, no receipt holding
\* that code is open: a presentation that begins later finds it consumed.
AcceptedCodeIsClosed ==
  \A c \in Codes : accepted[c] > 0 =>
    \A k \in Keys : receipts[k] # None /\ receipts[k].code = c
                      => receipts[k].consumed

\* validate_receipt answers Valid only for a code that generate_charge has
\* already committed to the store for a returned charge.
AcceptedCodeWasIssued == \A c \in Codes : accepted[c] > 0 => issued[c] > 0

\* THREAT_MODEL 4.3 and lib.rs:98-99: a receipt is accepted at most once,
\* the second presentation being answered with Replay.
AcceptedAtMostOnce == \A c \in Codes : accepted[c] <= 1

\* Only presentations that overlap can all be accepted: a code obtains Valid at
\* most once for each thread that may be inside validate_receipt.
AcceptedAtMostOncePerCaller == \A c \in Codes : accepted[c] <= Cardinality(Threads)

\* Unless the clock was set back, no counter is ahead of the clock, however late
\* the thread that read it takes the lock: a charge refused in one quantum is
\* let through in the next (timestamp_counter.rs:65-93).
CounterBehindClock ==
  ~ Sequential /\ ~ setBack => \A s \in SeedIds : lastIssued[s] <= now \div Window

\* Every facade call returns.
EveryCallReturns ==
  \A th \in Threads : call[th].op # "idle" ~> call[th].op = "idle"

\* The retained receipts are an append-only ledger: a saved receipt is never
\* overwritten by another charge and never reopened.
Ledger == INSTANCE ReceiptLedger WITH ledger <- receipts, Volatile <- ~ Durable
LedgerSpec == Ledger!Spec

-----------------------------------------------------------------------------
(***************************************************************************)
(* The inductive invariant behind the properties above, for a store that   *)
(* does not outlive the counter.                                           *)
(***************************************************************************)
Reading(th) == call[th].op \in {"counter", "issue"}

\* Material some charge may still be derived from.
Live(m) ==
  \/ \E s \in SeedIds : seeds[s] = m
  \/ \E th \in Threads : Reading(th) /\ call[th].seed = m

SeedsOwned ==
  /\ \A s \in SeedIds : seeds[s] # None => owner[seeds[s]] = s
  /\ \A th \in Threads : Reading(th) => owner[call[th].seed] = call[th].sid

\* The key and the code of a receipt name the same SeedId and counter, and
\* that counter has been reserved.
Reserved(k, c) ==
  /\ owner[c[1]] = k[1]
  /\ c[2] = k[2]
  /\ k[2] <= lastIssued[k[1]]

ReceiptsReserved ==
  \A k \in Keys : receipts[k] # None =>
    Reserved(k, receipts[k].code) /\ issued[receipts[k].code] > 0

SavesFresh ==
  /\ \A th \in Threads : call[th].op = "save" =>
       /\ Reserved(call[th].key, call[th].code)
       /\ issued[call[th].code] = 0
       /\ receipts[call[th].key] = None
  /\ \A th1, th2 \in Threads :
       /\ call[th1].op = "save" /\ call[th2].op = "save"
       /\ call[th1].key = call[th2].key
       => th1 = th2

MarksHeld ==
  \A th \in Threads : call[th].op = "mark" =>
    /\ receipts[call[th].key] # None
    /\ receipts[call[th].key].code = call[th].code

\* Every counter a live material was combined with has been passed by.
LiveCountersPassed ==
  \A m \in Materials, t \in Counters :
    Live(m) /\ issued[<<m, t>>] > 0 => t <= lastIssued[owner[m]]

UndrawnUnissued ==
  \A m \in Materials, t \in Counters : owner[m] = None => issued[<<m, t>>] = 0

\* The conjunction is what a restart, a concurrent registration and every
\* interleaving of the two-step counter preserve together.
IInv ==
  /\ TypeOK
  /\ SeedsOwned
  /\ ReceiptsReserved
  /\ SavesFresh
  /\ MarksHeld
  /\ LiveCountersPassed
  /\ UndrawnUnissued
  /\ CodeIssuedAtMostOnce
  /\ AcceptedCodeIsClosed
  /\ AcceptedCodeWasIssued

\* A process that restarts has lost its counters; its store must be lost too.
StoreDiesWithCounter == Durable => MaxRestarts = 0

\* With a single calling thread, a call about to answer Valid is the first.
SerialCalls == \A th1, th2 \in Threads : th1 = th2
MarksFirst == \A th \in Threads : call[th].op = "mark" => accepted[call[th].code] = 0

=============================================================================
