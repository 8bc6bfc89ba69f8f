---------------------------- MODULE Settlement ----------------------------
(***************************************************************************)
(* One payment across the three parties of the protocol: a receiver that   *)
(* is offline once its seed is posted, the receiver's bank that holds      *)
(* seeds in custody behind HTTP, and the payer's bank that looks the seed  *)
(* up and recomposes the confirmation code in the receiver's stead.        *)
(*                                                                         *)
(* The receiver runs on one thread with a TimestampQuantizedCounter and    *)
(* does not restart (ReceiverSdk has threads and restarts), so a facade    *)
(* call of it is one step on a ReceiptLedger.  The network delays,         *)
(* reorders and loses requests and replies; a client that waits too long   *)
(* gives up while its request may still arrive.  The receiver and the      *)
(* payer's bank read clocks that differ by a skew.                         *)
(*                                                                         *)
(* HMAC is symbolic: C1 is the pair of a seed and T, C2 the triple of a    *)
(* seed, T and the C1 it is chained to.                                    *)
(***************************************************************************)
EXTENDS Integers

CONSTANTS
  SeedIds,         \* registered receivers
  Materials,       \* 32-byte seeds the random generator may draw
  None,            \* absent map entry
  Payments,        \* calls of process_payment and process_payment_windowed
  Window,          \* window_seconds
  Tolerance,       \* tolerance_windows of the payer's bank
  MaxCounter,      \* stands for u64::MAX
  MaxSkew,         \* largest difference of the two clocks
  MaxTime,         \* last instant of the receiver's clock that is explored
  MaxPosts,        \* POST requests of a receiver that are explored
  MaxBankRestarts  \* restarts of the receiver's bank that are explored

ASSUME WindowAssumption == Window \in Nat \ {0} /\ Tolerance \in Nat
ASSUME ClockAssumption ==
  /\ MaxSkew \in Nat /\ MaxTime \in Nat /\ MaxCounter \in Nat
  /\ MaxSkew <= MaxTime
  /\ (MaxTime + MaxSkew) \div Window <= MaxCounter
ASSUME BoundsAssumption == MaxPosts \in Nat /\ MaxBankRestarts \in Nat

VARIABLES
  now,          \* the receiver's clock
  skew,         \* how far the clock of the payer's bank is ahead of it
  seeds,        \* the receiver's SeedStore
  owner,        \* history: SeedId a material was drawn for
  lastIssued,   \* the receiver's counter, -1 when it has no entry
  receipts,     \* the receiver's retained receipts
  instruments,  \* charges handed to payers
  custody,      \* InMemoryBankReceiver: the seeds of the receiver's bank
  posts,        \* POST /v1/seeds/{seed_id} requests in the network
  attempts,     \* history: POST requests sent so far
  waiting,      \* a receiver waits for the reply to its last POST
  confirmed,    \* the seed held now was posted, and the POST returned Ok
  stray,        \* history: an abandoned POST was in the network when the
                \* last one was sent
  payments,     \* calls at the payer's bank
  bankRestarts  \* history: restarts of the receiver's bank

receiver == <<seeds, owner, lastIssued, receipts, instruments>>
network == <<posts, attempts, waiting, stray>>
bank == <<custody, bankRestarts>>
clocks == <<now, skew>>
vars == <<now, skew, seeds, owner, lastIssued, receipts, instruments, custody,
          posts, attempts, waiting, confirmed, stray, payments, bankRestarts>>

Counters == 0..MaxCounter
Keys == SeedIds \X Counters
C1s == Materials \X Counters
C2s == Materials \X Counters \X C1s
Start == MaxSkew     \* so that neither clock reads a negative time
BankTimes == 0..(MaxTime + MaxSkew)

Instruments == [sid: SeedIds, c1: C1s, at: Start..MaxTime]
Posts == [sid: SeedIds, seed: Materials, try: 1..MaxPosts]
Requests == [inst: Instruments, windowed: BOOLEAN, at: BankTimes,
             quanta: SUBSET Counters]
NotStarted == [stage |-> "none"]
Failed == [stage |-> "failed"]
Calls == {NotStarted, Failed}
    \cup [stage: {"get"}, req: Requests]
    \cup [stage: {"reply", "issued"}, req: Requests, seed: Materials]

ASSUME NoneAssumption ==
  None \notin SeedIds \cup Materials \cup [code: C2s, consumed: BOOLEAN]

Ledger == INSTANCE ReceiptLedger
            WITH ledger <- receipts, Codes <- C2s, Volatile <- FALSE

TypeOK ==
  /\ now \in Start..MaxTime
  /\ skew \in (-MaxSkew)..MaxSkew
  /\ seeds \in [SeedIds -> Materials \cup {None}]
  /\ owner \in [Materials -> SeedIds \cup {None}]
  /\ lastIssued \in [SeedIds -> Counters \cup {-1}]
  /\ receipts \in [Keys -> Ledger!Entry \cup {None}]
  /\ instruments \subseteq Instruments
  /\ custody \in [SeedIds -> Materials \cup {None}]
  /\ posts \subseteq Posts
  /\ attempts \in [SeedIds -> 0..MaxPosts]
  /\ waiting \in [SeedIds -> BOOLEAN]
  /\ confirmed \in [SeedIds -> BOOLEAN]
  /\ stray \in [SeedIds -> BOOLEAN]
  /\ payments \in [Payments -> Calls]
  /\ bankRestarts \in 0..MaxBankRestarts

Init ==
  /\ now = Start
  /\ skew \in (-MaxSkew)..MaxSkew
  /\ seeds = [s \in SeedIds |-> None]
  /\ owner = [m \in Materials |-> None]
  /\ lastIssued = [s \in SeedIds |-> -1]
  /\ Ledger!Init
  /\ instruments = {}
  /\ custody = [s \in SeedIds |-> None]
  /\ posts = {}
  /\ attempts = [s \in SeedIds |-> 0]
  /\ waiting = [s \in SeedIds |-> FALSE]
  /\ confirmed = [s \in SeedIds |-> FALSE]
  /\ stray = [s \in SeedIds |-> FALSE]
  /\ payments = [p \in Payments |-> NotStarted]
  /\ bankRestarts = 0

(***************************************************************************)
(* Registration: the receiver draws a seed, then posts it to its bank and  *)
(* blocks until the reply; the owner of a SeedId does one thing at a time. *)
(***************************************************************************)
Register(s, m) ==
  /\ ~ waiting[s]
  /\ owner[m] = None
  /\ seeds' = [seeds EXCEPT ![s] = m]
  /\ owner' = [owner EXCEPT ![m] = s]
  /\ confirmed' = [confirmed EXCEPT ![s] = FALSE]
  /\ UNCHANGED <<lastIssued, receipts, instruments, clocks, network, bank,
                 payments>>

\* HttpBankReceiver::register_seed sends the request
PostSeed(s) ==
  /\ ~ waiting[s] /\ seeds[s] # None
  /\ attempts[s] < MaxPosts
  /\ attempts' = [attempts EXCEPT ![s] = @ + 1]
  /\ posts' = posts \cup
       {[sid |-> s, seed |-> seeds[s], try |-> attempts[s] + 1]}
  /\ waiting' = [waiting EXCEPT ![s] = TRUE]
  /\ confirmed' = [confirmed EXCEPT ![s] = FALSE]
  /\ stray' = [stray EXCEPT ![s] = \E r \in posts : r.sid = s]
  /\ UNCHANGED <<receiver, clocks, bank, payments>>

\* The reply 204 to the POST a client waits for, when the network delivers it
Answered(r) ==
  /\ waiting[r.sid] /\ attempts[r.sid] = r.try
  /\ waiting' = [waiting EXCEPT ![r.sid] = FALSE]
  /\ confirmed' = [confirmed EXCEPT ![r.sid] = TRUE]

\* Mutant: a seed that is already in custody is kept.
PutSeedOnce(r) ==
  /\ r \in posts
  /\ posts' = posts \ {r}
  /\ custody' = [custody EXCEPT ![r.sid] = IF @ = None THEN r.seed ELSE @]
  /\ Answered(r) \/ UNCHANGED <<waiting, confirmed>>
  /\ UNCHANGED <<receiver, clocks, attempts, stray, bankRestarts, payments>>

\* put_seed, and InMemoryBankReceiver::register_seed under its write lock
PutSeed(r) ==
  /\ r \in posts
  /\ posts' = posts \ {r}
  /\ custody' = [custody EXCEPT ![r.sid] = r.seed]
  /\ Answered(r) \/ UNCHANGED <<waiting, confirmed>>
  /\ UNCHANGED <<receiver, clocks, attempts, stray, bankRestarts, payments>>

LosePost(r) ==
  /\ r \in posts
  /\ posts' = posts \ {r}
  /\ UNCHANGED <<receiver, clocks, attempts, waiting, confirmed, stray, bank,
                 payments>>

\* register_seed returns McpixError::Transport: no reply, or an error status
GiveUp(s) ==
  /\ waiting[s]
  /\ waiting' = [waiting EXCEPT ![s] = FALSE]
  /\ UNCHANGED <<receiver, clocks, posts, attempts, confirmed, stray, bank,
                 payments>>

(***************************************************************************)
(* generate_charge, offline                                                *)
(***************************************************************************)
\* Mutant: C2 is derived from the seed and T alone.
DeriveC2Unchained(m, t, c1) == <<m, t, <<m, t>>>>

DeriveC2FromC1(m, t, c1) == <<m, t, c1>>

\* Mutant: the counter is returned but not written back.
GenerateChargeUnsaved(s) ==
  LET t == now \div Window
      c1 == <<seeds[s], t>>
  IN /\ seeds[s] # None
     /\ t > lastIssued[s]
     /\ receipts' = [receipts EXCEPT ![<<s, t>>] =
          [code |-> DeriveC2FromC1(seeds[s], t, c1), consumed |-> FALSE]]
     /\ instruments' = instruments \cup {[sid |-> s, c1 |-> c1, at |-> now]}
     /\ UNCHANGED <<seeds, owner, lastIssued, clocks, network, confirmed, bank,
                    payments>>

GenerateCharge(s) ==
  LET t == now \div Window
      c1 == <<seeds[s], t>>
  IN /\ seeds[s] # None
     /\ t > lastIssued[s]
     /\ lastIssued' = [lastIssued EXCEPT ![s] = t]
     /\ receipts' = [receipts EXCEPT ![<<s, t>>] =
          [code |-> DeriveC2FromC1(seeds[s], t, c1), consumed |-> FALSE]]
     /\ instruments' = instruments \cup {[sid |-> s, c1 |-> c1, at |-> now]}
     /\ UNCHANGED <<seeds, owner, clocks, network, confirmed, bank, payments>>

(***************************************************************************)
(* The payer's bank: process_payment_windowed and process_payment          *)
(***************************************************************************)
BankTime == now + skew
BankQuantum == BankTime \div Window

\* Mutants: the window is open at its upper end; it is taken in seconds.
QuantaOpen(q) == {t \in Counters : q - Tolerance <= t /\ t < q + Tolerance}
QuantaInSeconds(q) ==
  {t \in Counters : q - Tolerance * Window <= t /\ t <= q + Tolerance * Window}

\* saturating_sub(q, tolerance) ..= saturating_add(q, tolerance)
Quanta(q) == {t \in Counters : q - Tolerance <= t /\ t <= q + Tolerance}

Send(p, i, windowed, quanta) ==
  /\ payments[p] = NotStarted
  /\ payments' = [payments EXCEPT ![p] =
       [stage |-> "get",
        req |-> [inst |-> i, windowed |-> windowed, at |-> BankTime,
                 quanta |-> quanta]]]
  /\ UNCHANGED <<receiver, clocks, network, confirmed, bank>>

ProcessPaymentWindowed(p, i) == Send(p, i, TRUE, Quanta(BankQuantum))

\* process_payment, with the counter its caller injects
ProcessPayment(p, i, t) == Send(p, i, FALSE, {t})

\* get_seed, and InMemoryBankReceiver::lookup_seed under its read lock
LookupSeed(p) ==
  /\ payments[p].stage = "get"
  /\ LET held == custody[payments[p].req.inst.sid]
     IN payments' = [payments EXCEPT ![p] =
          IF held = None THEN Failed       \* 404: UnknownSeed
          ELSE [stage |-> "reply", req |-> @.req, seed |-> held]]
  /\ UNCHANGED <<receiver, clocks, network, confirmed, bank>>

\* apply_recover_c2 for every quantum, on the seed as it was looked up
Candidates(c) ==
  {DeriveC2FromC1(c.seed, t, c.req.inst.c1) : t \in c.req.quanta}

Issue(p) ==
  /\ payments[p].stage = "reply"
  /\ payments' = [payments EXCEPT ![p].stage = "issued"]
  /\ UNCHANGED <<receiver, clocks, network, confirmed, bank>>

\* McpixError::Transport from the lookup
FailPayment(p) ==
  /\ payments[p].stage \in {"get", "reply"}
  /\ payments' = [payments EXCEPT ![p] = Failed]
  /\ UNCHANGED <<receiver, clocks, network, confirmed, bank>>

(***************************************************************************)
(* The receipt reaches the receiver, late, repeatedly or never; the        *)
(* receiver tries the candidates against a retained receipt.               *)
(***************************************************************************)
Matches(k, c) == receipts[k] # None /\ receipts[k].code \in Candidates(c)

ValidateReceipt(p, k) ==
  /\ payments[p].stage = "issued"
  /\ Matches(k, payments[p])
  /\ ~ receipts[k].consumed
  /\ receipts' = [receipts EXCEPT ![k].consumed = TRUE]
  /\ UNCHANGED <<seeds, owner, lastIssued, instruments, clocks, network,
                 confirmed, bank, payments>>

(***************************************************************************)
(* Environment                                                             *)
(***************************************************************************)
Tick ==
  /\ now < MaxTime
  /\ now' = now + 1
  /\ UNCHANGED <<skew, receiver, network, confirmed, bank, payments>>

\* InMemoryBankReceiver keeps its seeds in memory.
BankRestart ==
  /\ bankRestarts < MaxBankRestarts
  /\ bankRestarts' = bankRestarts + 1
  /\ custody' = [s \in SeedIds |-> None]
  /\ UNCHANGED <<clocks, receiver, network, confirmed, payments>>

Next ==
  \/ \E s \in SeedIds, m \in Materials : Register(s, m)
  \/ \E s \in SeedIds : PostSeed(s) \/ GiveUp(s) \/ GenerateCharge(s)
  \/ \E r \in posts : PutSeed(r) \/ LosePost(r)
  \/ \E p \in Payments, i \in instruments : ProcessPaymentWindowed(p, i)
  \/ \E p \in Payments, i \in instruments, t \in Counters :
       ProcessPayment(p, i, t)
  \/ \E p \in Payments : LookupSeed(p) \/ Issue(p) \/ FailPayment(p)
  \/ \E p \in Payments, k \in Keys : ValidateReceipt(p, k)
  \/ Tick
  \/ BankRestart

Spec == Init /\ [][Next]_vars

-----------------------------------------------------------------------------
(***************************************************************************)
(* Properties                                                              *)
(***************************************************************************)
Charged(i) == receipts[<<i.sid, i.c1[2]>>]
Distance(a, b) == IF a >= b THEN a - b ELSE b - a

\* A receipt of the windowed payment of an instrument, derived from the seed
\* it was charged with.
IssuedWindowed(c) ==
  c.stage = "issued" /\ c.req.windowed /\ c.seed = c.req.inst.c1[1]

\* adr/0007: with a tolerance of N the payer's bank covers any difference of
\* up to N windows, counted from the receiver's clock at the charge to the
\* bank's clock at the payment.  The receipt then matches the charge.
DriftTolerated ==
  \A p \in Payments : IssuedWindowed(payments[p]) =>
    LET r == payments[p].req
    IN Distance(r.at, r.inst.at) <= Tolerance * Window =>
         Charged(r.inst).code \in Candidates(payments[p])

\* "Drift beyond tolerance must not be acceptable": N + 1 windows away, no
\* candidate matches.
DriftBeyondRefused ==
  \A p \in Payments : IssuedWindowed(payments[p]) =>
    LET r == payments[p].req
    IN Distance(r.at, r.inst.at) >= (Tolerance + 1) * Window =>
         Charged(r.inst).code \notin Candidates(payments[p])

\* Once register_seed has returned Ok, the bank holds no other seed for that
\* SeedId than the receiver does, if no earlier POST was abandoned in the
\* network.  (It may hold none, after a restart.)
CustodyIsCurrent ==
  \A s \in SeedIds :
    confirmed[s] /\ ~ stray[s] => custody[s] \in {seeds[s], None}

\* A charge is settled once, and only by a receipt the payer's bank issued
\* for that very charge: candidates of one charge never match another.
Paid ==
  {k \in Keys : \E p \in Payments :
     /\ payments[p].stage = "issued"
     /\ payments[p].req.inst.sid = k[1]
     /\ payments[p].req.inst.c1[2] = k[2]}

Status ==
  [k \in Keys |->
     IF receipts[k] = None THEN "unused"
     ELSE IF receipts[k].consumed THEN "settled"
     ELSE IF k \in Paid THEN "paid" ELSE "charged"]

Promise == INSTANCE PaymentPromise WITH status <- Status
PromiseSpec == Promise!Spec

-----------------------------------------------------------------------------
(***************************************************************************)
(* The inductive invariant behind the properties above                     *)
(***************************************************************************)
\* Material that is in use at a receiver was drawn for that receiver.
SeedsOwned == \A s \in SeedIds : seeds[s] # None => owner[seeds[s]] = s

\* A receipt holds the C2 of its own key, and its counter is reserved.
ReceiptsReserved ==
  \A k \in Keys : receipts[k] # None =>
    LET c == receipts[k].code
    IN /\ owner[c[1]] = k[1]
       /\ c = DeriveC2FromC1(c[1], k[2], <<c[1], k[2]>>)
       /\ k[2] <= lastIssued[k[1]]

\* An instrument carries the C1 of a retained receipt, of the quantum it was
\* charged in.
InstrumentsRetained ==
  \A i \in instruments :
    /\ owner[i.c1[1]] = i.sid
    /\ i.c1[2] = i.at \div Window
    /\ Charged(i) # None
    /\ Charged(i).code = DeriveC2FromC1(i.c1[1], i.c1[2], i.c1)

\* A payment is of an instrument, for the quanta around the bank's clock.
PaymentsOfInstruments ==
  \A p \in Payments : payments[p].stage \in {"get", "reply", "issued"} =>
    LET r == payments[p].req
    IN /\ r.inst \in instruments
       /\ r.windowed => r.quanta = Quanta(r.at \div Window)

\* Which POST requests may still be in the network, and of which seed.
PostsTracked ==
  \A s \in SeedIds :
    /\ \A r \in posts : r.sid = s =>
         /\ r.try <= attempts[s]
         /\ ~ stray[s] => r.try = attempts[s]
         /\ waiting[s] /\ r.try = attempts[s] => r.seed = seeds[s]
         /\ confirmed[s] => r.try # attempts[s]
    /\ waiting[s] \/ confirmed[s] => seeds[s] # None

IInv ==
  /\ TypeOK
  /\ SeedsOwned
  /\ ReceiptsReserved
  /\ InstrumentsRetained
  /\ PaymentsOfInstruments
  /\ PostsTracked
  /\ CustodyIsCurrent

=============================================================================
