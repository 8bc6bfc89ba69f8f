------------------------- MODULE Settlement_proofs -------------------------
(***************************************************************************)
(* For every number of receivers, payments, requests and restarts, every   *)
(* window and every tolerance: the payer's bank covers the drift it is     *)
(* configured for and no more, a confirmed registration is the seed in     *)
(* custody, and a charge is settled once, by a receipt of its own payment. *)
(***************************************************************************)
EXTENDS Settlement, TLAPS

(***************************************************************************)
(* Quanta                                                                  *)
(***************************************************************************)
LEMMA Division ==
  ASSUME NEW a \in Nat, NEW w \in Nat \ {0}
  PROVE  /\ a \div w \in Nat
         /\ w * (a \div w) <= a
         /\ a < w * (a \div w) + w
OBVIOUS

\* Instants at most n windows apart lie in quanta at most n apart.
LEMMA QuantaNear ==
  ASSUME NEW a \in Nat, NEW b \in Nat, NEW w \in Nat \ {0}, NEW n \in Nat,
         a - b <= n * w
  PROVE  (a \div w) - (b \div w) <= n
<1> DEFINE qa == a \div w
           qb == b \div w
<1>1. /\ qa \in Nat /\ qb \in Nat
      /\ w * qa <= a /\ b < w * qb + w
  BY Division
<1> HIDE DEF qa, qb
<1>2. SUFFICES ASSUME qa - qb >= n + 1 PROVE FALSE
  BY <1>1 DEF qa, qb
<1>3. w * (qa - qb - n - 1) >= 0
  BY <1>1, <1>2
<1>4. w * (qa - qb - n - 1) = w * qa - w * qb - n * w - w
  BY <1>1
<1> QED
  BY <1>1, <1>3, <1>4

\* Instants at least n windows apart lie in quanta at least n apart.
LEMMA QuantaFar ==
  ASSUME NEW a \in Nat, NEW b \in Nat, NEW w \in Nat \ {0}, NEW n \in Nat,
         a - b >= n * w
  PROVE  (a \div w) - (b \div w) >= n
<1> DEFINE qa == a \div w
           qb == b \div w
<1>1. /\ qa \in Nat /\ qb \in Nat
      /\ w * qb <= b /\ a < w * qa + w
  BY Division
<1> HIDE DEF qa, qb
<1>2. SUFFICES ASSUME qa - qb <= n - 1 PROVE FALSE
  BY <1>1 DEF qa, qb
<1>3. w * (n - 1 - qa + qb) >= 0
  BY <1>1, <1>2
<1>4. w * (n - 1 - qa + qb) = n * w - w - w * qa + w * qb
  BY <1>1
<1> QED
  BY <1>1, <1>3, <1>4

LEMMA Settings ==
  /\ Window \in Nat \ {0} /\ Tolerance \in Nat
  /\ MaxSkew \in Nat /\ MaxTime \in Nat /\ MaxCounter \in Nat
  /\ MaxSkew <= MaxTime
  /\ (MaxTime + MaxSkew) \div Window <= MaxCounter
  /\ MaxPosts \in Nat /\ MaxBankRestarts \in Nat
BY WindowAssumption, ClockAssumption, BoundsAssumption
   DEF WindowAssumption, ClockAssumption, BoundsAssumption

\* No instant that is explored lies beyond the last counter.
LEMMA QuantumIsCounter ==
  ASSUME NEW t \in 0..(MaxTime + MaxSkew)
  PROVE  t \div Window \in Counters
<1>1. (t \div Window) - ((MaxTime + MaxSkew) \div Window) <= 0
  BY Settings, QuantaNear, 0 * Window = 0
<1>2. /\ t \div Window \in Nat
      /\ (MaxTime + MaxSkew) \div Window \in Nat
  BY Settings, Division
<1> QED
  BY <1>1, <1>2, Settings DEF Counters

LEMMA BankTimeInRange == TypeOK => BankTime \in BankTimes
BY Settings DEF TypeOK, BankTime, BankTimes, Start

(***************************************************************************)
(* Types                                                                   *)
(***************************************************************************)
LEMMA CallTypes ==
  ASSUME TypeOK, NEW p \in Payments
  PROVE  LET c == payments[p]
         IN /\ c \in Calls
            /\ c.stage \in {"get", "reply", "issued"} =>
                 /\ c.req \in Requests
                 /\ c.req.inst \in Instruments /\ c.req.at \in BankTimes
                 /\ c.req.quanta \subseteq Counters
            /\ c.stage \in {"reply", "issued"} => c.seed \in Materials
            /\ c.stage \in {"reply", "issued"} =>
                 c = [stage |-> c.stage, req |-> c.req, seed |-> c.seed]
BY DEF TypeOK, Calls, Requests, NotStarted, Failed

LEMMA InitIInv == Init => IInv
<1> SUFFICES ASSUME Init PROVE IInv
  OBVIOUS
<1> USE DEF Init, Ledger!Init
<1>1. TypeOK
  BY Settings DEF TypeOK, Start, Counters, Calls, NotStarted, Keys
<1>2. SeedsOwned /\ ReceiptsReserved /\ InstrumentsRetained
  BY DEF SeedsOwned, ReceiptsReserved, InstrumentsRetained
<1>3. PaymentsOfInstruments /\ PostsTracked /\ CustodyIsCurrent
  BY DEF PaymentsOfInstruments, PostsTracked, CustodyIsCurrent, NotStarted
<1> QED
  BY <1>1, <1>2, <1>3 DEF IInv

(***************************************************************************)
(* Registration                                                            *)
(***************************************************************************)
LEMMA RegisterIInv ==
  ASSUME IInv, NEW s \in SeedIds, NEW m \in Materials, Register(s, m)
  PROVE  IInv'
<1> USE DEF IInv, Register, clocks, network, bank
<1>1. TypeOK'
  BY DEF TypeOK
<1>2. \A n \in Materials : owner[n] \in SeedIds => owner'[n] = owner[n]
  BY NoneAssumption DEF TypeOK, NoneAssumption
<1>3. SeedsOwned'
  BY <1>2, NoneAssumption DEF SeedsOwned, TypeOK, NoneAssumption
<1>4. ReceiptsReserved'
  <2> SUFFICES ASSUME NEW k \in Keys, receipts[k] # None
               PROVE  owner'[receipts[k].code[1]] = k[1]
    BY DEF ReceiptsReserved
  <2>1. receipts[k].code[1] \in Materials /\ k[1] \in SeedIds
    BY DEF TypeOK, Ledger!Entry, C2s, Keys
  <2> QED
    BY <1>2, <2>1 DEF ReceiptsReserved
<1>5. InstrumentsRetained'
  <2> SUFFICES ASSUME NEW i \in instruments
               PROVE  owner'[i.c1[1]] = i.sid
    BY DEF InstrumentsRetained, Charged
  <2>1. i.c1[1] \in Materials /\ i.sid \in SeedIds
    BY DEF TypeOK, Instruments, C1s
  <2> QED
    BY <1>2, <2>1 DEF InstrumentsRetained
<1>6. PaymentsOfInstruments'
  BY DEF PaymentsOfInstruments
<1>7. PostsTracked'
  BY NoneAssumption DEF PostsTracked, TypeOK, NoneAssumption
<1>8. CustodyIsCurrent'
  BY DEF CustodyIsCurrent, TypeOK
<1> QED
  BY <1>1, <1>3, <1>4, <1>5, <1>6, <1>7, <1>8

\* What the parties do to the posts leaves charges and payments as they are.
LEMMA ChargesKept ==
  ASSUME IInv,
         UNCHANGED <<owner, seeds, lastIssued, receipts, instruments, payments>>
  PROVE  /\ SeedsOwned' /\ ReceiptsReserved' /\ InstrumentsRetained'
         /\ PaymentsOfInstruments'
BY DEF IInv, SeedsOwned, ReceiptsReserved, InstrumentsRetained, Charged,
       PaymentsOfInstruments

LEMMA PostIInv ==
  ASSUME IInv, NEW s \in SeedIds, PostSeed(s) \/ GiveUp(s)
  PROVE  IInv'
<1> USE DEF IInv, clocks, receiver, bank
<1>1. UNCHANGED <<owner, seeds, lastIssued, receipts, instruments, payments>>
  BY DEF PostSeed, GiveUp
<1>2. CASE PostSeed(s)
  <2> USE <1>2 DEF PostSeed
  <2>1. attempts[s] \in 0..MaxPosts /\ attempts[s] + 1 \in 1..MaxPosts
    BY Settings DEF TypeOK
  <2>2. [sid |-> s, seed |-> seeds[s], try |-> attempts[s] + 1] \in Posts
    BY <2>1 DEF TypeOK, Posts
  <2>3. TypeOK'
    BY <2>1, <2>2 DEF TypeOK
  <2>4. PostsTracked'
    <3> SUFFICES ASSUME NEW u \in SeedIds
                 PROVE  /\ \A r \in posts' : r.sid = u =>
                             /\ r.try <= attempts'[u]
                             /\ ~ stray'[u] => r.try = attempts'[u]
                             /\ waiting'[u] /\ r.try = attempts'[u] => r.seed = seeds'[u]
                             /\ confirmed'[u] => r.try # attempts'[u]
                        /\ waiting'[u] \/ confirmed'[u] => seeds'[u] # None
      BY DEF PostsTracked
    <3>1. CASE u # s
      BY <3>1 DEF PostsTracked, TypeOK
    <3>2. CASE u = s
      <4>1. \A r \in posts : r.sid = s => r.try \in Int /\ r.try <= attempts[s]
        BY DEF PostsTracked, TypeOK, Posts
      <4>2. attempts'[s] = attempts[s] + 1 /\ waiting'[s] /\ ~ confirmed'[s]
        BY DEF TypeOK
      <4>3. ~ stray'[s] => \A r \in posts : r.sid # s
        BY DEF TypeOK
      <4> QED
        BY <2>1, <3>2, <4>1, <4>2, <4>3
    <3> QED
      BY <3>1, <3>2
  <2>5. CustodyIsCurrent'
    BY DEF CustodyIsCurrent, TypeOK
  <2> QED
    BY <1>1, <2>3, <2>4, <2>5, ChargesKept
<1>3. CASE GiveUp(s)
  <2>1. TypeOK'
    BY <1>3 DEF GiveUp, TypeOK
  <2>2. PostsTracked' /\ CustodyIsCurrent'
    BY <1>3 DEF GiveUp, PostsTracked, CustodyIsCurrent, TypeOK
  <2> QED
    BY <1>1, <2>1, <2>2, ChargesKept
<1> QED
  BY <1>2, <1>3

LEMMA DeliverIInv ==
  ASSUME IInv, NEW r \in posts, PutSeed(r) \/ LosePost(r)
  PROVE  IInv'
<1> USE DEF IInv, clocks, receiver, bank
<1>1. UNCHANGED <<owner, seeds, lastIssued, receipts, instruments, payments>>
  BY DEF PutSeed, LosePost
<1>2. r \in Posts /\ r.sid \in SeedIds /\ r.seed \in Materials
  BY DEF TypeOK, Posts
<1>3. CASE PutSeed(r)
  <2> USE <1>3 DEF PutSeed
  <2>1. TypeOK'
    BY <1>2 DEF TypeOK, Answered
  <2>2. PostsTracked'
    <3> SUFFICES ASSUME NEW u \in SeedIds
                 PROVE  /\ \A q \in posts' : q.sid = u =>
                             /\ q.try <= attempts'[u]
                             /\ ~ stray'[u] => q.try = attempts'[u]
                             /\ waiting'[u] /\ q.try = attempts'[u] => q.seed = seeds'[u]
                             /\ confirmed'[u] => q.try # attempts'[u]
                        /\ waiting'[u] \/ confirmed'[u] => seeds'[u] # None
      BY DEF PostsTracked
    <3>1. CASE u = r.sid /\ Answered(r)
      <4>1. waiting[u] /\ attempts[u] = r.try /\ r.seed = seeds[u]
        BY <3>1 DEF Answered, PostsTracked
      <4>2. \A q \in posts : q.sid = u /\ q.try = attempts[u] => q = r
        BY <3>1, <4>1 DEF PostsTracked, TypeOK, Posts
      <4> QED
        BY <3>1, <4>1, <4>2 DEF PostsTracked, TypeOK, Answered
    <3>2. CASE u # r.sid \/ ~ Answered(r)
      <4>1. waiting'[u] = waiting[u] /\ confirmed'[u] = confirmed[u]
        BY <1>2, <3>2 DEF TypeOK, Answered
      <4> QED
        BY <4>1 DEF PostsTracked
    <3> QED
      BY <3>1, <3>2
  <2>3. CustodyIsCurrent'
    <3> SUFFICES ASSUME NEW u \in SeedIds, confirmed'[u], ~ stray[u]
                 PROVE  custody'[u] \in {seeds[u], None}
      BY DEF CustodyIsCurrent
    <3>1. CASE u # r.sid
      BY <1>2, <3>1 DEF CustodyIsCurrent, TypeOK, Answered
    <3>2. CASE u = r.sid /\ Answered(r)
      BY <1>2, <3>2 DEF PostsTracked, Answered, TypeOK
    <3>3. CASE u = r.sid /\ ~ Answered(r)
      BY <3>3 DEF PostsTracked
    <3> QED
      BY <3>1, <3>2, <3>3
  <2> QED
    BY <1>1, <2>1, <2>2, <2>3, ChargesKept
<1>4. CASE LosePost(r)
  <2>1. TypeOK'
    BY <1>4 DEF LosePost, TypeOK
  <2>2. PostsTracked' /\ CustodyIsCurrent'
    BY <1>4 DEF LosePost, PostsTracked, CustodyIsCurrent
  <2> QED
    BY <1>1, <2>1, <2>2, ChargesKept
<1> QED
  BY <1>3, <1>4

(***************************************************************************)
(* A charge enters a key beyond every key in use                           *)
(***************************************************************************)
\* What steps elsewhere leave of the registration part.
LEMMA RegistrationKept ==
  ASSUME IInv,
         UNCHANGED <<seeds, custody, posts, attempts, waiting, confirmed, stray>>
  PROVE  PostsTracked' /\ CustodyIsCurrent'
BY DEF IInv, PostsTracked, CustodyIsCurrent

LEMMA ChargeIInv ==
  ASSUME IInv, NEW s \in SeedIds, GenerateCharge(s)
  PROVE  IInv'
<1> DEFINE t == now \div Window
           m == seeds[s]
           rec == [code |-> DeriveC2FromC1(m, t, <<m, t>>), consumed |-> FALSE]
           inst == [sid |-> s, c1 |-> <<m, t>>, at |-> now]
<1> USE DEF IInv, clocks, network, bank
<1>1. /\ t \in Counters /\ t \in Int
      /\ m \in Materials /\ owner[m] = s /\ now \in Start..MaxTime
  <2>1. now \in 0..(MaxTime + MaxSkew)
    BY Settings DEF TypeOK, Start
  <2> QED
    BY <2>1, QuantumIsCounter DEF TypeOK, GenerateCharge, SeedsOwned, Counters
<1>2. /\ lastIssued' = [lastIssued EXCEPT ![s] = t]
      /\ receipts' = [receipts EXCEPT ![<<s, t>>] = rec]
      /\ instruments' = instruments \cup {inst}
      /\ lastIssued[s] < t
      /\ UNCHANGED <<now, skew, seeds, owner, custody, posts, attempts, waiting,
                     confirmed, stray, payments, bankRestarts>>
  <2>1. lastIssued[s] \in Int
    BY DEF TypeOK, Counters
  <2> QED
    BY <1>1, <2>1 DEF GenerateCharge
<1>3. <<s, t>> \in Keys /\ rec \in Ledger!Entry /\ rec # None
  <2>1. <<m, t>> \in C1s
    BY <1>1 DEF C1s
  <2>2. DeriveC2FromC1(m, t, <<m, t>>) \in C2s
    BY <1>1, <2>1 DEF C2s, DeriveC2FromC1
  <2>3. rec \in Ledger!Entry
    BY <2>2 DEF Ledger!Entry
  <2> QED
    BY <1>1, <2>3, NoneAssumption DEF Keys, Ledger!Entry, NoneAssumption
<1>4. receipts[<<s, t>>] = None
  <2>1. lastIssued[s] \in Int
    BY DEF TypeOK, Counters
  <2>2. SUFFICES ASSUME receipts[<<s, t>>] # None PROVE FALSE
    OBVIOUS
  <2>3. <<s, t>>[2] <= lastIssued[<<s, t>>[1]]
    BY <1>3, <2>2 DEF ReceiptsReserved
  <2> QED
    BY <1>1, <1>2, <2>1, <2>3
<1>5. inst \in Instruments
  BY <1>1 DEF Instruments, C1s
<1> HIDE DEF t, m
<1>6. TypeOK'
  BY <1>1, <1>2, <1>3, <1>5 DEF TypeOK
<1>7. SeedsOwned'
  BY <1>2 DEF SeedsOwned
<1>8. ReceiptsReserved'
  <2> SUFFICES ASSUME NEW k \in Keys, receipts'[k] # None
               PROVE  LET c == receipts'[k].code
                      IN /\ owner[c[1]] = k[1]
                         /\ c = DeriveC2FromC1(c[1], k[2], <<c[1], k[2]>>)
                         /\ k[2] <= lastIssued'[k[1]]
    BY <1>2 DEF ReceiptsReserved
  <2>1. CASE k = <<s, t>>
    BY <1>1, <1>2, <1>3, <2>1 DEF TypeOK, DeriveC2FromC1
  <2>2. CASE k # <<s, t>>
    <3>1. receipts'[k] = receipts[k]
      BY <1>2, <2>2 DEF TypeOK
    <3>2. k[1] \in SeedIds /\ k[2] \in Int /\ lastIssued[k[1]] \in Int
      BY DEF Keys, Counters, TypeOK
    <3>3. lastIssued[k[1]] <= lastIssued'[k[1]]
      BY <1>1, <1>2, <3>2 DEF TypeOK
    <3>4. lastIssued'[k[1]] \in Int
      BY <1>1, <1>2, <3>2 DEF TypeOK
    <3> QED
      BY <3>1, <3>2, <3>3, <3>4 DEF ReceiptsReserved
  <2> QED
    BY <2>1, <2>2
<1>9. InstrumentsRetained'
  <2> SUFFICES ASSUME NEW i \in instruments'
               PROVE  /\ owner[i.c1[1]] = i.sid
                      /\ i.c1[2] = i.at \div Window
                      /\ Charged(i)' # None
                      /\ Charged(i)'.code = DeriveC2FromC1(i.c1[1], i.c1[2], i.c1)
    BY <1>2 DEF InstrumentsRetained
  <2>1. CASE i = inst
    BY <1>1, <1>2, <1>3, <2>1 DEF TypeOK, Charged, DeriveC2FromC1, t
  <2>2. CASE i \in instruments
    <3>1. Charged(i) # None
      BY <2>2 DEF InstrumentsRetained
    <3>2. <<i.sid, i.c1[2]>> \in Keys
      BY <2>2 DEF TypeOK, Instruments, C1s, Keys
    <3>3. Charged(i)' = Charged(i)
      BY <1>2, <1>4, <3>1, <3>2 DEF Charged, TypeOK
    <3> QED
      BY <2>2, <3>3 DEF InstrumentsRetained
  <2> QED
    BY <1>2, <2>1, <2>2
<1>10. PaymentsOfInstruments'
  BY <1>2 DEF PaymentsOfInstruments
<1> QED
  BY <1>2, <1>6, <1>7, <1>8, <1>9, <1>10, RegistrationKept

(***************************************************************************)
(* Payments and validation                                                 *)
(***************************************************************************)
LEMMA SendIInv ==
  ASSUME IInv, NEW p \in Payments, NEW i \in instruments, NEW w \in BOOLEAN,
         NEW q \in SUBSET Counters, w => q = Quanta(BankQuantum),
         Send(p, i, w, q)
  PROVE  IInv'
<1> USE DEF IInv, Send, receiver, clocks, network, bank
<1>1. BankTime \in BankTimes
  BY BankTimeInRange
<1>2. [inst |-> i, windowed |-> w, at |-> BankTime, quanta |-> q] \in Requests
  BY <1>1 DEF Requests, TypeOK
<1>3. TypeOK'
  <2>1. [stage |-> "get",
         req |-> [inst |-> i, windowed |-> w, at |-> BankTime, quanta |-> q]]
          \in Calls
    BY <1>2 DEF Calls
  <2>2. payments' \in [Payments -> Calls]
    BY <2>1 DEF TypeOK
  <2> QED
    BY <2>2 DEF TypeOK
<1>4. SeedsOwned' /\ ReceiptsReserved' /\ InstrumentsRetained'
  BY DEF SeedsOwned, ReceiptsReserved, InstrumentsRetained, Charged
<1>5. PaymentsOfInstruments'
  BY DEF PaymentsOfInstruments, TypeOK, BankQuantum
<1> QED
  BY <1>3, <1>4, <1>5, RegistrationKept

LEMMA AnswerIInv ==
  ASSUME IInv, NEW p \in Payments, LookupSeed(p) \/ Issue(p) \/ FailPayment(p)
  PROVE  IInv'
<1> USE DEF IInv, receiver, clocks, network, bank
<1>1. UNCHANGED <<now, skew, seeds, owner, lastIssued, receipts, instruments, custody, posts,
                  attempts, waiting, confirmed, stray, bankRestarts>>
  BY DEF LookupSeed, Issue, FailPayment
<1>2. payments[p].stage \in {"get", "reply"}
  BY DEF LookupSeed, Issue, FailPayment
<1>3. PICK c : /\ payments' = [payments EXCEPT ![p] = c]
               /\ c \in Calls
               /\ c = Failed \/ c.req = payments[p].req
  <2>1. CASE LookupSeed(p)
    <3>1. custody[payments[p].req.inst.sid] \in Materials \cup {None}
      BY <1>2, CallTypes DEF TypeOK, Instruments
    <3> DEFINE c == IF custody[payments[p].req.inst.sid] = None THEN Failed
                    ELSE [stage |-> "reply", req |-> payments[p].req,
                          seed |-> custody[payments[p].req.inst.sid]]
    <3>2. payments' = [payments EXCEPT ![p] = c]
      BY <2>1 DEF LookupSeed
    <3>3. c \in Calls /\ (c = Failed \/ c.req = payments[p].req)
      BY <1>2, <3>1, CallTypes DEF Calls
    <3> HIDE DEF c
    <3> QED
      BY <3>2, <3>3
  <2>2. CASE Issue(p)
    <3>1. payments[p].stage = "reply"
      BY <2>2 DEF Issue
    <3> DEFINE c == [stage |-> "issued", req |-> payments[p].req,
                     seed |-> payments[p].seed]
    <3>2. [payments[p] EXCEPT !.stage = "issued"] = c
      <4>1. PICK r \in Requests, m \in Materials :
              payments[p] = [stage |-> "reply", req |-> r, seed |-> m]
        BY <3>1, CallTypes
      <4> QED
        BY <4>1
    <3>3. payments' = [payments EXCEPT ![p] = c]
      BY <2>2, <3>2 DEF Issue
    <3>4. c \in Calls /\ c.req = payments[p].req
      BY <3>1, CallTypes DEF Calls
    <3> HIDE DEF c
    <3> QED
      BY <3>3, <3>4
  <2>3. CASE FailPayment(p)
    BY <2>3 DEF FailPayment, Calls
  <2> QED
    BY <2>1, <2>2, <2>3
<1>4. TypeOK'
  <2>1. payments' \in [Payments -> Calls]
    BY <1>3 DEF TypeOK
  <2> QED
    BY <1>1, <2>1 DEF TypeOK
<1>5. SeedsOwned' /\ ReceiptsReserved' /\ InstrumentsRetained'
  BY <1>1 DEF SeedsOwned, ReceiptsReserved, InstrumentsRetained, Charged
<1>6. PaymentsOfInstruments'
  BY <1>1, <1>2, <1>3 DEF PaymentsOfInstruments, TypeOK, Failed
<1> QED
  BY <1>1, <1>4, <1>5, <1>6, RegistrationKept

LEMMA ValidateIInv ==
  ASSUME IInv, NEW p \in Payments, NEW k \in Keys, ValidateReceipt(p, k)
  PROVE  IInv'
<1> USE DEF IInv, ValidateReceipt, clocks, network, bank
<1>1. receipts[k] \in Ledger!Entry /\ receipts[k] # None
  BY DEF Matches, TypeOK
<1> DEFINE new == [receipts[k] EXCEPT !.consumed = TRUE]
<1>2. new \in Ledger!Entry /\ new.code = receipts[k].code
  BY <1>1 DEF Ledger!Entry
<1>3. receipts' = [receipts EXCEPT ![k] = new]
  OBVIOUS
<1> HIDE DEF new
<1>4. new # None
  BY <1>2, NoneAssumption DEF Ledger!Entry, NoneAssumption
<1>5. \A j \in Keys : /\ receipts'[j] = None <=> receipts[j] = None
                      /\ receipts'[j] # None => receipts'[j].code = receipts[j].code
  BY <1>1, <1>2, <1>3, <1>4 DEF TypeOK
<1>6. TypeOK'
  <2>1. receipts' \in [Keys -> Ledger!Entry \cup {None}]
    BY <1>2, <1>3 DEF TypeOK
  <2> QED
    BY <2>1 DEF TypeOK
<1>7. SeedsOwned' /\ ReceiptsReserved' /\ PaymentsOfInstruments'
  BY <1>5 DEF SeedsOwned, ReceiptsReserved, PaymentsOfInstruments
<1>8. InstrumentsRetained'
  <2>1. \A i \in instruments : <<i.sid, i.c1[2]>> \in Keys
    BY DEF TypeOK, Instruments, C1s, Keys
  <2> QED
    BY <1>5, <2>1 DEF InstrumentsRetained, Charged
<1> QED
  BY <1>6, <1>7, <1>8, RegistrationKept

LEMMA EnvironmentIInv ==
  ASSUME IInv, Tick \/ BankRestart
  PROVE  IInv'
<1> USE DEF IInv, receiver, network, bank, clocks
<1>1. UNCHANGED <<owner, seeds, lastIssued, receipts, instruments, payments>>
  BY DEF Tick, BankRestart
<1>2. TypeOK'
  <2>1. CASE Tick
    BY <2>1, Settings DEF Tick, TypeOK, Start
  <2>2. CASE BankRestart
    BY <2>2, Settings DEF BankRestart, TypeOK
  <2> QED
    BY <2>1, <2>2
<1>3. PostsTracked' /\ CustodyIsCurrent'
  <2>1. CASE Tick
    BY <2>1, RegistrationKept DEF Tick
  <2>2. CASE BankRestart
    BY <2>2 DEF BankRestart, PostsTracked, CustodyIsCurrent
  <2> QED
    BY <2>1, <2>2
<1> QED
  BY <1>1, <1>2, <1>3, ChargesKept

LEMMA StepIInv == IInv /\ [Next]_vars => IInv'
<1> SUFFICES ASSUME IInv, [Next]_vars PROVE IInv'
  OBVIOUS
<1>1. ASSUME NEW s \in SeedIds, NEW m \in Materials, Register(s, m)
      PROVE  IInv'
  BY <1>1, RegisterIInv
<1>2. ASSUME NEW s \in SeedIds, PostSeed(s) \/ GiveUp(s) \/ GenerateCharge(s)
      PROVE  IInv'
  BY <1>2, PostIInv, ChargeIInv
<1>3. ASSUME NEW r \in posts, PutSeed(r) \/ LosePost(r)
      PROVE  IInv'
  BY <1>3, DeliverIInv
<1>4. ASSUME NEW p \in Payments, NEW i \in instruments,
             ProcessPaymentWindowed(p, i)
      PROVE  IInv'
  <2>1. Quanta(BankQuantum) \in SUBSET Counters
    BY DEF Quanta
  <2> QED
    BY <1>4, <2>1, SendIInv DEF ProcessPaymentWindowed
<1>5. ASSUME NEW p \in Payments, NEW i \in instruments, NEW t \in Counters,
             ProcessPayment(p, i, t)
      PROVE  IInv'
  BY <1>5, SendIInv DEF ProcessPayment
<1>6. ASSUME NEW p \in Payments, LookupSeed(p) \/ Issue(p) \/ FailPayment(p)
      PROVE  IInv'
  BY <1>6, AnswerIInv
<1>7. ASSUME NEW p \in Payments, NEW k \in Keys, ValidateReceipt(p, k)
      PROVE  IInv'
  BY <1>7, ValidateIInv
<1>8. CASE Tick \/ BankRestart
  BY <1>8, EnvironmentIInv
<1>9. CASE UNCHANGED vars
  <2>1. TypeOK'
    BY <1>9 DEF vars, IInv, TypeOK
  <2> QED
    BY <1>9, <2>1, ChargesKept, RegistrationKept DEF vars, IInv
<1> QED
  BY <1>1, <1>2, <1>3, <1>4, <1>5, <1>6, <1>7, <1>8, <1>9 DEF Next

\* The invariant of the three parties holds whatever the network, the clocks
\* and the bank's restarts do.
THEOREM Invariance == Spec => []IInv
<1> QED
  BY InitIInv, StepIInv, PTL DEF Spec

\* A seed confirmed by the receiver's bank (register_seed returned Ok) is the
\* one it looks up, unless an abandoned POST was on its way.
THEOREM ConfirmedSeedIsCurrent == Spec => []CustodyIsCurrent
<1>1. IInv => CustodyIsCurrent
  BY DEF IInv
<1> QED
  BY <1>1, Invariance, PTL

(***************************************************************************)
(* Drift                                                                   *)
(***************************************************************************)
\* The quanta of a windowed payment and the code of the charge it pays.
LEMMA WindowedPayment ==
  ASSUME IInv, NEW p \in Payments, IssuedWindowed(payments[p])
  PROVE  LET r == payments[p].req
             t == r.inst.at \div Window
             q == r.at \div Window
         IN /\ r.at \in Nat /\ r.inst.at \in Nat
            /\ t \in Counters /\ t \in Int /\ q \in Int
            /\ Charged(r.inst).code \in Candidates(payments[p])
                 <=> q - Tolerance <= t /\ t <= q + Tolerance
<1> DEFINE r == payments[p].req
           t == r.inst.at \div Window
           q == r.at \div Window
<1> USE DEF IInv, IssuedWindowed
<1>1. /\ r.inst \in instruments /\ r.inst \in Instruments
      /\ r.at \in BankTimes /\ r.quanta = Quanta(q)
  BY CallTypes DEF PaymentsOfInstruments
<1>2. r.at \in Nat /\ r.inst.at \in Nat /\ r.inst.at \in 0..(MaxTime + MaxSkew)
  BY <1>1, Settings DEF BankTimes, Instruments, Start
<1>3. t \in Counters /\ t \in Int /\ q \in Int
  BY <1>2, QuantumIsCounter, Division, Settings DEF Counters
<1>4. Charged(r.inst).code = DeriveC2FromC1(payments[p].seed, t, r.inst.c1)
  BY <1>1 DEF InstrumentsRetained
<1>5. Charged(r.inst).code \in Candidates(payments[p]) <=> t \in Quanta(q)
  <2> HIDE DEF t, q
  <2> QED
    BY <1>1, <1>4 DEF Candidates, DeriveC2FromC1
<1>6. t \in Quanta(q) <=> q - Tolerance <= t /\ t <= q + Tolerance
  BY <1>3 DEF Quanta
<1> QED
  BY <1>2, <1>3, <1>5, <1>6

\* A difference of up to Tolerance windows between the clocks, the payer's
\* delay included, does not keep the receipt from matching its charge.
THEOREM DriftIsTolerated == Spec => []DriftTolerated
<1>1. IInv => DriftTolerated
  <2> SUFFICES ASSUME IInv, NEW p \in Payments, IssuedWindowed(payments[p]),
                      Distance(payments[p].req.at, payments[p].req.inst.at)
                        <= Tolerance * Window
               PROVE  Charged(payments[p].req.inst).code \in Candidates(payments[p])
    BY DEF DriftTolerated
  <2> DEFINE a == payments[p].req.at
             b == payments[p].req.inst.at
  <2>1. /\ a \in Nat /\ b \in Nat
        /\ a \div Window \in Int /\ b \div Window \in Int
        /\ Charged(payments[p].req.inst).code \in Candidates(payments[p])
             <=> /\ (a \div Window) - Tolerance <= b \div Window
                 /\ b \div Window <= (a \div Window) + Tolerance
    BY WindowedPayment
  <2> HIDE DEF a, b
  <2>2. Tolerance * Window \in Int
    BY Settings
  <2>3. a - b <= Tolerance * Window /\ b - a <= Tolerance * Window
    BY <2>1, <2>2, Settings DEF Distance, a, b
  <2>4. (a \div Window) - (b \div Window) <= Tolerance
    BY <2>1, <2>3, Settings, QuantaNear
  <2>5. (b \div Window) - (a \div Window) <= Tolerance
    BY <2>1, <2>3, Settings, QuantaNear
  <2> QED
    BY <2>1, <2>4, <2>5, Settings
<1> QED
  BY <1>1, Invariance, PTL

\* A difference of more than that never yields a match.
THEOREM DriftBeyondIsRefused == Spec => []DriftBeyondRefused
<1>1. IInv => DriftBeyondRefused
  <2> SUFFICES ASSUME IInv, NEW p \in Payments, IssuedWindowed(payments[p]),
                      Distance(payments[p].req.at, payments[p].req.inst.at)
                        >= (Tolerance + 1) * Window
               PROVE  Charged(payments[p].req.inst).code \notin Candidates(payments[p])
    BY DEF DriftBeyondRefused
  <2> DEFINE a == payments[p].req.at
             b == payments[p].req.inst.at
  <2>1. /\ a \in Nat /\ b \in Nat
        /\ a \div Window \in Int /\ b \div Window \in Int
        /\ Charged(payments[p].req.inst).code \in Candidates(payments[p])
             <=> /\ (a \div Window) - Tolerance <= b \div Window
                 /\ b \div Window <= (a \div Window) + Tolerance
    BY WindowedPayment
  <2>2. Tolerance + 1 \in Nat
    BY Settings
  <2>3. \/ a >= b /\ a - b >= (Tolerance + 1) * Window
        \/ b >= a /\ b - a >= (Tolerance + 1) * Window
    BY <2>1 DEF Distance
  <2> HIDE DEF a, b
  <2>4. CASE a - b >= (Tolerance + 1) * Window
    <3>1. (a \div Window) - (b \div Window) >= Tolerance + 1
      BY <2>1, <2>2, <2>4, Settings, QuantaFar
    <3> QED
      BY <2>1, <3>1, Settings
  <2>5. CASE b - a >= (Tolerance + 1) * Window
    <3>1. (b \div Window) - (a \div Window) >= Tolerance + 1
      BY <2>1, <2>2, <2>5, Settings, QuantaFar
    <3> QED
      BY <2>1, <3>1, Settings
  <2> QED
    BY <2>3, <2>4, <2>5
<1> QED
  BY <1>1, Invariance, PTL

(***************************************************************************)
(* The promise: charged, then paid, then settled                           *)
(***************************************************************************)
\* A step changes the status of one charge, or of none.
LEMMA StatusAdvances ==
  ASSUME NEW k \in Keys, NEW from, NEW to,
         Status[k] = from, Status'[k] = to,
         \A j \in Keys : j # k => Status'[j] = Status[j]
  PROVE  Promise!Advance(k, from, to)
<1>1. PICK f : Status = f /\ f = [j \in Keys |-> f[j]]
  BY DEF Status
<1>2. PICK g : Status' = g /\ g = [j \in Keys |-> g[j]]
  BY DEF Status
<1>3. g = [f EXCEPT ![k] = to]
  BY <1>1, <1>2
<1> QED
  BY <1>1, <1>2, <1>3 DEF Promise!Advance

LEMMA StatusSame ==
  ASSUME \A k \in Keys : Status'[k] = Status[k]
  PROVE  UNCHANGED Status
<1>1. PICK f : Status = f /\ f = [j \in Keys |-> f[j]]
  BY DEF Status
<1>2. PICK g : Status' = g /\ g = [j \in Keys |-> g[j]]
  BY DEF Status
<1> QED
  BY <1>1, <1>2

\* Steps that touch neither a receipt nor an issued payment.
LEMMA StatusKept ==
  ASSUME UNCHANGED receipts, UNCHANGED Paid
  PROVE  UNCHANGED Status
BY DEF Status

LEMMA ChargeIsPromised ==
  ASSUME IInv, NEW s \in SeedIds, GenerateCharge(s)
  PROVE  Promise!Next
<1> DEFINE t == now \div Window
           k0 == <<s, t>>
<1>1. t \in Counters /\ k0 \in Keys
  <2>1. now \in 0..(MaxTime + MaxSkew)
    BY Settings DEF IInv, TypeOK, Start
  <2> QED
    BY <2>1, QuantumIsCounter DEF Keys
<1>2. receipts[k0] = None
  <2>1. lastIssued[s] \in Int /\ t \in Int
    BY <1>1 DEF IInv, TypeOK, Counters
  <2>2. SUFFICES ASSUME receipts[k0] # None PROVE FALSE
    OBVIOUS
  <2>3. k0[2] <= lastIssued[k0[1]]
    BY <1>1, <2>2 DEF IInv, ReceiptsReserved
  <2> QED
    BY <2>1, <2>3 DEF GenerateCharge
<1>3. k0 \notin Paid
  <2> SUFFICES ASSUME NEW p \in Payments,
                      payments[p].stage = "issued",
                      payments[p].req.inst.sid = s,
                      payments[p].req.inst.c1[2] = t
               PROVE  FALSE
    BY DEF Paid
  <2>1. Charged(payments[p].req.inst) # None
    BY DEF IInv, PaymentsOfInstruments, InstrumentsRetained
  <2> QED
    BY <1>2, <2>1 DEF Charged
<1>4. UNCHANGED Paid
  BY DEF GenerateCharge, Paid
<1>5. PICK e \in Ledger!Entry : /\ receipts' = [receipts EXCEPT ![k0] = e]
                                /\ e # None /\ ~ e.consumed
  <2> DEFINE e == [code |-> DeriveC2FromC1(seeds[s], t, <<seeds[s], t>>),
                   consumed |-> FALSE]
  <2>1. seeds[s] \in Materials
    BY DEF IInv, TypeOK, GenerateCharge
  <2>2. <<seeds[s], t>> \in C1s
    BY <1>1, <2>1 DEF C1s
  <2>3. DeriveC2FromC1(seeds[s], t, <<seeds[s], t>>) \in C2s
    BY <1>1, <2>1, <2>2 DEF C2s, DeriveC2FromC1
  <2>4. e \in Ledger!Entry /\ ~ e.consumed
    BY <2>3 DEF Ledger!Entry
  <2>5. receipts' = [receipts EXCEPT ![k0] = e]
    BY DEF GenerateCharge
  <2> HIDE DEF e
  <2>6. e # None
    BY <2>4, NoneAssumption DEF Ledger!Entry, NoneAssumption
  <2> QED
    BY <2>4, <2>5, <2>6
<1> HIDE DEF t, k0
<1>6. Status[k0] = "unused" /\ Status'[k0] = "charged"
  BY <1>1, <1>2, <1>3, <1>4, <1>5 DEF Status, IInv, TypeOK
<1>7. \A k \in Keys : k # k0 => Status'[k] = Status[k]
  BY <1>4, <1>5 DEF Status, IInv, TypeOK
<1> QED
  BY <1>1, <1>6, <1>7, StatusAdvances DEF Promise!Next, Promise!Charge

LEMMA IssueIsPromised ==
  ASSUME IInv, NEW p \in Payments, Issue(p)
  PROVE  Promise!Next \/ UNCHANGED Status
<1> DEFINE i == payments[p].req.inst
           k0 == <<i.sid, i.c1[2]>>
<1>1. /\ payments[p].stage = "reply" /\ i \in Instruments /\ k0 \in Keys
      /\ receipts[k0] # None
  <2>1. payments[p].stage = "reply" /\ i \in Instruments
    BY CallTypes DEF IInv, Issue
  <2>2. k0 \in Keys
    BY <2>1 DEF Instruments, C1s, Keys
  <2>3. receipts[k0] # None
    BY <2>1 DEF IInv, PaymentsOfInstruments, InstrumentsRetained, Charged
  <2> QED
    BY <2>1, <2>2, <2>3
<1>2. /\ UNCHANGED receipts
      /\ payments' = [payments EXCEPT ![p].stage = "issued"]
      /\ payments \in [Payments -> Calls]
  BY DEF Issue, receiver, IInv, TypeOK
<1>3. payments'[p].stage = "issued" /\ payments'[p].req = payments[p].req
  <2>1. PICK r \in Requests, m \in Materials :
          payments[p] = [stage |-> "reply", req |-> r, seed |-> m]
    BY <1>1, CallTypes DEF IInv
  <2> QED
    BY <1>2, <2>1
<1>4. \A o \in Payments : o # p => payments'[o] = payments[o]
  BY <1>2
<1>5. k0 \in Paid'
  BY <1>1, <1>3 DEF Paid
<1>6. \A k \in Keys : k # k0 => (k \in Paid' <=> k \in Paid)
  <2> SUFFICES ASSUME NEW k \in Keys, k # k0
               PROVE  k \in Paid' <=> k \in Paid
    OBVIOUS
  <2>1. ~ (i.sid = k[1] /\ i.c1[2] = k[2])
    BY DEF Keys
  <2> QED
    BY <1>1, <1>3, <1>4, <2>1 DEF Paid
<1> HIDE DEF k0
<1>7. \A k \in Keys : k # k0 => Status'[k] = Status[k]
  BY <1>2, <1>6 DEF Status
<1>8. CASE receipts[k0].consumed \/ k0 \in Paid
  <2>1. Status'[k0] = Status[k0]
    BY <1>1, <1>2, <1>5, <1>8 DEF Status
  <2> QED
    BY <1>7, <2>1, StatusSame
<1>9. CASE ~ receipts[k0].consumed /\ k0 \notin Paid
  <2>1. Status[k0] = "charged" /\ Status'[k0] = "paid"
    BY <1>1, <1>2, <1>5, <1>9 DEF Status
  <2> QED
    BY <1>1, <1>7, <2>1, StatusAdvances DEF Promise!Next, Promise!Pay
<1> QED
  BY <1>8, <1>9

\* A candidate that matches a retained receipt was issued for its charge.
LEMMA MatchIsPaid ==
  ASSUME IInv, NEW p \in Payments, NEW k \in Keys,
         payments[p].stage = "issued", Matches(k, payments[p])
  PROVE  k \in Paid
<1> DEFINE i == payments[p].req.inst
           c == receipts[k].code
<1>1. PICK t \in payments[p].req.quanta : c = <<payments[p].seed, t, i.c1>>
  BY DEF Matches, Candidates, DeriveC2FromC1
<1>2. owner[c[1]] = k[1] /\ c = <<c[1], k[2], <<c[1], k[2]>>>>
  BY DEF Matches, IInv, ReceiptsReserved, DeriveC2FromC1
<1>3. i.c1 = <<c[1], k[2]>>
  BY <1>1, <1>2
<1>4. owner[i.c1[1]] = i.sid
  BY DEF IInv, PaymentsOfInstruments, InstrumentsRetained
<1> QED
  BY <1>2, <1>3, <1>4 DEF Paid

LEMMA ValidateIsPromised ==
  ASSUME IInv, NEW p \in Payments, NEW k \in Keys, ValidateReceipt(p, k)
  PROVE  Promise!Next
<1>1. k \in Paid /\ receipts[k] # None /\ ~ receipts[k].consumed
  BY MatchIsPaid DEF ValidateReceipt, Matches
<1>2. UNCHANGED Paid
  BY DEF ValidateReceipt, Paid
<1>3. receipts[k] \in Ledger!Entry
  BY <1>1 DEF IInv, TypeOK
<1> DEFINE new == [receipts[k] EXCEPT !.consumed = TRUE]
<1>4. new \in Ledger!Entry /\ new.consumed
  BY <1>3 DEF Ledger!Entry
<1>5. receipts' = [receipts EXCEPT ![k] = new]
  BY DEF ValidateReceipt
<1> HIDE DEF new
<1>6. new # None
  BY <1>4, NoneAssumption DEF Ledger!Entry, NoneAssumption
<1>7. Status[k] = "paid" /\ Status'[k] = "settled"
  BY <1>1, <1>4, <1>5, <1>6 DEF Status, IInv, TypeOK
<1>8. \A j \in Keys : j # k => Status'[j] = Status[j]
  BY <1>2, <1>5 DEF Status, IInv, TypeOK
<1> QED
  BY <1>7, <1>8, StatusAdvances DEF Promise!Next, Promise!Settle

\* Payments that are not issued do not count.
LEMMA PaymentsKept ==
  ASSUME IInv, NEW p \in Payments,
         UNCHANGED receipts,
         payments[p].stage # "issued",
         \E c \in Calls : c.stage # "issued" /\ payments' = [payments EXCEPT ![p] = c]
  PROVE  UNCHANGED Status
<1>1. UNCHANGED Paid
  BY DEF Paid, IInv, TypeOK
<1> QED
  BY <1>1, StatusKept

LEMMA StepIsPromised ==
  ASSUME IInv, [Next]_vars
  PROVE  Promise!Next \/ UNCHANGED Status
<1>1. ASSUME UNCHANGED <<receipts, payments>>
      PROVE  UNCHANGED Status
  BY <1>1, StatusKept DEF Paid
<1>2. ASSUME NEW p \in Payments, NEW i \in instruments, NEW w \in BOOLEAN,
             NEW q \in SUBSET Counters, Send(p, i, w, q)
      PROVE  UNCHANGED Status
  <2> DEFINE c == [stage |-> "get",
                   req |-> [inst |-> i, windowed |-> w, at |-> BankTime,
                            quanta |-> q]]
  <2>1. c.req \in Requests
    BY BankTimeInRange DEF IInv, TypeOK, Requests
  <2>2. c \in Calls /\ c.stage # "issued"
    BY <2>1 DEF Calls
  <2>3. payments' = [payments EXCEPT ![p] = c] /\ UNCHANGED receipts
    BY <1>2 DEF Send, receiver
  <2>4. payments[p].stage # "issued"
    BY <1>2 DEF Send, NotStarted
  <2> HIDE DEF c
  <2> QED
    BY <2>2, <2>3, <2>4, PaymentsKept
<1>3. ASSUME NEW p \in Payments, LookupSeed(p) \/ FailPayment(p)
      PROVE  UNCHANGED Status
  <2>1. UNCHANGED receipts /\ payments[p].stage # "issued"
    BY <1>3 DEF LookupSeed, FailPayment, receiver
  <2>2. payments \in [Payments -> Calls]
    BY DEF IInv, TypeOK
  <2>3. payments'[p].stage # "issued"
    BY <1>3, <2>2 DEF LookupSeed, FailPayment, Failed
  <2>4. \A o \in Payments : o # p => payments'[o] = payments[o]
    BY <1>3, <2>2 DEF LookupSeed, FailPayment
  <2>5. UNCHANGED Paid
    BY <2>1, <2>3, <2>4 DEF Paid
  <2> QED
    BY <2>1, <2>5, StatusKept
<1>4. ASSUME NEW s \in SeedIds, NEW m \in Materials, Register(s, m)
      PROVE  UNCHANGED <<receipts, payments>>
  BY <1>4 DEF Register
<1>5. ASSUME NEW s \in SeedIds, PostSeed(s) \/ GiveUp(s)
      PROVE  UNCHANGED <<receipts, payments>>
  BY <1>5 DEF PostSeed, GiveUp, receiver
<1>6. ASSUME NEW r \in posts, PutSeed(r) \/ LosePost(r)
      PROVE  UNCHANGED <<receipts, payments>>
  BY <1>6 DEF PutSeed, LosePost, receiver
<1>7. ASSUME Tick \/ BankRestart \/ UNCHANGED vars
      PROVE  UNCHANGED <<receipts, payments>>
  BY <1>7 DEF Tick, BankRestart, receiver, vars
<1>8. ASSUME NEW p \in Payments, NEW i \in instruments,
             ProcessPaymentWindowed(p, i)
      PROVE  UNCHANGED Status
  <2>1. Quanta(BankQuantum) \in SUBSET Counters
    BY DEF Quanta
  <2> QED
    BY <1>2, <1>8, <2>1 DEF ProcessPaymentWindowed
<1>9. ASSUME NEW p \in Payments, NEW i \in instruments, NEW t \in Counters,
             ProcessPayment(p, i, t)
      PROVE  UNCHANGED Status
  BY <1>2, <1>9 DEF ProcessPayment
<1> QED
  BY <1>1, <1>3, <1>4, <1>5, <1>6, <1>7, <1>8, <1>9,
     ChargeIsPromised, IssueIsPromised, ValidateIsPromised
     DEF Next

\* A charge is settled once, and only after the payer's bank has issued a
\* receipt for that very charge.
THEOREM KeepsPromise == Spec => PromiseSpec
<1>1. Init => Promise!Init
  BY DEF Init, Ledger!Init, Promise!Init, Status
<1>2. IInv /\ [Next]_vars => [Promise!Next]_Status
  BY StepIsPromised
<1> QED
  BY <1>1, <1>2, Invariance, PTL DEF Spec, PromiseSpec, Promise!Spec
=============================================================================
