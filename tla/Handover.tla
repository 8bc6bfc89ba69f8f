------------------------------ MODULE Handover ------------------------------
(***************************************************************************)
(* Receivers behind the facades applications embed (FFI handle, UniFFI     *)
(* object, WASM object, or the Rust SDK itself over the sealed store), and *)
(* the handover of a receiver's seed and counter from one to another       *)
(* through a sealed backup (crates/mcpix-backup).                          *)
(*                                                                         *)
(* Each receiver is used by one caller at a time, so an operation is one   *)
(* step, except that whoever takes a backup first collects the state and   *)
(* then encrypts it.  An operation that fails is a step too: what it must  *)
(* not do is the point.  The code of a charge is <<seed, T>> (symbolic     *)
(* HMAC).                                                                  *)
(***************************************************************************)
EXTENDS Integers, FiniteSets, BackupFormat, TransportField

CONSTANTS
  Objects,       \* receivers an application may hold
  SeedIds,       \* identifiers in use, sequences of symbols
  Materials,     \* 32-byte seeds the random generator may draw
  Passphrases,
  ExportParams,  \* KDF settings backups are written with
  None,          \* absent map entry
  Deployments,   \* the facade of each receiver, in the deployments explored
  MaxCounter,    \* stands for u64::MAX
  Window,        \* window_seconds of a quantized counter
  MaxTime,       \* last instant of a receiver's clock
  MaxExports,    \* backups explored
  MaxLives,      \* receivers created, over all
  MaxKeyLosses   \* sealing keys the hardware may invalidate

Facades == {"sealed", "uniffi", "ffi", "wasm"}

ASSUME DeploymentsAssumption == Deployments \subseteq [Objects -> Facades]
ASSUME IdsAssumption ==
  /\ SeedIds \subseteq ValidIds /\ BadId \notin ValidIds
  /\ ValidIds \subseteq Seq(STRING) /\ \A s \in ValidIds : ValidSeedId(s)
ASSUME ParamsAssumption == ExportParams \subseteq Params \ RefusedParams
ASSUME CounterAssumption == MaxCounter \in Nat
ASSUME WindowAssumption == Window \in Nat \ {0}
ASSUME TimeAssumption ==
  MaxTime \in Nat /\ \A now \in 0..MaxTime : (now \div Window) \in 0..MaxCounter
ASSUME BoundsAssumption == MaxExports \in Nat /\ MaxLives \in Nat /\ MaxKeyLosses \in Nat

VARIABLES
  facade,     \* what each receiver is reached through (fixed)
  mode,       \* Counter given to the receiver's SDK, None when it is not alive
  clock,      \* the clock that counter reads
  seeds,      \* SeedStore: blob sealed for a SeedId
  receipts,   \* SeedStore: retained receipt of a key
  last,       \* Counter: last T issued for a SeedId
  sealKey,    \* generation of the hardware key of the receiver's sealer
  draft,      \* state collected for a backup that is not yet encrypted
  backups,    \* backups written
  answer,     \* status the last operation returned to its caller
  lives,      \* receivers created so far
  owner,      \* history: SeedId a material was drawn for
  issued,     \* history: how many charges carried a code
  accepted,   \* history: how many Valid outcomes a code obtained
  highest,    \* history: highest T charged with a material, -1 before
  forked      \* history: materials restored while another copy was in use,
              \* or from a backup older than their last charge

objects == <<mode, clock, seeds, receipts, last, sealKey, draft>>
history == <<owner, issued, accepted, highest, forked>>
vars == <<facade, mode, clock, seeds, receipts, last, sealKey, draft, backups,
          answer, lives, owner, issued, accepted, highest, forked>>

Counters == 0..MaxCounter
Keys == SeedIds \X Counters
Codes == Materials \X Counters
Names == SeedIds \cup {BadId}
Receipt == [code: Codes, consumed: BOOLEAN]
Blob == [key: 0..MaxKeyLosses, seed: Materials]
Input == [seed: Materials, sid: SeedIds, mode: Modes, t: Counters]
Backup == [input: Input, pass: Passphrases, params: ExportParams, salt: 1..MaxExports]

ASSUME NoneAssumption ==
  None \notin SeedIds \cup Materials \cup Receipt \cup Blob \cup Input \cup Modes

NoSeeds == [s \in SeedIds |-> None]
NoReceipts == [k \in Keys |-> None]
NoCounters(md) == [s \in SeedIds |-> IF md = "Quantized" THEN -1 ELSE 0]

TypeOK ==
  /\ facade \in Deployments
  /\ mode \in [Objects -> Modes \cup {None}]
  /\ clock \in [Objects -> 0..MaxTime]
  /\ seeds \in [Objects -> [SeedIds -> Blob \cup {None}]]
  /\ receipts \in [Objects -> [Keys -> Receipt \cup {None}]]
  /\ last \in [Objects -> [SeedIds -> Counters \cup {-1}]]
  /\ sealKey \in [Objects -> 0..MaxKeyLosses]
  /\ draft \in [Objects -> Input \cup {None}]
  /\ backups \in SUBSET Backup /\ IsFiniteSet(backups)
  /\ lives \in 0..MaxLives
  /\ owner \in [Materials -> SeedIds \cup {None}]
  /\ issued \in [Codes -> Nat]
  /\ accepted \in [Codes -> Nat]
  /\ highest \in [Materials -> Counters \cup {-1}]
  /\ forked \in SUBSET Materials

Init ==
  /\ facade \in Deployments
  /\ mode = [o \in Objects |-> None]
  /\ clock = [o \in Objects |-> 0]
  /\ seeds = [o \in Objects |-> NoSeeds]
  /\ receipts = [o \in Objects |-> NoReceipts]
  /\ last = [o \in Objects |-> NoCounters("Sequential")]
  /\ sealKey = [o \in Objects |-> 0]
  /\ draft = [o \in Objects |-> None]
  /\ backups = {}
  /\ answer = "Ok"
  /\ lives = 0
  /\ owner = [m \in Materials |-> None]
  /\ issued = [c \in Codes |-> 0]
  /\ accepted = [c \in Codes |-> 0]
  /\ highest = [m \in Materials |-> -1]
  /\ forked = {}

-----------------------------------------------------------------------------
(***************************************************************************)
(* What a caller is told.  A Rust caller gets the error itself, WASM its   *)
(* text; FFI and UniFFI have an enumeration each, given here for what the  *)
(* SDK's operations return.                                                *)
(***************************************************************************)
FfiStatus(e) ==
  IF e \in {"CounterCollision", "CounterRollback"} THEN "CounterOverflow" ELSE e

UniffiError(e) ==
  IF e \in {"CounterCollision", "CounterRollback"} THEN "CounterOverflow"
  ELSE IF e \in {"SeedIdLength", "SeedIdCharset"} THEN "InvalidSeedId"
  ELSE e

Status(o, e) ==
  IF facade[o] = "ffi" THEN FfiStatus(e)
  ELSE IF facade[o] = "uniffi" THEN UniffiError(e)
  ELSE e

\* An operation that only reads, or that fails, and what it answers.
Answer(o, e) ==
  /\ mode[o] # None
  /\ answer' = Status(o, e)
  /\ UNCHANGED <<facade, objects, backups, lives, history>>

\* SeedId::new refuses the identifier before the SDK is called.
RefuseName(o, n) == n = BadId /\ Answer(o, "SeedIdCharset")

-----------------------------------------------------------------------------
(***************************************************************************)
(* The SDK's operations, over a store that seals what it is given          *)
(***************************************************************************)
\* put_seed: the blob is sealed under the key of the moment.
Sealed(o, m) == [key |-> sealKey[o], seed |-> m]

\* get_seed: no blob, one the key no longer opens, or the seed.
Unseals(o, s) == seeds[o][s] # None /\ seeds[o][s].key = sealKey[o]

Register(o, s, m) ==
  /\ mode[o] # None
  /\ s \in SeedIds
  /\ owner[m] = None
  /\ seeds' = [seeds EXCEPT ![o][s] = Sealed(o, m)]
  /\ owner' = [owner EXCEPT ![m] = s]
  /\ answer' = "Ok"
  /\ UNCHANGED <<facade, mode, clock, receipts, last, sealKey, draft, backups,
                 lives, issued, accepted, highest, forked>>

NextT(o, s) ==
  IF mode[o] = "Quantized" THEN clock[o] \div Window ELSE last[o][s] + 1

\* Mutant: a second charge in the quantum of the last one is let through.
NextErrorCollides(o, s) ==
  IF mode[o] = "Sequential"
  THEN IF last[o][s] < MaxCounter THEN "none" ELSE "CounterOverflow"
  ELSE IF NextT(o, s) >= last[o][s] THEN "none" ELSE "CounterRollback"

\* Counter::next: CounterOverflow of the sequential one, CounterCollision and
\* CounterRollback of the quantized one.
NextError(o, s) ==
  IF mode[o] = "Sequential"
  THEN IF last[o][s] < MaxCounter THEN "none" ELSE "CounterOverflow"
  ELSE IF NextT(o, s) > last[o][s] THEN "none"
  ELSE IF NextT(o, s) = last[o][s] THEN "CounterCollision" ELSE "CounterRollback"

\* Mutant: the counter is reserved before the seed is fetched.
ChargeOrderReserving == <<"next", "get_seed", "save_receipt">>

\* What generate_charge calls, in order: the first that refuses ends it, and
\* what was called before it has had its effect.
ChargeOrder == <<"get_seed", "next", "save_receipt">>

\* The maps in memory refuse no receipt.
StageError(o, s, stage) ==
  IF stage = "next" THEN NextError(o, s)
  ELSE IF stage = "save_receipt" \/ Unseals(o, s) THEN "none"
  ELSE IF seeds[o][s] = None THEN "UnknownSeed" ELSE "Storage"

Refusing(o, s) == {i \in DOMAIN ChargeOrder : StageError(o, s, ChargeOrder[i]) # "none"}

Charge(o, s) ==
  /\ mode[o] # None
  /\ s \in SeedIds
  /\ Refusing(o, s) = {}
  /\ LET t == NextT(o, s)
         m == seeds[o][s].seed
     IN /\ last' = [last EXCEPT ![o][s] = t]
        /\ receipts' = [receipts EXCEPT ![o][<<s, t>>] =
                          [code |-> <<m, t>>, consumed |-> FALSE]]
        /\ issued' = [issued EXCEPT ![<<m, t>>] = @ + 1]
        /\ highest' = [highest EXCEPT ![m] = IF t > @ THEN t ELSE @]
  /\ answer' = "Ok"
  /\ UNCHANGED <<facade, mode, clock, seeds, sealKey, draft, backups, lives,
                 owner, accepted, forked>>

ChargeFails(o, s) ==
  /\ mode[o] # None
  /\ s \in SeedIds
  /\ \E i \in Refusing(o, s) :
       /\ \A j \in Refusing(o, s) : i <= j
       /\ answer' = Status(o, StageError(o, s, ChargeOrder[i]))
       /\ last' = IF \E j \in 1..(i - 1) : ChargeOrder[j] = "next"
                  THEN [last EXCEPT ![o][s] = NextT(o, s)] ELSE last
  /\ UNCHANGED <<facade, mode, clock, seeds, receipts, sealKey, draft, backups,
                 lives, history>>

Held(o, s, t) == receipts[o][<<s, t>>]

Outcome(receipt, presented) ==
  IF receipt.consumed THEN "Replay"
  ELSE IF receipt.code = presented THEN "Valid" ELSE "Mismatch"

\* Mutant: mark_consumed finds the receipt and leaves it as it is.
AcceptUnmarked(o, s, t, c) ==
  /\ mode[o] # None
  /\ s \in SeedIds
  /\ Held(o, s, t) # None
  /\ Outcome(Held(o, s, t), c) = "Valid"
  /\ accepted' = [accepted EXCEPT ![c] = @ + 1]
  /\ answer' = "Valid"
  /\ UNCHANGED <<facade, objects, backups, lives, owner, issued, highest, forked>>

Accept(o, s, t, c) ==
  /\ mode[o] # None
  /\ s \in SeedIds
  /\ Held(o, s, t) # None
  /\ Outcome(Held(o, s, t), c) = "Valid"
  /\ receipts' = [receipts EXCEPT ![o][<<s, t>>].consumed = TRUE]
  /\ accepted' = [accepted EXCEPT ![c] = @ + 1]
  /\ answer' = "Valid"
  /\ UNCHANGED <<facade, mode, clock, seeds, last, sealKey, draft, backups,
                 lives, owner, issued, highest, forked>>

Decline(o, s, t, c) ==
  /\ s \in SeedIds
  /\ \/ Held(o, s, t) = None /\ Answer(o, "NoRetainedReceipt")
     \/ /\ Held(o, s, t) # None
        /\ Outcome(Held(o, s, t), c) # "Valid"
        /\ Answer(o, Outcome(Held(o, s, t), c))

-----------------------------------------------------------------------------
(***************************************************************************)
(* The life of a receiver.  Every store and counter here is in memory, so  *)
(* what is freed is gone.                                                  *)
(***************************************************************************)
\* An SDK over empty stores, then what the caller of Create puts into it.
Create(o, md, start) ==
  /\ mode[o] = None
  /\ lives < MaxLives
  /\ lives' = lives + 1
  /\ mode' = [mode EXCEPT ![o] = md]
  /\ clock' = [clock EXCEPT ![o] = start]
  /\ answer' = "Ok"
  /\ UNCHANGED <<facade, receipts, sealKey, draft, backups, owner, issued,
                 accepted, highest>>

CreateEmpty(o, md, start) ==
  /\ Create(o, md, start)
  /\ last' = [last EXCEPT ![o] = NoCounters(md)]
  /\ UNCHANGED <<seeds, forked>>

FfiNew(o) == facade[o] = "ffi" /\ CreateEmpty(o, "Sequential", 0)
UniffiNew(o) == facade[o] = "uniffi" /\ CreateEmpty(o, "Sequential", 0)
SealedNew(o, md) == facade[o] = "sealed" /\ CreateEmpty(o, md, 0)
WasmNew(o) == facade[o] = "wasm" /\ CreateEmpty(o, "Sequential", 0)
WasmNewQuantized(o, start) == facade[o] = "wasm" /\ CreateEmpty(o, "Quantized", start)

Free(o) ==
  /\ mode[o] # None
  /\ mode' = [mode EXCEPT ![o] = None]
  /\ clock' = [clock EXCEPT ![o] = 0]
  /\ seeds' = [seeds EXCEPT ![o] = NoSeeds]
  /\ receipts' = [receipts EXCEPT ![o] = NoReceipts]
  /\ last' = [last EXCEPT ![o] = NoCounters("Sequential")]
  /\ draft' = [draft EXCEPT ![o] = None]
  /\ answer' = "Ok"
  /\ UNCHANGED <<facade, sealKey, backups, lives, history>>

\* tick: JavaScript sets the clock of a quantized counter to any instant.
Tick(o, now) ==
  /\ mode[o] = "Quantized"
  /\ facade[o] = "wasm" \/ now = clock[o] + 1   \* SystemClock only advances here
  /\ now # clock[o]
  /\ clock' = [clock EXCEPT ![o] = now]
  /\ answer' = "Ok"
  /\ UNCHANGED <<facade, mode, seeds, receipts, last, sealKey, draft, backups,
                 lives, history>>

\* The secure hardware invalidates the key the blobs are sealed under.
LoseSealKey(o) ==
  /\ facade[o] = "sealed"
  /\ sealKey[o] < MaxKeyLosses
  /\ sealKey' = [sealKey EXCEPT ![o] = @ + 1]
  /\ UNCHANGED <<facade, mode, clock, seeds, receipts, last, draft, backups,
                 answer, lives, history>>

-----------------------------------------------------------------------------
(***************************************************************************)
(* The facades: identifier check, SDK call, status                         *)
(***************************************************************************)
FfiRegister(o, n, m) == facade[o] = "ffi" /\ (RefuseName(o, n) \/ Register(o, n, m))
FfiGenerateCharge(o, n) ==
  facade[o] = "ffi" /\ (RefuseName(o, n) \/ Charge(o, n) \/ ChargeFails(o, n))
FfiValidate(o, n, t, c) ==
  facade[o] = "ffi" /\ (RefuseName(o, n) \/ Accept(o, n, t, c) \/ Decline(o, n, t, c))

UniffiRegister(o, n, m) ==
  facade[o] = "uniffi" /\ (RefuseName(o, n) \/ Register(o, n, m))
UniffiGenerateCharge(o, n) ==
  facade[o] = "uniffi" /\ (RefuseName(o, n) \/ Charge(o, n) \/ ChargeFails(o, n))
UniffiValidateReceipt(o, n, t, c) ==
  facade[o] = "uniffi" /\ (RefuseName(o, n) \/ Accept(o, n, t, c) \/ Decline(o, n, t, c))

WasmRegister(o, n, m) == facade[o] = "wasm" /\ (RefuseName(o, n) \/ Register(o, n, m))
WasmGenerateCharge(o, n) ==
  facade[o] = "wasm" /\ (RefuseName(o, n) \/ Charge(o, n) \/ ChargeFails(o, n))
WasmValidateReceipt(o, n, t, c) ==
  facade[o] = "wasm" /\ (RefuseName(o, n) \/ Accept(o, n, t, c) \/ Decline(o, n, t, c))

\* What a payer's application may read: a field, or one that was misread.
Symbols == {Family, "1", "2", Pad, Foreign, "a"}
Wire(s) ==
  LET field == Encode(s, "a")
  IN {field}
     \cup {[field EXCEPT ![i] = x] : i \in DOMAIN field, x \in Symbols}
     \cup {SubSeq(field, 1, n) : n \in 0..(FieldLen - 1)}
     \cup {Append(field, x) : x \in Symbols}

\* The payer's side of the demonstration, over the store of the receiver.
PayerAnswer(o, field) ==
  LET read == Parse(field)
  IN IF read.error # "none" THEN read.error
     ELSE IF read.sid \in SeedIds /\ seeds[o][read.sid] # None THEN "Recovered"
     ELSE "UnknownSeed"

WasmPayerRecoverC2(o, field) ==
  facade[o] = "wasm" /\ Answer(o, PayerAnswer(o, field))

SealedCall(o, s) ==
  /\ facade[o] = "sealed"
  /\ \/ \E m \in Materials : Register(o, s, m)
     \/ Charge(o, s)
     \/ ChargeFails(o, s)
     \/ \E t \in Counters, c \in Codes : Accept(o, s, t, c) \/ Decline(o, s, t, c)

-----------------------------------------------------------------------------
(***************************************************************************)
(* Backup.  export takes the seed from the store, and T from the last      *)
(* charge that returned: a Counter cannot be asked.                        *)
(***************************************************************************)
Capture(o, s) ==
  /\ facade[o] = "sealed"
  /\ mode[o] # None
  /\ draft[o] = None
  /\ Unseals(o, s)
  /\ draft' = [draft EXCEPT ![o] =
       [seed |-> seeds[o][s].seed, sid |-> s, mode |-> mode[o],
        t |-> IF mode[o] = "Quantized" THEN 0 ELSE last[o][s]]]
  /\ answer' = "Ok"
  /\ UNCHANGED <<facade, mode, clock, seeds, receipts, last, sealKey, backups,
                 lives, history>>

WriteBackup(o, pass, params) ==
  /\ draft[o] # None
  /\ Cardinality(backups) < MaxExports
  /\ backups' = backups \cup {[input |-> draft[o], pass |-> pass, params |-> params,
                               salt |-> Cardinality(backups) + 1]}
  /\ draft' = [draft EXCEPT ![o] = None]
  /\ answer' = "Ok"
  /\ UNCHANGED <<facade, mode, clock, seeds, receipts, last, sealKey, lives, history>>

TextOf(b) == Export(b.input, b.pass, b.params, b.salt)
Unwritten(text) == Damaged(text) \cup OtherReleases(text)
Texts == UNION {{TextOf(b)} \cup Unwritten(TextOf(b)) : b \in backups}

\* Mutants: the restored T overwrites a higher one; it is not restored.
RestoreOverwriting(lastT, t) == t
RestoreNothing(lastT, t) == lastT

RestoreLastIssued(lastT, t) == IF t > lastT THEN t ELSE lastT

\* History: is the state in use elsewhere, or older than the last charge?
InUse(o, m) == \E p \in Objects \ {o}, s \in SeedIds :
                 Unseals(p, s) /\ seeds[p][s].seed = m
Covers(o, st) ==
  \/ st.mode = "Sequential" /\ st.t >= highest[st.seed]
  \/ last[o][st.sid] >= highest[st.seed]

\* put_seed, and restore_last_issued when the counter is sequential
Restore(o, st) ==
  /\ seeds' = [seeds EXCEPT ![o][st.sid] = Sealed(o, st.seed)]
  /\ forked' = IF InUse(o, st.seed) \/ ~ Covers(o, st)
               THEN forked \cup {st.seed} ELSE forked

FromSealedBackup(o, text, pass) ==
  LET st == Import(text, pass)
  IN /\ facade[o] = "uniffi"
     /\ st.error = "none"
     /\ st.mode = "Sequential"
     /\ Create(o, "Sequential", 0)
     /\ last' = [last EXCEPT ![o] = [NoCounters("Sequential") EXCEPT
                    ![st.sid] = RestoreLastIssued(@, st.t)]]
     /\ Restore(o, st)

\* No object comes out of a failed restore; every cause is reported alike.
FromSealedBackupFails(o, text, pass) ==
  LET st == Import(text, pass)
  IN /\ facade[o] = "uniffi"
     /\ mode[o] = None
     /\ st.error = "none" => st.mode # "Sequential"
     /\ answer' = "Storage"
     /\ UNCHANGED <<facade, objects, backups, lives, history>>

\* A Rust application restores into stores that are in use.
RestoreInPlace(o, text, pass) ==
  LET st == Import(text, pass)
  IN /\ facade[o] = "sealed"
     /\ mode[o] # None
     /\ st.error = "none"
     /\ st.mode = mode[o]
     /\ last' = [last EXCEPT ![o][st.sid] =
                   IF mode[o] = "Sequential" THEN RestoreLastIssued(@, st.t) ELSE @]
     /\ Restore(o, st)
     /\ answer' = "Ok"
     /\ UNCHANGED <<facade, mode, clock, receipts, sealKey, draft, backups, lives,
                    owner, issued, accepted, highest>>

-----------------------------------------------------------------------------
Facade(o) ==
  \/ \E n \in Names, m \in Materials :
       FfiRegister(o, n, m) \/ UniffiRegister(o, n, m) \/ WasmRegister(o, n, m)
  \/ \E n \in Names :
       FfiGenerateCharge(o, n) \/ UniffiGenerateCharge(o, n) \/ WasmGenerateCharge(o, n)
  \/ \E n \in Names, t \in Counters, c \in Codes :
       \/ FfiValidate(o, n, t, c)
       \/ UniffiValidateReceipt(o, n, t, c)
       \/ WasmValidateReceipt(o, n, t, c)
  \/ \E s \in SeedIds : \E field \in Wire(s) : WasmPayerRecoverC2(o, field)

Life(o) ==
  \/ FfiNew(o)
  \/ UniffiNew(o)
  \/ \E md \in Modes : SealedNew(o, md)
  \/ WasmNew(o)
  \/ \E now \in 0..MaxTime : WasmNewQuantized(o, now) \/ Tick(o, now)
  \/ Free(o)
  \/ LoseSealKey(o)

Backing(o) ==
  \/ \E s \in SeedIds : Capture(o, s)
  \/ \E p \in Passphrases, params \in ExportParams : WriteBackup(o, p, params)
  \/ \E text \in Texts, p \in Passphrases :
       \/ FromSealedBackup(o, text, p)
       \/ FromSealedBackupFails(o, text, p)
       \/ RestoreInPlace(o, text, p)

Next ==
  \E o \in Objects :
    \/ \E s \in SeedIds : SealedCall(o, s)
    \/ Facade(o)
    \/ Life(o)
    \/ Backing(o)

Spec == Init /\ [][Next]_vars

-----------------------------------------------------------------------------
(***************************************************************************)
(* Properties                                                              *)
(***************************************************************************)

\* Whatever is registered, charged, freed, backed up and restored, and in
\* whatever order, no two charges carry the same code, unless the material was
\* restored while another copy was in use or from a backup older than its last
\* charge (uniffi lib.rs:135-137: the next charge uses T + 1).
CodesUniqueUnlessForked == \A c \in Codes : c[1] \notin forked => issued[c] <= 1

\* Even with forked material, Valid is never answered more often for a code
\* than charges were made with it (lib.rs:98-99).
AcceptedCoveredByCharges == \A c \in Codes : accepted[c] <= issued[c]

\* Both decoders read from a backup the state it was taken of, with the
\* passphrase it was written with and with no other
\* (mcpix-embed tests/backup_cross_validate.rs).
BackupsRestore ==
  \A b \in backups, p \in Passphrases :
    LET wanted == IF p = b.pass
                  THEN [error |-> "none", seed |-> b.input.seed, sid |-> b.input.sid,
                        mode |-> b.input.mode, t |-> b.input.t]
                  ELSE Refused("DecryptFailed")
    IN Import(TextOf(b), p) = wanted /\ EmbedImport(TextOf(b), p) = wanted

\* A text that no export of this release wrote is refused by both decoders, for
\* the same reason (format.rs:37-39: the header is bound to the box).
UnwrittenRefused ==
  \A b \in backups, p \in Passphrases : \A text \in Unwritten(TextOf(b)) :
    /\ Import(text, p).error # "none"
    /\ EmbedImport(text, p) = Import(text, p)

\* A receiver's counter never goes back, not even when an old backup is
\* restored into it (monotonic_counter.rs:24-26).
CounterNeverGoesBack ==
  [][\A o \in Objects, s \in SeedIds :
       mode[o] # None /\ mode'[o] # None => last'[o][s] >= last[o][s]]_vars

\* Every T a sequential counter of a receiver has gone past has its receipt
\* there, unless the counter was brought to it by a backup: however many charges
\* were refused, for an unknown identifier, for a lost sealing key or for a
\* counter at its end, none of them has used up a T (lib.rs:79-94).
ReservedIsRetained ==
  \A o \in Objects, s \in SeedIds : mode[o] = "Sequential" =>
    \A t \in 1..last[o][s] :
      \/ receipts[o][<<s, t>>] # None
      \/ \E b \in backups :
           b.input.sid = s /\ b.input.mode = "Sequential" /\ t <= b.input.t

\* What generate_charge of a registered identifier puts on the wire is read back
\* by every decoder, and the two encoders write the same bytes (mcpix-core and
\* mcpix-embed).
FieldRoundTrip ==
  \A o \in Objects, s \in SeedIds : seeds[o][s] # None =>
    LET field == Encode(s, "a")
        read == [error |-> "none", sid |-> s, c1 |-> "a"]
    IN /\ EncodeInto(s, "a") = field
       /\ Parse(field) = read /\ ParseInto(field) = read
       /\ IsProtocolField(field) /\ IsAnyVersion(field)

\* The two decoders accept the same fields and read the same from them, all of
\* them fields of a version this build negotiates; a field of another version
\* of the family is recognised and refused as such.
FieldDecodersAgree ==
  \A o \in Objects, s \in SeedIds : facade[o] = "wasm" /\ seeds[o][s] # None =>
    \A field \in Wire(s) :
      LET read == Parse(field)
      IN /\ read.error = "none"
              => IsProtocolField(field) /\ Negotiate({field[2]}) = field[2]
         /\ (read.error = "none" \/ ParseInto(field).error = "none")
              => ParseInto(field) = read
         /\ read.error = "UnsupportedProtocolVersion"
              => IsAnyVersion(field) /\ Negotiate({field[2]}) = "none"

-----------------------------------------------------------------------------
(***************************************************************************)
(* The inductive invariant behind CodesUniqueUnlessForked: a material that *)
(* was not forked has at most one receiver that can charge with it, and    *)
(* the counter of that receiver has passed every T charged with it.        *)
(***************************************************************************)
Holds(o, s, m) == Unseals(o, s) /\ seeds[o][s].seed = m

SeedsOwned ==
  \A o \in Objects, s \in SeedIds : seeds[o][s] # None => owner[seeds[o][s].seed] = s

CopiesOwned ==
  /\ \A o \in Objects : draft[o] # None => owner[draft[o].seed] = draft[o].sid
  /\ \A b \in backups : owner[b.input.seed] = b.input.sid

\* A blob never waits for a key that is yet to come.
KeysPassed == \A o \in Objects, s \in SeedIds : seeds[o][s] # None => seeds[o][s].key <= sealKey[o]

FreedIsEmpty ==
  \A o \in Objects : mode[o] = None =>
    seeds[o] = NoSeeds /\ last[o] = NoCounters("Sequential")

SequentialFromZero ==
  \A o \in Objects, s \in SeedIds : mode[o] = "Sequential" => last[o][s] >= 0

SoleHolder ==
  \A m \in Materials \ forked : \A o, p \in Objects, s, q \in SeedIds :
    Holds(o, s, m) /\ Holds(p, q, m) => o = p

HolderCovers ==
  \A m \in Materials \ forked : \A o \in Objects, s \in SeedIds :
    Holds(o, s, m) => highest[m] <= last[o][s]

IssuedBelowHighest ==
  \A m \in Materials, t \in Counters : issued[<<m, t>>] > 0 => t <= highest[m]

UndrawnUncharged == \A m \in Materials : owner[m] = None => highest[m] = -1

IInv ==
  /\ TypeOK
  /\ SeedsOwned
  /\ CopiesOwned
  /\ KeysPassed
  /\ FreedIsEmpty
  /\ SequentialFromZero
  /\ SoleHolder
  /\ HolderCovers
  /\ IssuedBelowHighest
  /\ UndrawnUncharged
  /\ CodesUniqueUnlessForked

=============================================================================
