# Verification of the mCPix SDK

TLA+ models of the mCPix receiver SDK, its embedded storage and the settlement
of a payment between banks, with TLC runs on small instances and TLAPS proofs
for every instance.  Paths below are relative to the root of the repository;
`PROJECT.json` maps every definition to the lines it models.

mCPix lets a receiver charge while offline.  The receiver shares a 32-byte seed
S with its bank.  A charge reserves a counter T, derives C1 = HMAC(S, T) and
C2 = HMAC(S, T, C1), publishes C1 and retains C2.  The payer's bank reads C1 from
the instrument, obtains S from the receiver's bank, recomposes C2 and sends it
back as the receipt; the receiver compares it with what it retained and marks it
consumed.  Everything rests on three things: T is never used twice for a seed,
a receipt is accepted once, and the two banks and the receiver agree on (S, T).

What surrounds a payment is modelled too: the handover of a receiver's state
through a sealed backup, the facades applications embed, and the way from source
to a signed release whose libraries check themselves.

## 1. Inventory

| Component | Source | State | Operations | Modelled |
|---|---|---|---|---|
| Receiver facade | `mcpix-receiver-sdk/src/lib.rs`, `mcpix-core/src/state.rs` | none of its own: three shared trait objects | register, generate_charge, validate_receipt | `ReceiverSdk` |
| Seed stores | `memory_store.rs`, `sqlite_store.rs` | seed per SeedId, receipt per (SeedId, T) | put/get_seed, save/get_receipt, mark_consumed | `ReceiverSdk` |
| Counters | `monotonic_counter.rs`, `timestamp_counter.rs`, `clock.rs` | last T issued per SeedId, wall clock | next, current_quantum, restore_last_issued | `ReceiverSdk`; restore_last_issued in `Handover` |
| Flash stores | `mcpix-embed/src/storage.rs` | two slots and their sequence numbers | load, save, mark_consumed | `FlashStore`, `EmbeddedDevice` |
| Firmware | `embedded-uno-q/src/main.rs`, `embedded/src/main.rs` | both flash stores, where main() is | one boot: reserve, derive, show, retain, reload, verify, mark | `EmbeddedDevice` |
| Payer's bank | `mcpix-bank-payer-mock/src/lib.rs` | the call in progress | process_payment, process_payment_windowed | `Settlement` |
| Receiver's bank, HTTP | `mcpix-bank-receiver/src/{lib,http_server,http_client,wire}.rs` | custody: seed per SeedId | POST and GET /v1/seeds/{seed_id} | `Settlement` |
| Pair derivation | `mcpix-core/src/crypto.rs`, `mcpix-embed/src/crypto.rs` | none | derive_pair, derive_c2_from_c1, verify_c2 | symbolically |
| Transport field, versions | `mcpix-core/src/{transport_field,version}.rs`, `mcpix-embed/src/transport_field.rs` | none | encode, parse, detect, negotiate, encode_into, parse_into | `TransportField` |
| Sealed backup | `mcpix-backup`, `mcpix-embed/src/restore.rs` | an encrypted blob of (S, T, mode) | export, two decoders, restore of the counter | `BackupFormat`, `Handover` |
| Sealed seed store | `sealed_store.rs` | seeds wrapped under a hardware key | the SeedStore trait, loss of the key | `Handover` |
| Facades | `mcpix-ffi`, `mcpix-uniffi`, `mcpix-wasm` | a receiver per handle or object | new, register, charge, validate, restore, tick, free; the status each reports | `Handover`, partly |
| Binary integrity | `mcpix-core/src/{integrity,signature}.rs`, `integrity_runtime.rs` | embedded digest and key; the manifest on disk | verify_self, verify_combined, verify_bytes | `Integrity`, `Release` |
| Build and release | `xtask/src/main.rs`, `.github/workflows/release.yml`, `mcpix-ffi/build.rs` | source tree, `target/`, `dist/`, keys, the workflow run | build, package, bindings, hash, sign, keys, publish | `Release`, partly |
| mTLS, OCSP | `mtls*.rs`, `ocsp.rs` | TLS configuration | handshakes in external libraries | no |
| QR code | `mcpix-embed/src/qr.rs` | none | symbol encoding in a library | no |
| Bindings, samples, fuzzing | `bindings`, `examples`, `fuzz` | none of the protocol | | no |

How they interact.  The facade calls the store and the counter through `Send +
Sync` trait objects: each call takes one mutex, so an operation of the facade is
several atomic steps and two threads interleave between them.  The firmware is
sequential, but its power can be cut between any two accesses of the flash.  The
receiver talks to its bank over HTTP once, to register; the payer's bank asks
the receiver's bank for the seed in every payment; the receipt reaches the
receiver by any channel, late or repeatedly.  A backup takes a receiver's seed and
its last T to another receiver, or back to the same one, behind another facade.
The tasks of `cargo xtask` communicate through files: what one leaves in `target/`,
`dist/` or the tree is what the next one packs, hashes or signs, and what a
release holds is what the self-check of its libraries later reads.

What is hard to get right, and where it bites, is listed as hazards in
`PROJECT.json`: overlapping validations and charges, a clock read before the
lock it is compared under, restarts that lose the counter but not the store,
store errors halfway through an operation, torn flash writes and decayed records,
power cuts between the reservation of T and what uses it, clocks that drift,
requests abandoned by their client that arrive later, registrations repeated
during a payment, backups older than the last charge, decoders written twice,
builds that fail with a warning and leave older files behind, a header generator and a
copy whose failure stops nothing, packages and hashes made in the wrong order, keys
replaced half way.

What makes each component correct:
- receiver: no T twice for the same material; a receipt saved is never
  overwritten or reopened; Valid at most once and only for a code issued; calls return;
- flash store: a save cut short leaves the old value or the new one, and a
  decayed record costs at most the last save;
- firmware: no T twice across boots, replay defence survives a reboot;
- settlement: drift within the tolerance settles and drift beyond it does not;
  a receipt settles its own charge, once; custody holds the confirmed seed;
- handover: no code twice unless the seed was used in two places or restored from
  a backup that misses a charge; a refused charge uses up no T; both decoders
  read what was exported and nothing else;
- transport field: what either encoder writes, both decoders read back; they accept
  the same fields;
- release: the manifest lists the published files as they are and is what was signed,
  packages carry the libraries beside them, committed bindings that were checked match
  the libraries, a stale library means a reported failure; a stale C header may also
  mean that cbindgen was skipped, which is reported to nobody but the reader of a log;
- self-check: with a manifest, Verified only for a file of a release signed with the
  trusted key, and for every such file in whose name no other path of its release
  ends; without one, only for the build the library was stamped with.

## 2. Modules

    ReceiptLedger    <--refines--  ReceiverSdk     threads, counters, stores, restarts
    (ReceiptLedger_proofs)                         (MCReceiverSdk, ReceiverSdk_proofs)
         |
         +---instantiated by---->  Settlement --refines-->  PaymentPromise
                                                   (MCSettlement, Settlement_proofs)
    DurableCell  <--extends--  DecayingCell  <--refines--  FlashStore
         |                                         (MCFlashStore, FlashStore_proofs)
         +---instantiated twice by EmbeddedDevice  (MCEmbeddedDevice, EmbeddedDevice_proofs)
    BackupFormat, TransportField  <--extended by--  Handover
                                                   (MCHandover, TransportField_proofs,
                                                    Handover_proofs)
    Integrity  <--extended by--  Release           (MCRelease, Release_proofs)

Abstract specifications: `ReceiptLedger` (append-only ledger of receipts),
`DurableCell` (one value that a save replaces as a whole or not at all),
`DecayingCell` (the same, with a spare that load falls back to once a record has
decayed) and `PaymentPromise` (a charge goes unused, charged, paid, settled, in
this order).

**ReceiverSdk.**  `seeds` and `receipts` are the store, `lastIssued` the counter
(-1 for no entry), `call[th]` the operation thread th is in.  A facade operation
is cut where the code makes a call that locks: `GetSeed`, then `NextSequential`
or `ReadClock` and `NextQuantized` (the quantized counter reads its clock before
it takes the lock), then `SaveReceipt`; `GetReceipt`, then `MarkConsumed`.  Early
returns that leave every state as it was are not steps.  `StoreFails` is an error
of the SQLite store; the in-memory store cannot fail.  `Restart` loses every call
and the counter and, unless `Durable`, the store.  A derived code is the pair
<<seed, T>>: HMAC is taken to be injective, so the truncation of a code to 11
characters and its chance of collision are outside the model.  `Register` draws
material that was never drawn before (32 random bytes).

**FlashStore** models `ReceiptStore` and `CounterStore`, which differ only in the
fields of their record.  A slot is blank, torn (rejected by magic, version or
CRC) or a record; writing over a slot that is not blank tears it, as on NOR flash.
`Begin` is the choice of the target and of `save_seq`, `Erase` and `Write` the two
accesses that follow; `CutErase` and `CutWrite` are a power cut or a backend error
in each of them, with every outcome they may leave.  `Decay` makes a written record
fail its CRC, between two saves.  It implements `DecayingCell`, and `DurableCell`
where no record decays.

**EmbeddedDevice** is main() statement by statement over two `DurableCell`s, so
what `FlashStore` implements without decay is what the firmware is checked against.
`PowerCycle` may happen after any step; the demos keep the flash in RAM, a device
does not.  `readFaults` counts the boots that failed to read their counter.

**Settlement.**  The receiver is the sequential one with a quantized counter: each
facade call is one step on a `ReceiptLedger`.  `PostSeed`, `PutSeed`, `LosePost`
and `GiveUp` are a registration over HTTP; a POST is in the network until it is
handled or lost, whatever its client does.  A lost reply is `PutSeed` without
`Answered`.  A payment is `ProcessPaymentWindowed` or `ProcessPayment` (the GET is
sent), `LookupSeed` (custody is read), `Issue` or `FailPayment`.  `now` is the
receiver's clock, `now + skew` the payer bank's.  `ValidateReceipt` tries the
candidates against a retained receipt at any later time, any number of times.

**TransportField** is encode, parse, detect and negotiate of the core and
encode_into and parse_into of the embedded crate, as operators.  A field is a
sequence of symbols in which only what parsing looks at is told apart: family,
version, pad, foreign byte, identifier.

**BackupFormat** is export and the two decoders, `Import` (mcpix-backup) and
`EmbedImport` (restore.rs), check by check in their own order, over symbolic keys
and boxes.  `Damaged` and `OtherReleases` are the texts a decoder may be given that
this release did not write.

**Handover** has receivers (`Objects`), each behind the facade its deployment gives
it.  `seeds`, `receipts`, `last` and `clock` are what the SDK's in-memory stores and
counters hold; `sealKey` is the generation of the hardware key of a sealed store, and
a blob sealed under an earlier one no longer opens (`LoseSealKey`).  A receiver is
used by one caller at a time, so an operation is one step: `Register`, `Charge`,
`Accept` and their failures, with the status the facade makes of the error.  A charge
calls the store and the counter in `ChargeOrder`; the first call that refuses ends it,
and the calls before it have had their effect (`ChargeFails`).  A backup
is two steps, `Capture` (the application collects seed and T) and `WriteBackup` (the
key derivation takes its time), between which charges go on.  `FromSealedBackup` is
the UniFFI constructor, `RestoreInPlace` a Rust application that restores into
stores in use.  `forked` records the materials that were restored while another copy
could charge, or from a backup that misses a charge.

**Integrity** is verify_self: which manifest is found, whether its signature is
whole and by the trusted key, and which line decides; or, where none is found, how
the digest compares with the one the library was stamped with.  The order of the lines
is that of their digests, hence arbitrary (`Order`), and a line is of a file if its path
ends in the file's name (`EndsWith`): the name may be no more than the end of a listed one.

**Release** has a maintainer's checkout (`work`, `head`), `target/` (`compiled`),
`dist/` and the workflow (`run`).  `site` is the machine explored: three with
different tool chains, where the commands of `build-all`, or one of them, are in
`todo` and any may fail after any file, or `"ci"`, where `ModeGate`, `HermeticGate`,
`Job`, `Hash`, `Sign`, `PackageAar`, `PackageNuget` and `Publish` follow the workflow
and `RunFails` ends it anywhere.  Two failures stop nothing.  When cbindgen fails, the
build goes on with the C header as it was (`WithHeader`); `skipped` remembers which
command did, and `checked` which bindings a check really generated anew.  When `cp`
fails in the merge, the file is missing or cut short (`Merged`), and the run's `lost`
remembers it.  A file is a record of where and of what it was made, so that a stale,
broken or foreign one is told apart.  A release holds what the github release step
attaches: its `Payload`, the manifest and its signature; the C headers are in packages
and in the manifest only.  The self-check is asked, whenever no run is under way, about
every mix of published and foreign files, of names, manifests and signatures.

## 3. Runs

| Run | What it asks | Result | Distinct states |
|---|---|---|---|
| `ReceiverSequential` | sequential counter, SQLite store with errors anywhere, 2 threads, 2 SeedIds: invariant, ledger refinement, accepted codes were issued and stay closed, termination | holds | 29,591 |
| `ReceiverQuantized` | quantized counter, in-memory store, 2 threads, clock set back, a restart: codes unique, at most one Valid per thread, counters not ahead of the clock | holds | 38,708 |
| `OverlappingValidations` | 2 threads present one code | both get Valid | |
| `QuantizedRestart` | quantized counter over SQLite, restart within a quantum | T issued again | |
| `FlashStore` | 3 values, 8 erase cycles, cuts anywhere, 2 decays: refines the decaying cell | holds | 16,295 |
| `DevicePowerCuts` | 6 charges, power cuts and backend errors | holds | 10,629 |
| `DeviceReadFault` | one failed read of the counter at boot | T derived again | |
| `SettlementDrift` | two payments, every skew up to one window, every delay: both edges of the tolerance, no receipt settles another charge | holds | 653,205 |
| `SettlementCustody` | registrations by 2 receivers, 2 payments, lossy network, bank restart | holds | 499,362 |
| `Handover` | 2 receivers behind sealed store and UniFFI, or FFI and WASM: charges refused at every stage, backups, restores, misread fields, damaged texts, lost keys | holds | 274,965 |
| `Release` | 3 machines with failing commands and skipped headers, the workflow over commits, key rotations, dry runs and failed copies, the self-check over 2 releases | holds | 588,664 |
| `GenuineLibrary` | two genuine libraries of one release share a file name | one is Tampered | |

Bounds, and why they are enough.  Two threads show every race of two operations,
and no step of the code involves three.  Two SeedIds show that registering or
charging one leaves the other alone, and two materials a re-registration.  A
`MaxCounter` of 2 reaches exhaustion with two charges before it; the quantized
runs have two quanta of two instants each, so that a collision, a new quantum and
a rollback all happen.  Eight erase cycles let each sector be chosen several
times after a cut of either kind, and two decays hit both records, or one twice.
Six counters are six charges, with reboots between them.  In `SettlementDrift` the
window has two instants, the tolerance is 1 and the skew reaches a whole window
either way, with payments up to three instants after the charge: distances from 0 to
5 instants cover both sides of both edges, and the candidates of charges in
neighbouring windows overlap.  `SettlementCustody` has a single instant, because
nothing in custody depends on time.

`Handover.cfg` has two receivers, because a fork needs two and no more, two
materials, so that a restore can meet a seed of its own, one SeedId, charges up to the
counter's maximum, three receivers created over all (a restore after both
others, and after one was freed), one backup restored any number of times, and one
key loss; fields have a slot of two symbols and an identifier of one, so that every field is
padded; other lengths are the theorem's.  Its `VIEW` leaves out `answer`, which no step
and no property reads.  `Release.cfg` has two versions and two keys (the old and the new
one), two releases and one Android ABI, which is enough for a file name that occurs
twice.  One of the releases was made of the first commit before exploration begins
(`Before`) and the other is explored, so every mix of an old and a new one is met; nothing
is explored after the second (`MaxReleases`).  A library may be stamped with nothing, with a
text that is no digest or with the digest of an earlier build (`Digests`).  The copy that
may fail (`Fragile`) is that of the Android library, which is the one that is hashed,
attached and packed and shares its name with another; the proofs take any set.  The
names a host gives the file it checks are a whole one and `ffi.so`, which only
ends one (`HostNames`); `HostNamesAssumption` keeps them to the names of libraries.

Every constant that bounds (`MaxTime`, `MaxPosts`, `MaxRestarts`, `MaxBankRestarts`,
`MaxT`, `Endurance`, `MaxDecays`, `MaxReadFaults`, `MaxExports`, `MaxLives`, `MaxKeyLosses`,
`MaxVersion`, `MaxReleases`) appears in a guard and is an arbitrary number in the
proofs; runs switch deadlock checking off because the model stops at those bounds.
Symmetry permutes threads, payments, materials and passphrases, which the code never
compares by order, and is used in no run with a liveness property.

Fairness.  Only `ReceiverSequential` has a liveness property, `EveryCallReturns`,
under weak fairness of the next step of each thread.  Such a step waits for one
mutex that is held for a map operation and never while another is awaited, so a
thread that can go on is not held back for ever.  Nothing is assumed of the
network, of the clock, of restarts, of the power or of a maintainer.  The other
components have nothing that must happen: a payment may fail for ever, a charge may
go unpaid, a build may always fail.

## 4. Where the code and its documents disagree

Each is a run with one property that TLC refutes; `PROJECT.json` quotes the lines.

1. `OverlappingValidations`: validate_receipt reads and marks under two locks, and
   both of two overlapping presentations are answered Valid; THREAT_MODEL 4.3 says the
   mark is atomic with the answer.  With one calling thread it holds, and with n threads
   there are at most n Valids per charge that carried the code; both are proved.
2. `QuantizedRestart`: `TimestampQuantizedCounter` keeps its last T in memory; over
   a durable store a restart within the quantum issues T again and
   `INSERT OR REPLACE` replaces the receipt.  Proved: nothing is lost if the process comes
   back in a later quantum than its receipts', and a restart costs one reuse at most.
3. `DeviceReadFault`: the firmware takes a failed read of the counter for an
   empty store and restarts at T = 1.  Proved: each such failure costs one reuse at most.
4. `GenuineLibrary`: verify_combined answers from the first manifest line whose path
   ends in the file's name.  A release has a `libmcpix_uniffi.so` for Linux and one per
   Android ABI, so every one but the first listed is reported as tampered with.

Not refuted by a run, but worth knowing:
- The quantized counter reads the clock before its lock (timestamp_counter.rs:74-77):
  a thread overtaken at a quantum boundary is told CounterRollback, "clock moved
  backwards" (error.rs:34), of a clock that only advanced.  No T is reused.
- The charge is shown before its receipt is saved (embedded-uno-q main.rs:124-158): a
  cut in between loses it, and a payment of it cannot be validated.  THREAT_MODEL
  names power cuts in the save only.
- The tolerance of the payer's bank is counted from its clock at the payment, so a
  payer who pays late uses it up even when the clocks agree.
- A decayed newest record is skipped without a word: the firmware would continue
  from an older T.
- uniffi lib.rs:135-137 promises that a restored receiver goes on at T + 1; that
  is after the last charge only if the backup was taken after it.  UniFFI reports
  every cause of a failed restore as Storage.
- A failed build-ios is a warning, after which package-xcframework packs the slices
  of an earlier build and build-all returns Ok; a later build-ios alone leaves that
  framework in place.
- ADR-0005:106 answers Tampered when SUMS.sig is absent; the code then compares
  the embedded digest, which is that of an earlier build.  `MCPIX_EXPECTED_SHA256`, which
  integrity.rs:20-21 says CI always sets, is set by no workflow, so the released
  libraries answer Skipped.  The file hashed by default is the running program, not the
  library.
- The second hash lists the digest of a signature that the second signing then
  replaces (release.yml:294-304): of all attached files SHA256SUMS.sig is the one whose
  line in the manifest does not fit it, and `sha256sum -c` of the release fails there.
- A cbindgen that fails is a cargo warning (mcpix-ffi/build.rs:37-42): gen-bindings
  leaves the header alone, check-bindings finds no difference and passes, and the
  release ships the old header, though build.rs:3-5 says any drift fails the build.
  `ShippedBindingsMatch` and `StaleOnlyIfReported` claim nothing of that header.
- The merge of the jobs' files into dist/ swallows a failed copy (release.yml:257-263).
  A file may then be missing from a release, or cut short and signed all the same, and the
  AAR may lack an ABI; only an AAR without any ABI stops the run.
- Where no manifest is found, Verified means that the file named by MCPIX_SELF_PATH is
  the build the library was stamped with, published or not (integrity_runtime.rs:73-75).
- A file whose name is the end of a listed one is looked up in the line of the latter
  (signature.rs:109): a published library called `ffi.so` is Verified.
- sign-artifacts does not compare the secret with release.pub, release.yml does not run
  check-bindings (ci.yml does), and gen-release-key may leave release.pub without its
  private half.

## 5. Theorems

All are proved for arbitrary constants that satisfy the ASSUMEs of the modules.

| Module | Theorem | States |
|---|---|---|
| `ReceiptLedger_proofs` | `CodesAreDistinct`, `AppendOnly`, `SettledIsFinal` | what any ledger of receipts promises |
| `ReceiverSdk_proofs` | `TypeCorrect`, `OnlyIssuedAccepted`, `CountersFollowClock` | `TypeOK`; an accepted code was issued; the quantized counter never runs ahead of the clock it read |
| | `ReuseIsBounded`, `UniqueUntilRestart` | a code is carried by at most one charge per life of the process |
| | `AcceptanceIsBounded` | and accepted at most once per thread and charge that carried it |
| | `NeverStuck`, `CallsOnlyAdvance` | a call always has a step to take, and each takes it nearer to its return |
| if the store dies with the counter | `Invariance` | `IInv` |
| | `CodesAreUnique`, `AcceptanceIsFinal` | no code issued twice; an accepted code stays closed |
| | `AcceptancesBounded`, `SerialReplayRejected` | at most one Valid per thread and code; at most one in all with `SerialCalls` |
| | `ImplementsLedger`, `ReceiptsDiffer` | the receipts refine `ReceiptLedger`; no two hold one code |
| if SQLite meets a quantized counter and `SafeRestart` | `UniqueAcrossRestarts`, `FinalAcrossRestarts`, `BoundedAcrossRestarts`, `SerialAcrossRestarts` | the four above, over restarts |
| | `LedgerAcrossRestarts`, `ConsumedStaysConsumed` | one ledger for the life of the database; a consumed receipt is consumed for ever |
| `FlashStore_proofs` | `Invariance`, `WearLevelling` | `IInv`, `WearIsBalanced` |
| | `ImplementsDecayingCell`, `ImplementsDurableCell` | the two slots refine `DecayingCell`, and `DurableCell` if `MaxDecays = 0` |
| `EmbeddedDevice_proofs` | `SavesKeepStep`, `ReloadSucceeds`, `RetainedWasDisplayed` | `SaveInv`; `ReloadMatches`; a boot retains what it showed |
| | `ReuseIsBounded` | a T is used for at most one pair more than boots failed to read their counter |
| until a boot fails to read its counter | `Invariance`, `CounterNeverReused` | `IInv`; no T twice |
| | `CounterCoversEveryReceipt`, `DisplayIsRetained` | the counter saved covers the receipt saved; `DisplayedIsRetained` |
| | `ReplayDefenceSurvives` | `ConsumedIsFinal` |
| `Settlement_proofs` | `Invariance`, `ConfirmedSeedIsCurrent` | `IInv`, `CustodyIsCurrent` |
| | `DriftIsTolerated`, `DriftBeyondIsRefused` | both edges of the tolerance, for every window and N |
| | `KeepsPromise` | the three parties refine `PaymentPromise` |
| `TransportField_proofs` | lemmas | round trip and agreement of the decoders, for slots and identifiers of any length |
| `Handover_proofs` | `HandoverIInv`, `CodesStayUnique` | `IInv`; no code twice for a material that was never forked |
| | `ReuseWasExported` | a code is charged twice only if its material left in a backup |
| | `ForkedReuseIsBounded` | even then, no more often than receivers were created |
| | `AcceptancesAreCharged` | even forked, a code is accepted no more often than charged |
| | `EachReceiverKeepsALedger` | the receipts of each receiver refine `ReceiptLedger`, behind every facade |
| | `BackupsAlwaysRestore`, `OnlyExportsRestore` | both decoders read every export, and nothing else |
| | `CounterOnlyAdvances`, `NoReservationIsLost` | `CounterNeverGoesBack`; a T a counter has passed has its receipt, or a backup brought the counter there |
| | `FieldsRoundTrip`, `FieldDecodersCoincide` | the field of every registered SeedId |
| `Release_proofs` | `ReleaseIInv`, `ReleasesAreCoherent` | `IInv`; manifest, signature and packages fit what is published, whatever the merge lost |
| | `ShippedBindings`, `PrivateKeysPair` | libraries and the bindings that were checked of one version; key pairs |
| | `BuildAllLeavesFreshFiles` | an old file in `dist/` after build-all means a reported failure, or for a C header a skipped cbindgen |
| | `VerifiedWasPublished`, `GenuineWasVerified` | what the self-check accepts, and what it cannot refuse |

Assumptions, and where they come from.  Finding 2 is why uniqueness needs either
`StoreDiesWithCounter` (a store that outlives the process is taken without restarts)
or, for SQLite with the quantized counter, `SafeRestart`: the process comes back in a
later quantum than that of every receipt it retains, and the clock is not set back from
then on.  A host that waits one window before it serves again meets it.  For SQLite with
the sequential counter no such condition exists, because it restarts at T = 1, short of
restore_last_issued (`Handover`).  `SerialCalls` is there because of finding 1.
`BootReadsCounter`, because of finding 3, is a condition on a state, that every boot so far
has read its counter: `[](BootReadsCounter => P)` speaks of every device up to its first
failed read.  The other theorems of both modules take none of these.  `SeqAssumption` says that two sectors wear out before a u32 sequence number
wraps (100,000 cycles against 2^32).  `ClockAssumption` and `TimeAssumption` say that
the quanta of the explored instants fit the counter.  The theorems on releases assume
`NoneIsNoFile`, that the absent value is no file, signature or manifest (a record
that TLC's model value differs from by definition), and the two on the self-check assume
`DigestsAreOrdered`, that digests have places in an order, so that a manifest has a
first line.  `BeforeAssumption` says that earlier releases came out of the same workflow.  `IdsAssumption` says that identifiers pass SeedId::new.

The inductive invariants.  That no code is issued twice is not inductive: a
charge holds a T and a seed between two steps, while others register, restart and
charge.  `ReceiverSdk!IInv` adds that every material still in use (`Live`: in the
store or in a call) has had only counters up to `lastIssued` combined with it, that a
pending save is of a key and a code not yet used and unlike any other pending one,
and that material never moves to another SeedId.  Over restarts the counter is no
witness of what was issued, so `DInv` (in `ReceiverSdk_proofs`) puts the clock in its
place: a receipt's T is either covered by `lastIssued` or, after a restart, by a
quantum that is over, so that no thread can still read it.  In `FlashStore` the invariant
is that a save in progress never touches the newest valid record, whose sequence
number is the higher one, and that sequence numbers are paid for by erase cycles.
In `EmbeddedDevice` it has two parts: `SaveInv` ties what main() holds to what its
saves have written, whatever a boot has read, and the rest of `IInv` ties the persisted
counter to what was derived.  In `Settlement` it says that each instrument carries the C1 of a
receipt still retained, that a payment's quanta are those of its own time, and
which POSTs may still be under way for which seed; the two drift theorems then
follow by arithmetic on the quotients of the two times.

In `Handover` a material that was not forked has one holder (`SoleHolder`), whose
counter has passed every T charged with it (`HolderCovers`), so its next T is new;
a restore either keeps this or marks the material.  `AcceptancesAreCharged` holds
for forked material too and needs a counting argument: for each code, the receivers
that hold an open receipt of it and the Valids it obtained are together no more
than its charges (`OpenCovered`), and accepting moves one from the first to the second.

The bounds on the damage count.  In the receiver and the firmware the charges of
a code are no more than the restarts (failed reads) so far, and one more only if the
counter has passed its T since the last of them; a T is reserved only when it was not
passed.  In `Handover` the same is counted per receiver created: a receiver that may still
charge a T has not charged it yet.  For acceptances, an open receipt has a whole round
of callers left (`AcceptancesCovered`): a save adds a round, a presentation finds
the receipt open, a mark uses one up and closes it, and the key of a receipt being fixed
by its code (`CodesFiled`) no other receipt stays open.

In `Release` the invariant follows the workflow: after which step which file is in
`dist/` unless the merge lost it and what it was made of, and what that makes of a
published release.  `ShippedBindings` adds (`BindingsInv`) that, once check-bindings passed
on the commit, the libraries, the framework and the AAR in `dist/` are of its version,
and, if the check generated the header anew, so are the C headers, the NuGet package and
the manifest's lines of headers, all but what was lost.  `BuildAllLeavesFreshFiles` rests
on what each command has settled (`BuildInv`): one that neither is to run nor failed has
left its files there and fresh, but for a header it copied after a skipped cbindgen; the
Linux build comes first and, unless it skipped, refreshes the header the others copy; and
packing the framework after a failed build-ios counts as failed.

That a refused charge uses up no T needs the seed to be fetched, and unsealed, before
the counter is moved: `NoReservationIsLost` follows from the order in `ChargeOrder` and
from every `Charge` leaving its receipt.

A refinement is proved step by step: each action of the concrete module, under
the invariant before and after it, is a step of the abstract one or leaves its
variables alone.  What the abstract specification promises is proved once, in
`ReceiptLedger_proofs`, and comes back to the receiver through the refinement.

Only model-checked: `EveryCallReturns`, because liveness under fairness is beyond the
prover; what it needs of the code, a step to take and a measure that each step lowers,
is proved (`NeverStuck`, `CallsOnlyAdvance`).  Every other property of a passing run
is stated by a theorem.  Each strengthened invariant was an invariant of a TLC run
before it was proved; `IInv` of every component still is.

## 6. What the models leave out

- Cryptography: HMAC, AEAD, Argon2id, SHA-256 and signatures are ideal; comparison in
  constant time and erasure of secrets are not behaviours of a state machine.
- Decay of a flash record while a save is under way, and the firmware over cells that
  decay: it would go on from an older T.
- The receiver in `Settlement` has one thread and does not restart; `ReceiverSdk` has
  both.  The owner of a SeedId registers one request at a time.
- Malformed instruments, payloads and identifiers at the banks: refused with no state
  change.
- In `Handover`, two threads on one handle (`ReceiverSdk` has the threads), the panic
  guard and null or non-UTF-8 arguments of the C interface.  The T of a backup is that of
  the last charge that returned, because the counter has no getter.
- In `Release`: build-wasm and fuzz-replay, which no release reads; registries,
  provenance and the choice between pre-release and final; hash, sign and the packages
  run by hand outside the workflow; bindings, commits and keys other than between
  workflow runs; a manifest that does not parse.  A cut-short file differs from every
  whole one, and how much of it is left is not told.  verify-hermetic is only the gate it
  is in the workflow.
- mTLS and OCSP, which configure external TLS and X.509 code and keep no state of
  their own; QR symbols; generated bindings and samples.

## 7. Plan

Done: receiver, flash, firmware, settlement, then backups, facades and the transport
field, then the release and the self-check; every property of a passing run but the
liveness one is proved, and so is how far each of findings 1 to 3 can go.  Left:
1. The firmware over `DecayingCell`: which of its guarantees survive one decayed record.
2. Restarts of the receiver, and a second thread, in `Settlement`.
3. The receivers of `Handover` over the interleaved facade of `ReceiverSdk`, so that a
   backup may be collected in the middle of a charge.
4. What `DurableCell` and `PaymentPromise` promise, stated as for `ReceiptLedger`.
