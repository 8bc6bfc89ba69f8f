------------------------------ MODULE Release ------------------------------
(***************************************************************************)
(* From source to release: the tasks of cargo xtask on a maintainer's      *)
(* machine, whose dist/ and target/ live from one build to the next, and   *)
(* the release workflow, which runs the same tasks on fresh checkouts and  *)
(* hashes, signs and publishes what they leave in dist/.                   *)
(*                                                                         *)
(* A source tree is its version, the version each committed binding was    *)
(* generated from, and the key in trusted_keys/release.pub.  A file is the *)
(* path it is written to and what it was made of.  Editing, committing and *)
(* setting the CI secret are the maintainer's; any command may fail, and   *)
(* two things fail without stopping anything: cbindgen, and the copying of *)
(* a job's files into the release.                                         *)
(***************************************************************************)
EXTENDS Integers, FiniteSets, SequencesExt, Integrity

CONSTANTS
  Toolchains,   \* for each maintainer's machine, the builds it can do
  Abis,         \* directories of the Android ABIs, in build order
  PublicKeys,   \* release keys that may be generated
  FirstKey,     \* the key the repository starts with
  MaxVersion,   \* versions of the source explored
  MaxReleases,  \* releases explored
  Before,       \* releases published before
  Digests,      \* what release builds may be stamped with: None, Malformed or
                \* the digest of an earlier build
  Fragile,      \* files whose copying into a release may fail
  HostNames     \* names of the file a host checks

ASSUME BoundsAssumption == MaxVersion \in Nat \ {0} /\ MaxReleases \in Nat
ASSUME ToolchainsAssumption ==
  "ci" \notin DOMAIN Toolchains
  /\ \A m \in DOMAIN Toolchains : Toolchains[m] \subseteq {"linux", "windows", "android", "ios"}
ASSUME AbisAssumption == Abis \in Seq(STRING)
ASSUME KeyAssumption == FirstKey \in PublicKeys /\ None \notin PublicKeys

VARIABLES
  site,        \* where the commands run (fixed)
  stamp,       \* MCPIX_EXPECTED_SHA256 of release builds, None when unset (fixed)
  work,        \* the maintainer's checkout
  head,        \* the last commit
  checked,     \* history: the bindings check-bindings generated anew on the
               \* last commit and found as they were committed
  privFile,    \* key in target/release-key.priv
  keyHalf,     \* history: release.pub was written and its private half was not
  secret,      \* key in MCPIX_SIGN_PRIVKEY_HEX
  compiled,    \* target/: what each release build last produced
  dist,        \* dist/: content of each path, None when there is no file
  todo,        \* maintainer: commands still to run
  failed,      \* history: commands whose last run failed, or took what a failed
               \* one had left
  skipped,     \* history: commands that last copied mcpix.h after cbindgen was skipped
  builtAt,     \* history: version build-all started from, 0 when it returned an error
  run,         \* the workflow run, None when there is none; its lost is a
               \* history of the files the merge did not copy
  published    \* releases published

Sites == {"ci"} \cup DOMAIN Toolchains
Can(command) == site # "ci" /\ command \in Toolchains[site]

source == <<site, stamp, work, head, checked, privFile, keyHalf, secret>>
local == <<compiled, todo, failed, skipped, builtAt>>
vars == <<site, stamp, work, head, checked, privFile, keyHalf, secret,
          compiled, dist, todo, failed, skipped, builtAt, run, published>>

-----------------------------------------------------------------------------
(***************************************************************************)
(* Paths and contents                                                      *)
(***************************************************************************)
Linux == <<<<"linux-x86_64", "libmcpix_uniffi.so">>,
           <<"linux-x86_64", "libmcpix_ffi.so">>, <<"linux-x86_64", "mcpix.h">>>>
Windows == <<<<"windows-x86_64", "mcpix_uniffi.dll">>,
             <<"windows-x86_64", "mcpix_ffi.dll">>, <<"windows-x86_64", "mcpix.h">>>>
JniLibs == [i \in DOMAIN Abis |-> <<Abis[i], "libmcpix_uniffi.so">>]
Android == Append(JniLibs, <<"android/include", "mcpix.h">>)
Xcframework == <<<<"ios", "libmcpix_uniffi-sim.a">>,
                 <<"ios/Headers", "mcpix_uniffiFFI.h">>,
                 <<"ios", "MCPixSDKFFI.xcframework">>>>
Aar == <<"android", "mcpix-aar.aar">>
Nupkg == <<"nuget", "MCPix.Sdk.nupkg">>
Sums == <<"", "SHA256SUMS">>
Sig == <<"", "SHA256SUMS.sig">>

Built == ToSet(Linux) \cup ToSet(Windows) \cup ToSet(Android) \cup ToSet(Xcframework)
Paths == Built \cup {Aar, Nupkg, Sums, Sig}
Libraries == {p \in Built : p[2] \in {"libmcpix_uniffi.so", "libmcpix_ffi.so",
                                      "mcpix_uniffi.dll", "mcpix_ffi.dll"}}

ASSUME FragileAssumption == Fragile \subseteq Built
\* A host checks a shared library or a program: nothing else ends in its name.
ASSUME HostNamesAssumption ==
  \A n \in HostNames, p \in Paths : EndsWith(p, n) => p \in Libraries

\* What each release build leaves in target/
Units == {"linux", "windows", "android",
          "aarch64-apple-ios", "aarch64-apple-ios-sim", "x86_64-apple-ios"}
IosTargets == <<"aarch64-apple-ios", "aarch64-apple-ios-sim", "x86_64-apple-ios">>

Library(p, unit) ==
  [of |-> p, ver |-> unit.ver, key |-> unit.key, stamped |-> unit.stamped, parts |-> {}]
Binding(name, ver) ==
  [of |-> <<"", name>>, ver |-> ver, key |-> None, stamped |-> None, parts |-> {}]
Package(name, ver, parts) ==
  [of |-> <<"", name>>, ver |-> ver, key |-> None, stamped |-> None, parts |-> parts]

\* A file that was cut short
Broken(content) == [content EXCEPT !.ver = -1]

Unit(tree, digest) == [ver |-> tree.ver, key |-> tree.key, stamped |-> digest]

\* build.rs of mcpix-ffi writes bindings/c/include/mcpix.h; when cbindgen fails
\* it prints a warning, the header stays as it was and the build goes on.
Refreshed(tree) == [tree EXCEPT !.c = tree.ver]
WithHeader(tree) == {tree, Refreshed(tree)}

\* The files of a build: libraries from target/, the C header from the tree.
Outputs(files, unit, tree) ==
  [p \in ToSet(files) |->
     IF p[2] = "mcpix.h" THEN Binding("mcpix.h", tree.c) ELSE Library(p, unit)]

\* dist/ after the first n files were copied.
Copied(d, files, n, outputs) ==
  [p \in Paths |-> IF \E i \in 1..n : files[i] = p THEN outputs[p] ELSE d[p]]

XcOutputs(units, tree) ==
  LET slices == {Library(<<"target", t>>, units[t]) : t \in ToSet(IosTargets)}
      sims == {l \in slices : l.of[2] # "aarch64-apple-ios"}
  IN [p \in ToSet(Xcframework) |->
        IF p[2] = "mcpix_uniffiFFI.h" THEN Binding(p[2], tree.swift)
        ELSE IF p[2] = "MCPixSDKFFI.xcframework" THEN Package(p[2], tree.swift, slices)
        ELSE Package(p[2], 0, sims)]

\* The old framework is removed before the new one is made.
PackagedXcframework(d, n, units, tree) ==
  LET copied == Copied(d, Xcframework, n, XcOutputs(units, tree))
  IN IF n = 2 THEN [copied EXCEPT ![Xcframework[3]] = None] ELSE copied

Present(d, ps) == {p \in ps : d[p] # None}

PackagedAar(d, tree) ==
  [d EXCEPT ![Aar] =
     Package("aar", tree.kotlin, {d[p] : p \in Present(d, ToSet(JniLibs))})]

PackagedNuget(d, tree) ==
  [d EXCEPT ![Nupkg] =
     Package("nupkg", tree.c, {d[p] : p \in Present(d, {Linux[2], Windows[2]})})]

\* Every file but the manifest itself; an older signature is listed too.
HashArtifacts(d) ==
  [d EXCEPT ![Sums] = {<<d[p], p>> : p \in Present(d, Paths \ {Sums})}]

SignArtifacts(d, key) ==
  [d EXCEPT ![Sig] = [key |-> key, over |-> d[Sums], whole |-> TRUE]]

-----------------------------------------------------------------------------
Empty == [p \in Paths |-> None]

Init ==
  /\ site \in Sites
  /\ stamp \in IF site = "ci" THEN Digests ELSE {None}   \* no task depends on it
  /\ work = [ver |-> 1, c |-> 1, swift |-> 1, kotlin |-> 1, key |-> FirstKey]
  /\ head = work
  /\ checked = {}
  /\ privFile = None
  /\ keyHalf = FALSE
  /\ secret \in {None, FirstKey}
  /\ compiled = [u \in Units |-> None]
  /\ dist = Empty
  /\ todo = <<>>
  /\ failed = {}
  /\ skipped = {}
  /\ builtAt = 0
  /\ run = None
  /\ published = Before

-----------------------------------------------------------------------------
(***************************************************************************)
(* The source tree                                                         *)
(***************************************************************************)
Edit ==
  /\ work.ver < MaxVersion
  /\ work' = [work EXCEPT !.ver = @ + 1]
  /\ UNCHANGED <<site, stamp, head, checked, privFile, keyHalf, secret, local,
                 dist, run, published>>

\* After the build of mcpix-ffi, Swift and then Kotlin; a failure stops it.
Generated(tree, n) ==
  [tree EXCEPT !.swift = IF n >= 1 THEN tree.ver ELSE @,
               !.kotlin = IF n >= 2 THEN tree.ver ELSE @]

GenBindings(n) ==
  /\ \E tree \in WithHeader(work) : work' = Generated(tree, n)
  /\ work' # work
  /\ UNCHANGED <<site, stamp, head, checked, privFile, keyHalf, secret, local,
                 dist, run, published>>

Commit ==
  /\ head # work
  /\ head' = work
  /\ checked' = {}
  /\ UNCHANGED <<site, stamp, work, privFile, keyHalf, secret, local,
                 dist, run, published>>

Languages == {"c", "swift", "kotlin"}

\* Mutant: git is asked without regenerating.
CheckBindingsStale ==
  /\ checked' = Languages
  /\ UNCHANGED <<site, stamp, work, head, privFile, keyHalf, secret, local,
                 dist, run, published>>

\* CI on the commit: regenerate, then ask git for a difference.  A header that
\* cbindgen was skipped for makes none.
CheckBindings ==
  /\ \/ Generated(Refreshed(head), 2) = head /\ checked' = Languages
     \/ Generated(head, 2) = head /\ checked' = Languages \ {"c"}
  /\ UNCHANGED <<site, stamp, work, head, privFile, keyHalf, secret, local,
                 dist, run, published>>

\* A rotation begins by deleting release.pub.
DeleteKey ==
  /\ work.key # None
  /\ work' = [work EXCEPT !.key = None]
  /\ UNCHANGED <<site, stamp, head, checked, privFile, keyHalf, secret, local,
                 dist, run, published>>

\* Mutant: the private half is written before release.pub is looked for.
GenReleaseKeyEarly(k) ==
  /\ k \notin {FirstKey, secret, head.key, work.key}
  /\ privFile' = k
  /\ work' = IF work.key = None THEN [work EXCEPT !.key = k] ELSE work
  /\ keyHalf' = IF work.key = None THEN FALSE ELSE keyHalf
  /\ UNCHANGED <<site, stamp, head, checked, secret, local, dist, run, published>>

GenReleaseKey(k) ==
  /\ k \notin {FirstKey, secret, head.key, privFile}    \* a key never seen before
  /\ work.key = None
  /\ work' = [work EXCEPT !.key = k]
  /\ \/ privFile' = k /\ keyHalf' = FALSE
     \/ privFile' = privFile /\ keyHalf' = TRUE
  /\ UNCHANGED <<site, stamp, head, checked, secret, local, dist, run, published>>

SetSecret ==
  /\ privFile \notin {None, secret}
  /\ secret' = privFile
  /\ UNCHANGED <<site, stamp, work, head, checked, privFile, keyHalf, local,
                 dist, run, published>>

-----------------------------------------------------------------------------
(***************************************************************************)
(* Builds on a maintainer's machine.  failed holds the commands that       *)
(* reported an error or, inside build-all, a warning; skipped those that   *)
(* went on after the warning of a skipped cbindgen, and the Android build  *)
(* when it took the header such a Linux build had left.                    *)
(***************************************************************************)
\* build-all; the Apple targets only on macOS
AllCommands ==
  <<"linux", "windows", "android">>
     \o IF Can("ios") THEN <<"ios", "xcframework">> ELSE <<>>

Start(commands) ==
  /\ site # "ci"
  /\ todo = <<>>
  /\ todo' = commands
  /\ UNCHANGED <<source, compiled, dist, failed, skipped, run, published>>

BuildAll == Start(AllCommands) /\ builtAt' = work.ver
Command == \E c \in ToSet(AllCommands) : Start(<<c>>) /\ UNCHANGED builtAt

OldHeader(command) ==
  \/ command \in {"linux", "windows"} /\ work'.c # work'.ver
  \/ command = "android" /\ "linux" \in skipped

\* The head of todo ends; only the Linux build stops build-all when it fails.
Done(ok) ==
  /\ failed' = IF ok /\ (Head(todo) = "xcframework" => "ios" \notin failed)
               THEN failed \ {Head(todo)} ELSE failed \cup {Head(todo)}
  /\ skipped' = IF ~ ok THEN skipped
                ELSE IF OldHeader(Head(todo)) THEN skipped \cup {Head(todo)}
                ELSE skipped \ {Head(todo)}
  /\ IF Head(todo) = "linux" /\ ~ ok
     THEN todo' = <<>> /\ builtAt' = 0
     ELSE todo' = Tail(todo) /\ UNCHANGED builtAt
  /\ UNCHANGED <<site, stamp, head, checked, privFile, keyHalf, secret, run, published>>

\* cargo build fails: target/ stays as it was, the C header may be new.
CargoFails(command, trees) ==
  /\ todo # <<>> /\ Head(todo) = command
  /\ work' \in trees
  /\ UNCHANGED <<compiled, dist>>
  /\ Done(FALSE)

\* cargo build succeeds, and the first n of the files are copied.
CargoBuilds(command, trees, files, n) ==
  /\ todo # <<>> /\ Head(todo) = command
  /\ Can(command)
  /\ work' \in trees
  /\ compiled' = [compiled EXCEPT ![command] = Unit(work, stamp)]
  /\ dist' = Copied(dist, files, n, Outputs(files, Unit(work, stamp), work'))
  /\ Done(n = Len(files))

\* Mutant: the status of cargo is not looked at, and an old library is copied.
BuildLinuxUnchecked ==
  \/ CargoBuilds("linux", WithHeader(work), Linux, 3)
  \/ /\ todo # <<>> /\ Head(todo) = "linux"
     /\ compiled["linux"] # None
     /\ dist' = Copied(dist, Linux, 3, Outputs(Linux, compiled["linux"], work))
     /\ UNCHANGED <<work, compiled>>
     /\ Done(TRUE)

BuildLinux ==
  \/ CargoFails("linux", WithHeader(work))
  \/ \E n \in 0..Len(Linux) : CargoBuilds("linux", WithHeader(work), Linux, n)

BuildWindows ==
  \/ CargoFails("windows", WithHeader(work))
  \/ \E n \in 0..Len(Windows) : CargoBuilds("windows", WithHeader(work), Windows, n)

\* cargo ndk builds no mcpix-ffi, and writes into dist/ itself.
BuildAndroid ==
  \/ CargoFails("android", {work})
  \/ \E n \in 0..Len(Android) : CargoBuilds("android", {work}, Android, n)

\* One target after the other; a failure leaves the later ones as they were.
BuildIos ==
  /\ todo # <<>> /\ Head(todo) = "ios"
  /\ \E n \in 0..Len(IosTargets) :
       /\ compiled' = [u \in Units |->
            IF \E i \in 1..n : IosTargets[i] = u THEN Unit(work, stamp) ELSE compiled[u]]
       /\ Done(n = Len(IosTargets))
  /\ UNCHANGED <<work, dist>>

\* Packages whatever target/ holds.
PackageXcframework ==
  /\ todo # <<>> /\ Head(todo) = "xcframework"
  /\ UNCHANGED <<work, compiled>>
  /\ IF \E t \in ToSet(IosTargets) : compiled[t] = None
     THEN UNCHANGED dist /\ Done(FALSE)
     ELSE \E n \in 0..Len(Xcframework) :
            /\ dist' = PackagedXcframework(dist, n, compiled, work)
            /\ Done(n = Len(Xcframework))

-----------------------------------------------------------------------------
(***************************************************************************)
(* The release workflow, on the commit it was started for                  *)
(***************************************************************************)
RunModes == {"dry-run", "release"}
Jobs == {"linux-windows", "android", "ios"}

\* Mutants: the files the packaging adds are not hashed; the last hash is not
\* signed.
PipelineHashOnce == <<"hash", "sign", "aar", "nuget", "publish">>
PipelineSignFirst == <<"hash", "sign", "aar", "nuget", "sign", "hash", "publish">>

Pipeline == <<"hash", "sign", "aar", "nuget", "hash", "sign", "publish">>

\* Job mode-gate: what will be published must be signed.
ModeGate(mode) ==
  /\ site = "ci"
  /\ run = None
  /\ Cardinality(published) < MaxReleases
  /\ mode = "release" => secret # None
  /\ run' = [commit |-> head, checked |-> checked, mode |-> mode, gate |-> FALSE,
             jobs |-> {}, lost |-> {}, next |-> 1]
  /\ dist' = Empty
  /\ UNCHANGED <<source, local, published>>

RunFails ==
  /\ run # None
  /\ run' = None
  /\ dist' = Empty
  /\ UNCHANGED <<source, local, published>>

\* verify-hermetic builds the commit once more, offline.
HermeticGate ==
  /\ run # None /\ ~ run.gate
  /\ run' = [run EXCEPT !.gate = TRUE]
  /\ UNCHANGED <<source, local, dist, published>>

FilesOf(j) ==
  IF j = "linux-windows" THEN ToSet(Linux) \cup ToSet(Windows)
  ELSE IF j = "android" THEN ToSet(Android) ELSE ToSet(Xcframework)

\* dist/ on the runner of a job; linux and windows are the checkout after the
\* builds of the first job.
JobOutputs(j, tree, digest, linux, windows) ==
  LET unit == Unit(tree, digest)
      units == [u \in Units |-> unit]
  IN IF j = "linux-windows"
     THEN Copied(Copied(Empty, Linux, 3, Outputs(Linux, unit, linux)),
                 Windows, 3, Outputs(Windows, unit, windows))
     ELSE IF j = "android"
     THEN Copied(Empty, Android, Len(Android), Outputs(Android, unit, tree))
     ELSE PackagedXcframework(Empty, 3, units, tree)

\* cp -r || true: what could not be copied is left out, or cut short.
Merged(d, files, lost, cut) ==
  [p \in Paths |-> IF p \in cut THEN Broken(files[p])
                   ELSE IF p \in lost \/ files[p] = None THEN d[p] ELSE files[p]]

\* A job builds on its own runner; its files are merged into dist/.
Job(j) ==
  /\ run # None /\ run.gate
  /\ j \notin run.jobs
  /\ \E lost \in SUBSET (FilesOf(j) \cap Fragile) : \E cut \in SUBSET lost :
       \E linux \in WithHeader(run.commit) : \E windows \in WithHeader(linux) :
         /\ run' = [run EXCEPT !.jobs = @ \cup {j}, !.lost = @ \cup lost]
         /\ dist' = Merged(dist, JobOutputs(j, run.commit, stamp, linux, windows), lost, cut)
  /\ UNCHANGED <<source, local, published>>

InPackage(step) ==
  /\ run # None /\ run.jobs = Jobs
  /\ run.next <= Len(Pipeline) /\ Pipeline[run.next] = step

Advance == run' = [run EXCEPT !.next = @ + 1]

\* Mutant: the directories of dist/ are not walked.
HashFlat ==
  /\ InPackage("hash")
  /\ dist' = [dist EXCEPT ![Sums] =
       {line \in HashArtifacts(dist)[Sums] : line[2][1] = ""}]
  /\ Advance
  /\ UNCHANGED <<source, local, published>>

Hash ==
  /\ InPackage("hash")
  /\ dist' = HashArtifacts(dist)
  /\ Advance
  /\ UNCHANGED <<source, local, published>>

Sign ==
  /\ InPackage("sign")
  /\ \/ secret # None /\ dist' = SignArtifacts(dist, secret)
     \/ run.mode = "dry-run" /\ UNCHANGED dist
  /\ Advance
  /\ UNCHANGED <<source, local, published>>

PackageAar ==
  /\ InPackage("aar")
  /\ dist' = PackagedAar(dist, run.commit)
  /\ Advance
  /\ UNCHANGED <<source, local, published>>

PackageNuget ==
  /\ InPackage("nuget")
  /\ dist' = PackagedNuget(dist, run.commit)
  /\ Advance
  /\ UNCHANGED <<source, local, published>>

\* The patterns of the github release step: the C headers and what the framework
\* was made from stay behind.
Attached == Libraries \cup {Xcframework[3], Aar, Nupkg, Sums, Sig}
Payload == Attached \ {Sums, Sig}

ReleaseOf(commit, ok, lost, d) ==
  [commit |-> commit, checked |-> ok, lost |-> lost, sums |-> d[Sums], sig |-> d[Sig],
   files |-> [p \in Payload |-> d[p]]]

\* A pattern that no file matches is no error.
Publish ==
  /\ InPackage("publish")
  /\ published' = IF run.mode = "dry-run" THEN published
                  ELSE published \cup {ReleaseOf(run.commit, run.checked, run.lost, dist)}
  /\ run' = None
  /\ dist' = Empty
  /\ UNCHANGED <<source, local>>

-----------------------------------------------------------------------------
\* A run reads its commit and the secret only: what else the maintainer does
\* while it is under way is explored before and after it, and nothing is after
\* the last of the MaxReleases.
Maintain ==
  /\ Cardinality(published) < MaxReleases
  /\ \/ Edit /\ run = None
     \/ site = "ci" /\ run = None
          /\ \/ \E n \in 0..2 : GenBindings(n)
             \/ Commit
             \/ CheckBindings
             \/ DeleteKey
             \/ \E k \in PublicKeys : GenReleaseKey(k)
     \/ SetSecret

Build ==
  \/ BuildAll \/ Command
  \/ BuildLinux \/ BuildWindows \/ BuildAndroid \/ BuildIos \/ PackageXcframework

Workflow ==
  \/ \E mode \in RunModes : ModeGate(mode)
  \/ RunFails \/ HermeticGate
  \/ \E j \in Jobs : Job(j)
  \/ Hash \/ Sign \/ PackageAar \/ PackageNuget \/ Publish

Next == Maintain \/ Build \/ Workflow

Spec == Init /\ [][Next]_vars

-----------------------------------------------------------------------------
(***************************************************************************)
(* Properties                                                              *)
(***************************************************************************)
Versions == 1..MaxVersion
Tree == [ver: Versions, c: Versions, swift: Versions, kotlin: Versions,
         key: PublicKeys \cup {None}]

Tasks == {"linux", "windows", "android", "ios", "xcframework"}

TypeOK ==
  /\ site \in Sites /\ stamp \in Digests \cup {None}
  /\ work \in Tree /\ head \in Tree /\ checked \subseteq Languages
  /\ {privFile, secret} \subseteq PublicKeys \cup {None}
  /\ keyHalf \in BOOLEAN
  /\ compiled \in [Units -> [ver: Versions, key: PublicKeys \cup {None},
                          stamped: Digests \cup {None}] \cup {None}]
  /\ dist = [p \in Paths |-> dist[p]]
  /\ todo \in Seq(Tasks) /\ failed \subseteq Tasks /\ skipped \subseteq Tasks
  /\ builtAt \in 0..MaxVersion
  /\ run \in {None} \cup [commit: Tree, checked: SUBSET Languages, mode: RunModes,
                          gate: BOOLEAN, jobs: SUBSET Jobs, lost: SUBSET Built,
                          next: 1..Len(Pipeline)]
  /\ \A r \in published : r.commit \in Tree /\ DOMAIN r.files = Payload

\* After a build-all that returned without an error, every file in dist/ is
\* there and made from the source as it was then or later, except where a
\* command has reported a failure since, and except the C header where the
\* warning was that cbindgen was skipped; the framework is of no older source
\* than the slices it packs (main.rs:358-369: failures are only warnings).
Commands(p) ==
  IF p \in ToSet(Linux) THEN {"linux"}
  ELSE IF p \in ToSet(Windows) THEN {"windows"}
  ELSE IF p \in ToSet(Android) THEN {"android"}
  ELSE {"ios", "xcframework"}

StaleOnlyIfReported ==
  builtAt > 0 /\ todo = <<>> =>
    \A p \in Built :
      Commands(p) \subseteq ToSet(AllCommands) \ failed =>
        /\ dist[p] # None
        /\ p \in Libraries => dist[p].ver >= builtAt
        /\ p[2] = "mcpix.h" /\ Commands(p) \cap skipped = {} => dist[p].ver >= builtAt
        /\ \A slice \in dist[p].parts : slice.ver >= builtAt

\* What is published holds together, whatever the merge has lost: the manifest
\* lists every file published beside it and its signature, with the digest of
\* what was published, and no other file under such a path; the signature is of
\* that manifest; the AAR and the NuGet package carry the very libraries
\* published beside them; and no file is missing that the merge did not lose
\* (release.yml:257-304).
ReleaseIsCoherent ==
  \A r \in published :
    /\ r.sig # None /\ VerifySignature(r.sums, r.sig, r.sig.key)
    /\ \A p \in Payload : {line[1] : line \in {l \in r.sums : l[2] = p}} = {r.files[p]} \ {None}
    /\ r.files[Aar].parts = {r.files[p] : p \in Present(r.files, ToSet(JniLibs))}
    /\ r.files[Nupkg].parts = {r.files[p] : p \in Present(r.files, {Linux[2], Windows[2]})}
    /\ \A p \in Payload \ r.lost : r.files[p] # None

\* A release of a commit check-bindings passed on ships Swift and Kotlin bindings
\* of the version of its libraries, and C headers too unless cbindgen was skipped
\* in that check, though Android and iOS take the committed ones.
ShippedBindingsMatch ==
  \A r \in published :
    /\ r.checked # {} =>
         \A p \in (Libraries \cup {Aar, Xcframework[3]}) \ r.lost :
           r.files[p].ver = r.commit.ver
    /\ "c" \in r.checked =>
         /\ r.files[Nupkg].ver = r.commit.ver
         /\ \A line \in r.sums : line[2][2] = "mcpix.h" /\ line[2] \notin r.lost
                                  => line[1].ver = r.commit.ver

\* A private key on disk is the one release.pub was made with, unless
\* gen-release-key stopped between the two files.
PrivateKeyPairs ==
  privFile # None /\ work.key # None /\ ~ keyHalf => privFile = work.key

(***************************************************************************)
(* The inductive invariant: what each step of a run leaves in dist/ for    *)
(* the later ones, and what that makes of a published release.             *)
(***************************************************************************)
Carries(package, files, ps) ==
  package # None /\ package.parts = {files[p] : p \in Present(files, ps)}

Packaged(files) ==
  /\ run.next >= 4 => Carries(files[Aar], files, ToSet(JniLibs))
  /\ run.next >= 5 => Carries(files[Nupkg], files, {Linux[2], Windows[2]})

\* files, of which those of the payload count, and the lines of their manifest
Lists(sums, files) ==
  /\ \A p \in Payload : files[p] # None => <<files[p], p>> \in sums
  /\ \A line \in sums : \E p \in Paths :
       line = <<line[1], p>> /\ (p \in Payload => line[1] # None /\ line[1] = files[p])

Covers(sig, sums) == sig # None /\ sig = [key |-> sig.key, over |-> sums, whole |-> TRUE]

RunInv ==
  run # None =>
    /\ site = "ci"
    /\ run.next > 1 => run.jobs = Jobs
    /\ run.mode = "release" => secret # None
    /\ \A j \in run.jobs : \A p \in FilesOf(j) \ run.lost : dist[p] # None
    /\ Packaged(dist)
    /\ run.next >= 6 => Lists(dist[Sums], dist)
    /\ run.next = 7 /\ run.mode = "release" => Covers(dist[Sig], dist[Sums])

Coherent(r) ==
  /\ Covers(r.sig, r.sums)
  /\ Lists(r.sums, r.files)
  /\ \A p \in Payload \ r.lost : r.files[p] # None
  /\ Carries(r.files[Aar], r.files, ToSet(JniLibs))
  /\ Carries(r.files[Nupkg], r.files, {Linux[2], Windows[2]})

\* What was published before came out of the same workflow; whether it was
\* checked is not known.
ASSUME BeforeAssumption ==
  \A r \in Before :
    r.commit \in Tree /\ DOMAIN r.files = Payload /\ r.checked = {} /\ Coherent(r)

ReleasesInv == \A r \in published : Coherent(r)

IInv ==
  /\ TypeOK
  /\ todo # <<>> => site # "ci"
  /\ PrivateKeyPairs
  /\ RunInv
  /\ ReleasesInv

\* What a host may hold, under any name: a library of some release, one of an
\* earlier build or another file; beside it or one directory up, manifest and
\* signature of any release, altered or cut.
Shipped == {r.files[p] : r \in published, p \in Libraries} \ {None}
Contents == Shipped \cup (Digests \ {None, Malformed}) \cup {Binding("app", 0)}
Files == HostNames \X Contents
Checkers == {[key |-> c.key, stamped |-> c.stamped] : c \in Shipped}
Nothing == [sums |-> None, sig |-> None]
Complete(r) == [sums |-> r.sums, sig |-> r.sig]
Manifests(f) ==
  {None} \cup {r.sums : r \in published}
         \cup {r.sums \cup {<<f[2], <<"", f[1]>>>>} : r \in published}
Signatures ==
  {None} \cup {r.sig : r \in published}
         \cup {[r.sig EXCEPT !.whole = FALSE] : r \in published}

\* Verified is only answered for a file published in a release signed with the
\* key the checking library trusts, under a path that ends in the file's name,
\* however libraries, manifests and signatures of several releases were mixed;
\* or, where no manifest is found, for the earlier build whose digest the
\* library was stamped with (signature.rs:30-46, integrity_runtime.rs:64-66).
VerifiedIsPublished ==
  run = None =>   \* published is as it was while a run is under way
  \A f \in Files :
  LET hosts == [sums: Manifests(f), sig: Signatures]
      parents == {Nothing} \cup {Complete(r) : r \in published}
  IN \A code \in Checkers, beside \in hosts, above \in parents :
       VerifySelf(code, f[2], f[1], beside, above) = "Verified" =>
         \/ \E r \in published, p \in Libraries :
              r.files[p] = f[2] /\ EndsWith(p, f[1]) /\ r.sig.key = code.key
         \/ LocateSums(beside, above) = None /\ f[2] = code.stamped

Genuine(r, p) ==
  /\ r.files[p] # None /\ r.files[p].stamped # None
  /\ r.files[p].key = r.sig.key

Accepts(r, p) ==
  LET lib == r.files[p]
  IN /\ VerifySelf(lib, lib, p[2], Complete(r), Nothing) = "Verified"
     /\ VerifySelf(lib, lib, p[2], Nothing, Complete(r)) = "Verified"

\* A stamped library of a release signed with the key it embeds is accepted in
\* both layouts when no other path of the release ends in its name.
GenuineIsVerified ==
  \A r \in published, p \in Libraries :
    Genuine(r, p) /\ LinesFor(r.sums, p[2]) = {<<r.files[p], p>>} => Accepts(r, p)

\* The documentation's claim, without that condition (signature.rs:86-89).
GenuineLibraryVerified ==
  \A r \in published, p \in Libraries : Genuine(r, p) => Accepts(r, p)

=============================================================================
