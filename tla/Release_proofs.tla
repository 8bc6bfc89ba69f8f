--------------------------- MODULE Release_proofs ---------------------------
(***************************************************************************)
(* Proofs about Release, for any tool chains, ABIs, keys and bounds.       *)
(***************************************************************************)
EXTENDS Release, WellFoundedInduction, SequenceTheorems, TLAPS

\* None is the absent value: neither a file nor a signature, nor the two files of
\* a manifest, nor a manifest with a line.
NoneIsNoFile ==
  /\ \A of, ver, key, stamped, parts :
       None # [of |-> of, ver |-> ver, key |-> key, stamped |-> stamped, parts |-> parts]
  /\ \A key, over : None # [key |-> key, over |-> over, whole |-> TRUE]
  /\ \A sums, sig : None # [sums |-> sums, sig |-> sig]
  /\ \A line : line \notin None

-----------------------------------------------------------------------------
(***************************************************************************)
(* Files and paths                                                         *)
(***************************************************************************)
LEMMA JniLibsIsSeq == \E S : JniLibs \in Seq(S) /\ DOMAIN JniLibs = DOMAIN Abis
<1> DEFINE S == {<<Abis[i], "libmcpix_uniffi.so">> : i \in DOMAIN Abis}
<1>1. Len(Abis) \in Nat /\ DOMAIN Abis = 1..Len(Abis)
  BY AbisAssumption DEF AbisAssumption
<1>2. JniLibs \in [1..Len(Abis) -> S] /\ DOMAIN JniLibs = DOMAIN Abis
  BY <1>1 DEF JniLibs
<1>3. JniLibs \in Seq(S)
  BY <1>1, <1>2, SeqDef
<1> QED BY <1>2, <1>3

LEMMA FileLists ==
  /\ \A x : x \in ToSet(Linux) <=> x \in {Linux[1], Linux[2], Linux[3]}
  /\ \A x : x \in ToSet(Windows) <=> x \in {Windows[1], Windows[2], Windows[3]}
  /\ \A x : x \in ToSet(Xcframework) <=> x \in {Xcframework[1], Xcframework[2], Xcframework[3]}
  /\ \A x : x \in ToSet(JniLibs) <=> \E i \in DOMAIN Abis : x = <<Abis[i], "libmcpix_uniffi.so">>
  /\ ToSet(Android) = ToSet(JniLibs) \cup {<<"android/include", "mcpix.h">>}
<1>1. DOMAIN Linux = {1, 2, 3} /\ DOMAIN Windows = {1, 2, 3} /\ DOMAIN Xcframework = {1, 2, 3}
  BY DEF Linux, Windows, Xcframework
<1>2. PICK S : JniLibs \in Seq(S) /\ DOMAIN JniLibs = DOMAIN Abis
  BY JniLibsIsSeq
<1>3. ToSet(Android) = ToSet(JniLibs) \cup {<<"android/include", "mcpix.h">>}
  <2> DEFINE n == Len(JniLibs)
             h == <<"android/include", "mcpix.h">>
  <2>1. n \in Nat /\ DOMAIN JniLibs = 1..n
    BY <1>2
  <2>2. /\ DOMAIN Android = 1..(n + 1)
        /\ \A i \in 1..n : Android[i] = JniLibs[i]
        /\ Android[n + 1] = h
    <3>1. JniLibs \in Seq(S \cup {h}) /\ h \in S \cup {h}
      BY <1>2, SeqMonotonic
    <3>2. Append(JniLibs, h) \in Seq(S \cup {h}) /\ Len(Append(JniLibs, h)) = n + 1
      BY <3>1, AppendProperties
    <3> HIDE DEF h
    <3> QED BY <2>1, <3>1, <3>2, AppendProperties, LenProperties DEF Android, h
  <2> HIDE DEF n, h
  <2>3. ASSUME NEW x PROVE x \in ToSet(Android) <=> x \in ToSet(JniLibs) \/ x = h
    <3>1. ASSUME NEW i \in 1..(n + 1) PROVE i \in 1..n \/ i = n + 1
      BY <2>1
    <3>2. 1..n \subseteq 1..(n + 1) /\ n + 1 \in 1..(n + 1)
      BY <2>1
    <3> QED BY <2>1, <2>2, <3>1, <3>2, Zenon DEF ToSet
  <2> QED BY <2>3 DEF h
<1>4. \A x : x \in ToSet(JniLibs) <=> \E i \in DOMAIN Abis : x = <<Abis[i], "libmcpix_uniffi.so">>
  BY <1>2 DEF ToSet, JniLibs
<1> QED BY <1>1, <1>3, <1>4 DEF ToSet

LEMMA AndroidIsSeq == Android \in Seq(ToSet(Android))
<1>1. PICK S : JniLibs \in Seq(S)
  BY JniLibsIsSeq
<1> DEFINE h == <<"android/include", "mcpix.h">>
<1>2. Append(JniLibs, h) \in Seq(S \cup {h})
  BY <1>1, SeqMonotonic, AppendProperties
<1>3. DOMAIN Android = 1..Len(Android) /\ Len(Android) \in Nat
  BY <1>2, LenProperties DEF Android
<1>4. Android \in [1..Len(Android) -> ToSet(Android)]
  BY <1>2, <1>3, LenProperties DEF Android, ToSet
<1> QED BY <1>3, <1>4, SeqDef

\* What each kind of path is called.
LEMMA Names ==
  /\ \A p \in ToSet(Linux) : p[2] \in {"libmcpix_uniffi.so", "libmcpix_ffi.so", "mcpix.h"}
  /\ \A p \in ToSet(Windows) : p[2] \in {"mcpix_uniffi.dll", "mcpix_ffi.dll", "mcpix.h"}
  /\ \A p \in ToSet(JniLibs) : p[2] = "libmcpix_uniffi.so"
  /\ \A p \in ToSet(Xcframework) :
       p[2] \in {"libmcpix_uniffi-sim.a", "mcpix_uniffiFFI.h", "MCPixSDKFFI.xcframework"}
  /\ Aar[2] = "mcpix-aar.aar" /\ Nupkg[2] = "MCPix.Sdk.nupkg"
  /\ Sums[2] = "SHA256SUMS" /\ Sig[2] = "SHA256SUMS.sig"
BY FileLists DEF Linux, Windows, Xcframework, Aar, Nupkg, Sums, Sig

LEMMA Apart ==
  /\ Built \cap {Aar, Nupkg, Sums, Sig} = {}
  /\ Aar # Nupkg /\ Aar # Sums /\ Aar # Sig /\ Nupkg # Sums /\ Nupkg # Sig /\ Sums # Sig
  /\ Payload \subseteq Paths \ {Sums, Sig}
  /\ \A p \in Payload : p \in Libraries \/ p \in {Xcframework[3], Aar, Nupkg}
  /\ ToSet(JniLibs) \subseteq Libraries /\ {Linux[2], Windows[2]} \subseteq Libraries
  /\ Libraries \subseteq Built /\ Xcframework[3] \in Built
  /\ {Xcframework[3], Aar, Nupkg} \subseteq Payload /\ Libraries \subseteq Payload
<1>1. Built \cap {Aar, Nupkg, Sums, Sig} = {}
  <2> SUFFICES ASSUME NEW p \in Built PROVE p \notin {Aar, Nupkg, Sums, Sig}
    OBVIOUS
  <2>1. p[2] \in {"libmcpix_uniffi.so", "libmcpix_ffi.so", "mcpix.h", "mcpix_uniffi.dll",
                  "mcpix_ffi.dll", "libmcpix_uniffi-sim.a", "mcpix_uniffiFFI.h",
                  "MCPixSDKFFI.xcframework"}
    <3>1. CASE p = <<"android/include", "mcpix.h">> BY <3>1
    <3> QED BY <3>1, Names, FileLists DEF Built
  <2> QED BY <2>1, Names
<1>2. Aar # Nupkg /\ Aar # Sums /\ Aar # Sig /\ Nupkg # Sums /\ Nupkg # Sig /\ Sums # Sig
  BY Names
<1>3. ToSet(JniLibs) \subseteq Libraries
  BY FileLists, Names DEF Libraries, Built
<1>4. {Linux[2], Windows[2]} \subseteq Libraries
  <2>1. Linux[2] \in ToSet(Linux) /\ Windows[2] \in ToSet(Windows)
    BY FileLists
  <2>2. Linux[2][2] = "libmcpix_ffi.so" /\ Windows[2][2] = "mcpix_ffi.dll"
    BY DEF Linux, Windows
  <2> QED BY <2>1, <2>2 DEF Libraries, Built
<1>5. Libraries \subseteq Built /\ Xcframework[3] \in Built
  BY FileLists DEF Libraries, Built
<1> HIDE DEF Built, Libraries, Aar, Nupkg, Sums, Sig, Xcframework
<1>6. Payload = Libraries \cup {Xcframework[3], Aar, Nupkg}
  BY <1>1, <1>2, <1>5 DEF Payload, Attached
<1>7. Payload \subseteq Paths \ {Sums, Sig}
  BY <1>1, <1>2, <1>5, <1>6 DEF Paths
<1> QED BY <1>1, <1>2, <1>3, <1>4, <1>5, <1>6, <1>7

-----------------------------------------------------------------------------
(***************************************************************************)
(* The source tree and the maintainer's builds                             *)
(***************************************************************************)
Builds == [ver: Versions, key: PublicKeys \cup {None}, stamped: Digests \cup {None}]

LEMMA Trees ==
  ASSUME NEW tree \in Tree
  PROVE  /\ \A n : Generated(tree, n) \in Tree /\ Generated(tree, n).key = tree.key
         /\ \A t \in WithHeader(tree) : t \in Tree /\ t.key = tree.key
         /\ \A digest \in Digests \cup {None} : Unit(tree, digest) \in Builds
         /\ tree.ver \in Versions
BY DEF Tree, Generated, WithHeader, Refreshed, Unit, Builds

\* No step of a maintainer disturbs a run or what is published.
LEMMA Undisturbed ==
  ASSUME IInv, UNCHANGED <<site, dist, run, published>>, secret' = secret \/ secret' # None
  PROVE  RunInv' /\ ReleasesInv'
BY DEF IInv, RunInv, ReleasesInv, Packaged, Carries, Present, Lists, Covers

LEMMA MaintainIInv == IInv /\ Maintain => IInv'
<1> SUFFICES ASSUME IInv, Maintain PROVE IInv'
  OBVIOUS
<1>1. /\ UNCHANGED <<site, stamp, dist, run, published, local>>
      /\ secret' = secret \/ secret' # None
  BY DEF Maintain, Edit, GenBindings, Commit, CheckBindings, DeleteKey, GenReleaseKey, SetSecret
<1>2. RunInv' /\ ReleasesInv'
  BY <1>1, Undisturbed
<1>3. /\ work' \in Tree /\ head' \in Tree /\ checked' \subseteq Languages /\ keyHalf' \in BOOLEAN
      /\ {privFile', secret'} \subseteq PublicKeys \cup {None} /\ PrivateKeyPairs'
  <2> USE DEF IInv, TypeOK, PrivateKeyPairs
  <2>1. CASE Edit
    <3>0. work.ver + 1 \in Versions
      BY <2>1, Trees, BoundsAssumption DEF Edit, Versions, BoundsAssumption
    <3>1. work' \in Tree /\ work'.key = work.key
      <4> HIDE DEF PrivateKeyPairs
      <4> QED BY <2>1, <3>0 DEF Edit, Tree
    <3> QED BY <2>1, <3>1 DEF Edit
  <2>2. CASE \E n \in 0..2 : GenBindings(n)
    <3>1. PICK n \in 0..2, tree \in WithHeader(work) : GenBindings(n) /\ work' = Generated(tree, n)
      BY <2>2 DEF GenBindings
    <3>2. tree \in Tree /\ tree.key = work.key
      BY Trees
    <3>3. work' \in Tree /\ work'.key = work.key
      BY <3>1, <3>2, Trees
    <3> QED BY <3>1, <3>3 DEF GenBindings
  <2>3. CASE Commit
    BY <2>3 DEF Commit
  <2>4. CASE CheckBindings
    BY <2>4 DEF CheckBindings, Languages
  <2>5. CASE DeleteKey
    BY <2>5 DEF DeleteKey, Tree
  <2>6. CASE \E k \in PublicKeys : GenReleaseKey(k)
    <3>1. PICK k \in PublicKeys : GenReleaseKey(k)
      BY <2>6
    <3>2. work' \in Tree /\ work'.key = k
      <4> HIDE DEF PrivateKeyPairs
      <4> QED BY <3>1 DEF GenReleaseKey, Tree
    <3>3. CASE privFile' = k /\ keyHalf' = FALSE
      BY <3>1, <3>2, <3>3 DEF GenReleaseKey
    <3>4. CASE privFile' = privFile /\ keyHalf' = TRUE
      BY <3>1, <3>2, <3>4 DEF GenReleaseKey
    <3> QED BY <3>1, <3>3, <3>4 DEF GenReleaseKey
  <2>7. CASE SetSecret
    BY <2>7 DEF SetSecret
  <2> QED BY <2>1, <2>2, <2>3, <2>4, <2>5, <2>6, <2>7 DEF Maintain
<1> QED BY <1>1, <1>2, <1>3 DEF IInv, TypeOK, local

LEMMA TaskLists ==
  /\ AllCommands \in Seq(Tasks)
  /\ \A c \in ToSet(AllCommands) : <<c>> \in Seq(Tasks)
<1>1. <<"linux", "windows", "android">> \in Seq(Tasks)
  BY DEF Tasks
<1>2. <<"ios", "xcframework">> \in Seq(Tasks) /\ <<>> \in Seq(Tasks)
  BY DEF Tasks
<1>3. AllCommands \in Seq(Tasks)
  BY <1>1, <1>2, ConcatProperties DEF AllCommands
<1>4. \A c \in ToSet(AllCommands) : c \in Tasks
  BY <1>3, LenProperties DEF ToSet
<1> QED BY <1>3, <1>4

LEMMA StartIInv ==
  ASSUME IInv, NEW c \in Seq(Tasks), Start(c), builtAt' \in 0..MaxVersion
  PROVE  IInv'
<1>1. RunInv' /\ ReleasesInv'
  BY Undisturbed DEF Start, source
<1> QED BY <1>1 DEF Start, source, IInv, TypeOK, PrivateKeyPairs

LEMMA DoneIInv ==
  ASSUME IInv, NEW ok \in BOOLEAN, todo # <<>>, Done(ok),
         work' \in Tree, work'.key = work.key, dist' = [p \in Paths |-> dist'[p]],
         compiled' \in [Units -> Builds \cup {None}]
  PROVE  IInv'
<1>1. site # "ci" /\ run = None
  BY DEF IInv, RunInv
<1>2. UNCHANGED <<site, stamp, head, checked, privFile, keyHalf, secret, run, published>>
  BY DEF Done
<1>3. RunInv' /\ ReleasesInv'
  BY <1>1, <1>2 DEF IInv, RunInv, ReleasesInv
<1>4. /\ todo' \in Seq(Tasks) /\ failed' \subseteq Tasks /\ skipped' \subseteq Tasks
      /\ builtAt' \in 0..MaxVersion
  <2>1. Head(todo) \in Tasks /\ Tail(todo) \in Seq(Tasks)
    BY HeadTailProperties DEF IInv, TypeOK
  <2>2. todo' \in {Tail(todo), <<>>} /\ builtAt' \in {builtAt, 0}
    BY DEF Done
  <2>3. failed' \in {failed \ {Head(todo)}, failed \cup {Head(todo)}}
    <3>1. CASE ok /\ (Head(todo) = "xcframework" => "ios" \notin failed)
      BY <3>1, Zenon DEF Done
    <3>2. CASE ~ (ok /\ (Head(todo) = "xcframework" => "ios" \notin failed))
      BY <3>2, Zenon DEF Done
    <3> QED BY <3>1, <3>2
  <2>4. <<>> \in Seq(Tasks) /\ 0 \in 0..MaxVersion
    BY BoundsAssumption DEF BoundsAssumption
  <2>5. skipped' \in {skipped, skipped \cup {Head(todo)}, skipped \ {Head(todo)}}
    BY Zenon DEF Done
  <2> QED BY <2>1, <2>2, <2>3, <2>4, <2>5 DEF IInv, TypeOK
<1> QED BY <1>1, <1>2, <1>3, <1>4 DEF IInv, TypeOK, PrivateKeyPairs, Builds

LEMMA CopiedShape ==
  ASSUME NEW d, NEW files, NEW n, NEW out
  PROVE  Copied(d, files, n, out) = [p \in Paths |-> Copied(d, files, n, out)[p]]
BY DEF Copied

LEMMA CargoIInv ==
  ASSUME IInv, NEW c \in {"linux", "windows", "android"}, NEW trees,
         \A tree \in trees : tree \in Tree /\ tree.key = work.key, NEW files, NEW n,
         CargoFails(c, trees) \/ CargoBuilds(c, trees, files, n)
  PROVE  IInv'
<1>0. work' \in Tree /\ work'.key = work.key
  BY DEF CargoFails, CargoBuilds
<1>1. CASE CargoFails(c, trees)
  BY <1>0, <1>1, DoneIInv DEF CargoFails, IInv, TypeOK, Builds
<1>2. CASE CargoBuilds(c, trees, files, n)
  <2>1. compiled' \in [Units -> Builds \cup {None}]
    BY <1>2, Trees DEF CargoBuilds, IInv, TypeOK, Units, Builds
  <2>2. dist' = [p \in Paths |-> dist'[p]]
    BY <1>2, CopiedShape DEF CargoBuilds
  <2>3. (n = Len(files)) \in BOOLEAN
    OBVIOUS
  <2> QED BY <1>0, <1>2, <2>1, <2>2, <2>3, DoneIInv DEF CargoBuilds
<1> QED BY <1>1, <1>2

LEMMA BuildIInv == IInv /\ Build => IInv'
<1> SUFFICES ASSUME IInv, Build PROVE IInv'
  OBVIOUS
<1>0. work \in Tree /\ \A tree \in WithHeader(work) : tree \in Tree /\ tree.key = work.key
  BY Trees DEF IInv, TypeOK
<1>1. CASE BuildAll
  <2>1. work.ver \in 0..MaxVersion
    BY <1>0, Trees DEF Versions
  <2> QED BY <1>1, <2>1, TaskLists, StartIInv DEF BuildAll
<1>2. CASE Command
  <2>1. builtAt \in 0..MaxVersion
    BY DEF IInv, TypeOK
  <2> QED BY <1>2, <2>1, TaskLists, StartIInv DEF Command
<1>3. CASE BuildLinux
  BY <1>0, <1>3, CargoIInv DEF BuildLinux
<1>4. CASE BuildWindows
  BY <1>0, <1>4, CargoIInv DEF BuildWindows
<1>5. CASE BuildAndroid
  <2>1. \A tree \in {work} : tree \in Tree /\ tree.key = work.key
    BY <1>0
  <2> QED BY <1>5, <2>1, CargoIInv DEF BuildAndroid
<1>6. CASE BuildIos
  <2>1. PICK n \in 0..Len(IosTargets) :
          /\ compiled' = [u \in Units |->
               IF \E i \in 1..n : IosTargets[i] = u THEN Unit(work, stamp) ELSE compiled[u]]
          /\ Done(n = Len(IosTargets))
    BY <1>6 DEF BuildIos
  <2>2. compiled' \in [Units -> Builds \cup {None}]
    BY <1>0, <2>1, Trees DEF IInv, TypeOK, Builds
  <2>3. (n = Len(IosTargets)) \in BOOLEAN
    OBVIOUS
  <2> QED BY <1>0, <1>6, <2>1, <2>2, <2>3, DoneIInv DEF BuildIos, IInv, TypeOK, Builds
<1>7. CASE PackageXcframework
  <2>1. \E ok \in BOOLEAN : Done(ok)
    BY <1>7 DEF PackageXcframework
  <2>2. dist' = [p \in Paths |-> dist'[p]]
    BY <1>7 DEF PackageXcframework, PackagedXcframework, Copied, IInv, TypeOK
  <2> QED BY <1>0, <1>7, <2>1, <2>2, DoneIInv DEF PackageXcframework, IInv, TypeOK, Builds
<1> QED BY <1>1, <1>2, <1>3, <1>4, <1>5, <1>6, <1>7 DEF Build

-----------------------------------------------------------------------------
(***************************************************************************)
(* The release workflow                                                    *)
(***************************************************************************)
RunType ==
  [commit: Tree, checked: SUBSET Languages, mode: RunModes, gate: BOOLEAN,
   jobs: SUBSET Jobs, lost: SUBSET Built, next: 1..Len(Pipeline)]

LEMMA Shapes ==
  ASSUME IInv, run # None
  PROVE  /\ run \in RunType
         /\ run.next \in 1..7 /\ Len(Pipeline) = 7
         /\ site = "ci" /\ todo = <<>>
BY DEF IInv, TypeOK, RunInv, Pipeline, RunType

\* Copying leaves no file missing that was there or that is copied.
LEMMA CopiedThere ==
  ASSUME NEW d, NEW files, NEW n, NEW out, 1..n = DOMAIN files, NEW p \in Paths,
         p \in ToSet(files) \/ d[p] # None,
         p \in ToSet(files) => out[p] # None
  PROVE  Copied(d, files, n, out)[p] # None
BY DEF Copied, ToSet

LEMMA OutputsThere ==
  ASSUME NoneIsNoFile, NEW files, NEW unit, NEW tree, NEW p \in ToSet(files)
  PROVE  Outputs(files, unit, tree)[p] # None
BY DEF NoneIsNoFile, Outputs, Library, Binding

LEMMA XcOutputsThere ==
  ASSUME NoneIsNoFile, NEW units, NEW tree, NEW p \in ToSet(Xcframework)
  PROVE  XcOutputs(units, tree)[p] # None
BY DEF NoneIsNoFile, XcOutputs, Package, Binding

\* A job leaves all its files in dist/ on its runner.
LEMMA JobThere ==
  ASSUME NoneIsNoFile, NEW j \in Jobs, NEW tree, NEW digest, NEW linux, NEW windows,
         NEW p \in FilesOf(j)
  PROVE  JobOutputs(j, tree, digest, linux, windows)[p] # None
<1> DEFINE unit == Unit(tree, digest)
<1>0. /\ 1..3 = DOMAIN Linux /\ 1..3 = DOMAIN Windows /\ 1..3 = DOMAIN Xcframework
      /\ p \in Paths
  BY DEF Linux, Windows, Xcframework, FilesOf, Paths, Built
<1>1. CASE j = "linux-windows"
  <2> DEFINE d1 == Copied(Empty, Linux, 3, Outputs(Linux, unit, linux))
  <2>1. p \in ToSet(Linux) => d1[p] # None
    BY <1>0, CopiedThere, OutputsThere
  <2>2. p \in ToSet(Windows) \/ d1[p] # None
          => Copied(d1, Windows, 3, Outputs(Windows, unit, windows))[p] # None
    <3> HIDE DEF d1
    <3> QED BY <1>0, CopiedThere, OutputsThere
  <2> QED BY <1>1, <2>1, <2>2 DEF JobOutputs, FilesOf
<1>2. CASE j = "android"
  <2>1. 1..Len(Android) = DOMAIN Android
    <3>1. Android \in Seq(ToSet(Android))
      BY AndroidIsSeq
    <3> QED BY <3>1, LenProperties
  <2> QED BY <1>0, <1>2, <2>1, CopiedThere, OutputsThere DEF JobOutputs, FilesOf
<1>3. CASE j = "ios"
  <2> DEFINE out == XcOutputs([u \in Units |-> unit], tree)
  <2>1. JobOutputs(j, tree, digest, linux, windows) = Copied(Empty, Xcframework, 3, out)
    BY <1>3 DEF JobOutputs, PackagedXcframework
  <2>2. p \in ToSet(Xcframework)
    BY <1>3 DEF FilesOf
  <2>3. out[p] # None
    BY <2>2, XcOutputsThere
  <2> HIDE DEF out
  <2> QED BY <1>0, <2>1, <2>2, <2>3, CopiedThere
<1> QED BY <1>1, <1>2, <1>3 DEF Jobs

\* Merging keeps what was there, and brings what was not lost.
LEMMA MergedThere ==
  ASSUME NEW d, NEW files, NEW lost, NEW cut \in SUBSET lost, NEW p \in Paths \ cut,
         d[p] # None \/ (files[p] # None /\ p \notin lost)
  PROVE  Merged(d, files, lost, cut)[p] # None
BY DEF Merged

\* Once every job has run, every built file is there that the merge did not lose.
LEMMA BuiltThere ==
  ASSUME IInv, run # None, run.jobs = Jobs, NEW p \in Built \ run.lost
  PROVE  dist[p] # None
<1>1. \E j \in Jobs : p \in FilesOf(j)
  BY DEF Built, Jobs, FilesOf
<1> QED BY <1>1 DEF IInv, RunInv

LEMMA ModeGateIInv == IInv /\ (\E mode \in RunModes : ModeGate(mode)) => IInv'
<1> SUFFICES ASSUME IInv, NEW mode \in RunModes, ModeGate(mode) PROVE IInv'
  OBVIOUS
<1>1. /\ run' = [commit |-> head, checked |-> checked, mode |-> mode, gate |-> FALSE,
                 jobs |-> {}, lost |-> {}, next |-> 1]
      /\ dist' = Empty /\ UNCHANGED <<source, local, published>> /\ site = "ci"
      /\ mode = "release" => secret # None
  BY DEF ModeGate
<1>2. TypeOK'
  <2>1. 1 \in 1..Len(Pipeline)
    BY DEF Pipeline
  <2> QED BY <1>1, <2>1 DEF IInv, TypeOK, Empty, source, local
<1>3. RunInv'
  BY <1>1 DEF RunInv, Packaged, source, local
<1> QED BY <1>1, <1>2, <1>3 DEF IInv, PrivateKeyPairs, ReleasesInv, source, local

LEMMA RunFailsIInv == IInv /\ RunFails => IInv'
BY DEF IInv, RunFails, TypeOK, Empty, RunInv, ReleasesInv, PrivateKeyPairs, source, local

LEMMA GateIInv == IInv /\ HermeticGate => IInv'
<1> SUFFICES ASSUME IInv, HermeticGate PROVE IInv'
  OBVIOUS
<1>1. /\ run \in RunType
      /\ UNCHANGED <<source, local, dist, published>>
      /\ run # None /\ run' = [run EXCEPT !.gate = TRUE]
  BY Shapes DEF HermeticGate
<1>2. /\ run' \in RunType
      /\ run'.next = run.next /\ run'.jobs = run.jobs /\ run'.mode = run.mode
      /\ run'.lost = run.lost
  BY <1>1 DEF RunType
<1>3. RunInv'
  BY <1>1, <1>2 DEF IInv, RunInv, Packaged, Carries, Present, Lists, Covers, source, local
<1> QED BY <1>1, <1>2, <1>3 DEF RunType, IInv, TypeOK, PrivateKeyPairs, ReleasesInv, source, local

LEMMA JobIInv ==
  ASSUME NoneIsNoFile
  PROVE  IInv /\ (\E j \in Jobs : Job(j)) => IInv'
<1> SUFFICES ASSUME IInv, NEW j \in Jobs, Job(j) PROVE IInv'
  OBVIOUS
<1>01. PICK lost \in SUBSET (FilesOf(j) \cap Fragile) :
         \E cut \in SUBSET lost, linux \in WithHeader(run.commit) :
           \E windows \in WithHeader(linux) :
             /\ run' = [run EXCEPT !.jobs = @ \cup {j}, !.lost = @ \cup lost]
             /\ dist' = Merged(dist, JobOutputs(j, run.commit, stamp, linux, windows), lost, cut)
  BY Zenon DEF Job
<1>0. PICK cut, linux, windows :
        /\ cut \in SUBSET lost
        /\ run' = [run EXCEPT !.jobs = @ \cup {j}, !.lost = @ \cup lost]
        /\ dist' = Merged(dist, JobOutputs(j, run.commit, stamp, linux, windows), lost, cut)
  BY <1>01
<1>1. /\ run \in RunType /\ run # None /\ run.next \in 1..7 /\ j \notin run.jobs
      /\ UNCHANGED <<source, local, published>> /\ lost \subseteq Built
  BY Shapes, FragileAssumption DEF Job, FragileAssumption
<1>2. /\ run' \in RunType
      /\ run'.next = run.next /\ run'.jobs = run.jobs \cup {j} /\ run'.mode = run.mode
      /\ run'.lost = run.lost \cup lost
  BY <1>0, <1>1 DEF RunType
<1>3. run.next = 1
  BY <1>1 DEF IInv, RunInv
<1>4. \A k \in run'.jobs : \A p \in FilesOf(k) \ run'.lost : dist'[p] # None
  <2> SUFFICES ASSUME NEW k \in run'.jobs, NEW p \in FilesOf(k) \ run'.lost
               PROVE  dist'[p] # None
    OBVIOUS
  <2> DEFINE files == JobOutputs(j, run.commit, stamp, linux, windows)
  <2>1. p \in Paths \ cut /\ p \notin lost
    BY <1>0, <1>2 DEF FilesOf, Paths, Built
  <2>2. dist[p] # None \/ files[p] # None
    <3>1. CASE k = j BY <3>1, JobThere
    <3>2. CASE k \in run.jobs BY <1>1, <1>2, <3>2 DEF IInv, RunInv
    <3> QED BY <1>2, <3>1, <3>2
  <2>3. cut \in SUBSET lost /\ dist' = Merged(dist, files, lost, cut)
    BY <1>0
  <2> HIDE DEF files
  <2> QED BY <2>1, <2>2, <2>3, MergedThere
<1>5. dist' = [p \in Paths |-> dist'[p]]
  BY <1>0 DEF Merged
<1>6. RunInv'
  <2>1. run'.next = 1 /\ site' = "ci" /\ (run'.mode = "release" => secret' # None)
    BY <1>1, <1>2, <1>3 DEF IInv, RunInv, source, local
  <2> QED BY <1>4, <2>1 DEF RunInv, Packaged
<1> QED BY <1>1, <1>2, <1>5, <1>6
        DEF RunType, IInv, TypeOK, PrivateKeyPairs, ReleasesInv, source, local

\* What the steps of the package job have in common.
LEMMA AdvanceIInv ==
  ASSUME IInv, NEW step, InPackage(step), step # "publish", Advance,
         UNCHANGED <<source, local, published>>,
         dist' = [p \in Paths |-> dist'[p]], \A p \in Built : dist'[p] = dist[p],
         Packaged(dist)',
         run.next >= 5 => Lists(dist'[Sums], dist'),
         run.next = 6 /\ run.mode = "release" => Covers(dist'[Sig], dist'[Sums])
  PROVE  IInv'
<1>1. /\ run \in RunType
      /\ run # None /\ run.next \in 1..7 /\ run.jobs = Jobs /\ Len(Pipeline) = 7
  BY Shapes DEF InPackage
<1>2. run.next # 7
  BY <1>1 DEF InPackage, Pipeline
<1>3. /\ run' \in RunType
      /\ run'.next = run.next + 1 /\ run'.jobs = Jobs /\ run'.mode = run.mode
      /\ run'.lost = run.lost
  BY <1>1, <1>2 DEF Advance, RunType
<1>4. \A k \in run'.jobs : \A p \in FilesOf(k) \ run'.lost : dist'[p] # None
  <2>1. \A k \in Jobs : FilesOf(k) \subseteq Built
    BY DEF FilesOf, Built
  <2> QED BY <1>1, <1>3, <2>1, BuiltThere
<1>5. RunInv'
  <2>1. site' = "ci" /\ (run'.mode = "release" => secret' # None)
    BY <1>1, <1>3 DEF IInv, RunInv, source, local
  <2>2. run'.next >= 6 => run.next >= 5
    BY <1>1, <1>3
  <2>3. run'.next = 7 => run.next = 6
    BY <1>1, <1>3
  <2> QED BY <1>3, <1>4, <2>1, <2>2, <2>3 DEF RunInv
<1> QED BY <1>1, <1>3, <1>5 DEF RunType, IInv, TypeOK, PrivateKeyPairs, ReleasesInv, source, local

\* Where in the pipeline each step stands.
LEMMA Positions ==
  ASSUME IInv, NEW step, InPackage(step)
  PROVE  /\ run.next \in 1..7 /\ run # None /\ run.jobs = Jobs
         /\ step = "hash" => run.next \in {1, 5}
         /\ step = "sign" => run.next \in {2, 6}
         /\ step = "aar" => run.next = 3
         /\ step = "nuget" => run.next = 4
         /\ step = "publish" => run.next = 7
BY Shapes DEF InPackage, Pipeline

\* Writing one file that no build produces.
LEMMA WrittenShape ==
  ASSUME IInv, NEW q \in {Aar, Nupkg, Sums, Sig}, NEW content,
         dist' = [dist EXCEPT ![q] = content]
  PROVE  /\ dist' = [p \in Paths |-> dist'[p]]
         /\ dist'[q] = content
         /\ \A p \in Paths : p # q => dist'[p] = dist[p]
         /\ \A p \in Built : dist'[p] = dist[p]
<1>1. dist = [p \in Paths |-> dist[p]] /\ q \in Paths
  BY DEF IInv, TypeOK, Paths
<1> HIDE DEF Paths, Built
<1>2. \A p \in Built : p \in Paths /\ p # q
  BY Apart, Zenon DEF Paths
<1>3. dist' = [p \in Paths |-> IF p = q THEN content ELSE dist[p]]
  BY <1>1
<1> QED BY <1>1, <1>2, <1>3

\* A package carries the same libraries as long as they do not change.
LEMMA StillCarries ==
  ASSUME NEW package, NEW files, NEW others, NEW ps, \A p \in ps : others[p] = files[p],
         Carries(package, files, ps)
  PROVE  Carries(package, others, ps)
<1>1. {others[p] : p \in Present(others, ps)} = {files[p] : p \in Present(files, ps)}
  BY DEF Present
<1> QED BY <1>1 DEF Carries

LEMMA StillPackaged ==
  ASSUME IInv, run # None, run.next \in {1, 2, 5, 6}, Advance,
         \A p \in Payload : dist'[p] = dist[p]
  PROVE  Packaged(dist)'
<1>1. Packaged(dist) /\ run'.next = run.next + 1
  BY Shapes DEF IInv, RunInv, Advance, RunType
<1>2. /\ dist'[Aar] = dist[Aar] /\ dist'[Nupkg] = dist[Nupkg]
      /\ \A p \in ToSet(JniLibs) : dist'[p] = dist[p]
      /\ \A p \in {Linux[2], Windows[2]} : dist'[p] = dist[p]
  BY Apart
<1>3. ASSUME Carries(dist[Aar], dist, ToSet(JniLibs))
      PROVE  Carries(dist'[Aar], dist', ToSet(JniLibs))
  BY <1>2, <1>3, StillCarries
<1>4. ASSUME Carries(dist[Nupkg], dist, {Linux[2], Windows[2]})
      PROVE  Carries(dist'[Nupkg], dist', {Linux[2], Windows[2]})
  BY <1>2, <1>4, StillCarries
<1> QED BY <1>1, <1>3, <1>4 DEF Packaged

LEMMA HashIInv == IInv /\ Hash => IInv'
<1> SUFFICES ASSUME IInv, Hash PROVE IInv'
  OBVIOUS
<1> DEFINE lines == {<<dist[p], p>> : p \in Present(dist, Paths \ {Sums})}
<1>1. /\ dist' = [dist EXCEPT ![Sums] = lines] /\ InPackage("hash") /\ Advance
      /\ UNCHANGED <<source, local, published>>
  BY DEF Hash, HashArtifacts
<1>2. run.next \in {1, 5} /\ run # None /\ run.jobs = Jobs
  BY <1>1, Positions
<1>3. /\ dist' = [p \in Paths |-> dist'[p]] /\ dist'[Sums] = lines
      /\ \A p \in Paths : p # Sums => dist'[p] = dist[p]
      /\ \A p \in Built : dist'[p] = dist[p]
  <2> HIDE DEF lines
  <2> QED BY <1>1, WrittenShape
<1>4. \A p \in Payload : p \in Paths \ {Sums} /\ dist'[p] = dist[p]
  BY <1>3, Apart
<1>5. run.next >= 5 => Lists(dist'[Sums], dist')
  <2>1. \A p \in Payload : dist'[p] # None => <<dist'[p], p>> \in lines
    BY <1>4 DEF Present
  <2>2. \A line \in lines : \E p \in Paths :
          line = <<line[1], p>> /\ (p \in Payload => line[1] # None /\ line[1] = dist'[p])
    <3> SUFFICES ASSUME NEW p \in Paths \ {Sums}, dist[p] # None
                 PROVE  p \in Payload => dist[p] = dist'[p]
      BY DEF Present
    <3> QED BY <1>4
  <2> QED BY <1>3, <2>1, <2>2 DEF Lists
<1>6. Packaged(dist)'
  BY <1>1, <1>2, <1>4, StillPackaged
<1>7. run.next # 6
  BY <1>2
<1> HIDE DEF lines
<1> QED BY <1>1, <1>3, <1>5, <1>6, <1>7, AdvanceIInv

LEMMA SignIInv ==
  ASSUME NoneIsNoFile
  PROVE  IInv /\ Sign => IInv'
<1> SUFFICES ASSUME IInv, Sign PROVE IInv'
  OBVIOUS
<1> DEFINE sig == [key |-> secret, over |-> dist[Sums], whole |-> TRUE]
<1>1. /\ InPackage("sign") /\ Advance /\ UNCHANGED <<source, local, published>>
      /\ \/ secret # None /\ dist' = [dist EXCEPT ![Sig] = sig]
         \/ run.mode = "dry-run" /\ dist' = dist
  BY DEF Sign, SignArtifacts
<1>2. run.next \in {2, 6} /\ run # None /\ run.jobs = Jobs
  BY <1>1, Positions
<1>3. /\ dist' = [p \in Paths |-> dist'[p]]
      /\ \A p \in Paths : p # Sig => dist'[p] = dist[p]
      /\ \A p \in Built : dist'[p] = dist[p]
      /\ dist'[Sig] = sig \/ run.mode = "dry-run"
  <2>1. CASE dist' = [dist EXCEPT ![Sig] = sig]
    <3> HIDE DEF sig
    <3> QED BY <2>1, WrittenShape
  <2>2. CASE run.mode = "dry-run" /\ dist' = dist
    BY <2>2 DEF IInv, TypeOK
  <2> QED BY <1>1, <2>1, <2>2
<1>4. /\ \A p \in Payload : p \in Paths /\ dist'[p] = dist[p]
      /\ dist'[Sums] = dist[Sums]
  BY <1>3, Apart DEF Paths
<1>5. Packaged(dist)'
  BY <1>1, <1>2, <1>4, StillPackaged
<1>6. run.next >= 5 => Lists(dist'[Sums], dist')
  <2> SUFFICES ASSUME run.next = 6 PROVE Lists(dist[Sums], dist')
    BY <1>2, <1>4
  <2>1. Lists(dist[Sums], dist)
    BY <1>2 DEF IInv, RunInv
  <2> QED BY <1>4, <2>1 DEF Lists
<1>7. run.next = 6 /\ run.mode = "release" => Covers(dist'[Sig], dist'[Sums])
  <2> SUFFICES ASSUME run.mode = "release" PROVE Covers(sig, dist[Sums])
    <3> HIDE DEF sig
    <3> QED BY <1>3, <1>4
  <2> QED BY DEF Covers, NoneIsNoFile
<1> HIDE DEF sig
<1> QED BY <1>1, <1>2, <1>3, <1>5, <1>6, <1>7, AdvanceIInv

LEMMA AarIInv ==
  ASSUME NoneIsNoFile
  PROVE  IInv /\ PackageAar => IInv'
<1> SUFFICES ASSUME IInv, PackageAar PROVE IInv'
  OBVIOUS
<1> DEFINE aar == Package("aar", run.commit.kotlin,
                          {dist[p] : p \in Present(dist, ToSet(JniLibs))})
<1>1. /\ InPackage("aar") /\ Advance /\ UNCHANGED <<source, local, published>>
      /\ dist' = [dist EXCEPT ![Aar] = aar]
  BY DEF PackageAar, PackagedAar
<1>2. run.next = 3 /\ run # None /\ run.jobs = Jobs
  BY <1>1, Positions
<1>3. /\ dist' = [p \in Paths |-> dist'[p]] /\ dist'[Aar] = aar
      /\ \A p \in Built : dist'[p] = dist[p]
  <2> HIDE DEF aar
  <2> QED BY <1>1, WrittenShape
<1>4. Carries(aar, dist, ToSet(JniLibs))
  BY DEF Carries, NoneIsNoFile, Package
<1> HIDE DEF aar
<1>5. Packaged(dist)'
  <2>1. run'.next = 4
    BY <1>1, <1>2, Shapes DEF Advance, RunType
  <2>2. \A p \in ToSet(JniLibs) : dist'[p] = dist[p]
    BY <1>3, Apart
  <2>3. Carries(dist'[Aar], dist', ToSet(JniLibs))
    BY <1>3, <1>4, <2>2, StillCarries
  <2>4. ~ (run'.next >= 5)
    BY <2>1
  <2> QED BY <2>3, <2>4 DEF Packaged
<1>6. ~ (run.next >= 5) /\ run.next # 6
  BY <1>2
<1> QED BY <1>1, <1>3, <1>5, <1>6, AdvanceIInv

LEMMA NugetIInv ==
  ASSUME NoneIsNoFile
  PROVE  IInv /\ PackageNuget => IInv'
<1> SUFFICES ASSUME IInv, PackageNuget PROVE IInv'
  OBVIOUS
<1> DEFINE libs == {Linux[2], Windows[2]}
           nupkg == Package("nupkg", run.commit.c, {dist[p] : p \in Present(dist, libs)})
<1>1. /\ InPackage("nuget") /\ Advance /\ UNCHANGED <<source, local, published>>
      /\ dist' = [dist EXCEPT ![Nupkg] = nupkg]
  BY DEF PackageNuget, PackagedNuget
<1>2. run.next = 4 /\ run # None /\ run.jobs = Jobs
  BY <1>1, Positions
<1>3. /\ dist' = [p \in Paths |-> dist'[p]] /\ dist'[Nupkg] = nupkg
      /\ \A p \in Built : dist'[p] = dist[p]
      /\ dist'[Aar] = dist[Aar]
  <2> HIDE DEF nupkg
  <2> QED BY <1>1, WrittenShape, Apart DEF Paths
<1>4. Carries(nupkg, dist, libs)
  BY DEF Carries, NoneIsNoFile, Package
<1> HIDE DEF nupkg
<1>5. Packaged(dist)'
  <2>1. run'.next = 5
    BY <1>1, <1>2, Shapes DEF Advance, RunType
  <2>2. (\A p \in ToSet(JniLibs) : dist'[p] = dist[p]) /\ (\A p \in libs : dist'[p] = dist[p])
    BY <1>3, Apart
  <2>3. Carries(dist'[Aar], dist', ToSet(JniLibs))
    <3>1. Carries(dist[Aar], dist, ToSet(JniLibs))
      BY <1>2 DEF IInv, RunInv, Packaged
    <3> QED BY <1>3, <2>2, <3>1, StillCarries
  <2>4. Carries(dist'[Nupkg], dist', libs)
    BY <1>3, <1>4, <2>2, StillCarries
  <2> QED BY <2>3, <2>4 DEF Packaged
<1>6. ~ (run.next >= 5) /\ run.next # 6
  BY <1>2
<1> QED BY <1>1, <1>3, <1>5, <1>6, AdvanceIInv

LEMMA PublishIInv == IInv /\ Publish => IInv'
<1> SUFFICES ASSUME IInv, Publish PROVE IInv'
  OBVIOUS
<1> DEFINE files == [p \in Payload |-> dist[p]]
           r == ReleaseOf(run.commit, run.checked, run.lost, dist)
<1>1. /\ InPackage("publish") /\ run' = None /\ dist' = Empty /\ UNCHANGED <<source, local>>
      /\ published' = IF run.mode = "dry-run" THEN published ELSE published \cup {r}
  BY DEF Publish
<1>2. /\ run.next = 7 /\ run # None /\ run.jobs = Jobs
      /\ run.mode \in RunModes /\ run.commit \in Tree /\ run.lost \subseteq Built
  BY <1>1, Positions, Shapes DEF RunType
<1>3. /\ Packaged(dist) /\ Lists(dist[Sums], dist)
      /\ run.mode = "release" => Covers(dist[Sig], dist[Sums])
  BY <1>2 DEF IInv, RunInv
<1>4. /\ r.sums = dist[Sums] /\ r.sig = dist[Sig] /\ r.lost = run.lost
      /\ r.commit = run.commit /\ r.files = files /\ DOMAIN files = Payload
  BY DEF ReleaseOf
<1>5. \A p \in Payload : files[p] = dist[p]
  OBVIOUS
<1> HIDE DEF files, r
<1>6. \A p \in Payload \ run.lost : dist[p] # None
  <2> SUFFICES ASSUME NEW p \in Payload \ run.lost PROVE dist[p] # None
    OBVIOUS
  <2>1. p \in Built \/ p \in {Aar, Nupkg}
    BY Apart
  <2> QED BY <1>2, <1>3, <2>1, BuiltThere DEF Packaged, Carries
<1>7. Lists(dist[Sums], files)
  BY <1>3, <1>5 DEF Lists
<1>8. /\ Carries(files[Aar], files, ToSet(JniLibs))
      /\ Carries(files[Nupkg], files, {Linux[2], Windows[2]})
  <2>1. /\ Carries(dist[Aar], dist, ToSet(JniLibs))
        /\ Carries(dist[Nupkg], dist, {Linux[2], Windows[2]})
    BY <1>2, <1>3 DEF Packaged
  <2>2. /\ files[Aar] = dist[Aar] /\ files[Nupkg] = dist[Nupkg]
        /\ \A p \in ToSet(JniLibs) : files[p] = dist[p]
        /\ \A p \in {Linux[2], Windows[2]} : files[p] = dist[p]
    BY <1>5, Apart
  <2> QED BY <2>1, <2>2, StillCarries
<1>9. run.mode = "release" =>
        Coherent(r) /\ r.commit \in Tree /\ DOMAIN r.files = Payload
  BY <1>2, <1>3, <1>4, <1>5, <1>6, <1>7, <1>8 DEF Coherent
<1>10. \A x \in published' : x \in published \/ (x = r /\ run.mode = "release")
  BY <1>1, <1>2 DEF RunModes
<1>11. ReleasesInv'
  BY <1>9, <1>10 DEF IInv, ReleasesInv, Coherent
<1>12. \A x \in published' : x.commit \in Tree /\ DOMAIN x.files = Payload
  BY <1>9, <1>10 DEF IInv, TypeOK
<1> QED BY <1>1, <1>11, <1>12 DEF IInv, TypeOK, Empty, RunInv, PrivateKeyPairs, source, local

-----------------------------------------------------------------------------
(***************************************************************************)
(* The theorems                                                            *)
(***************************************************************************)
LEMMA InitIInv == Init => IInv
<1> SUFFICES ASSUME Init PROVE IInv
  OBVIOUS
<1>1. work \in Tree
  BY BoundsAssumption, KeyAssumption DEF Init, Tree, Versions, BoundsAssumption, KeyAssumption
<1>2. todo \in Seq(Tasks) /\ builtAt \in 0..MaxVersion
  BY BoundsAssumption DEF Init, BoundsAssumption
<1>3. compiled \in [Units -> [ver: Versions, key: PublicKeys \cup {None}] \cup {None}]
  BY DEF Init
<1>4. {privFile, secret} \subseteq PublicKeys \cup {None}
  BY KeyAssumption DEF Init, KeyAssumption
<1>5. ReleasesInv /\ \A r \in published : r.commit \in Tree /\ DOMAIN r.files = Payload
  BY BeforeAssumption DEF Init, ReleasesInv, BeforeAssumption
<1>6. stamp \in Digests \cup {None}
  BY DEF Init
<1> QED BY <1>1, <1>2, <1>3, <1>4, <1>5, <1>6
        DEF Init, IInv, TypeOK, Empty, RunInv, PrivateKeyPairs, Builds

LEMMA StepIInv ==
  ASSUME NoneIsNoFile
  PROVE  IInv /\ [Next]_vars => IInv'
<1> SUFFICES ASSUME IInv, [Next]_vars PROVE IInv'
  OBVIOUS
<1>1. CASE Maintain
  BY <1>1, MaintainIInv
<1>2. CASE Build
  BY <1>2, BuildIInv
<1>3. CASE Workflow
  BY <1>3, ModeGateIInv, RunFailsIInv, GateIInv, JobIInv, HashIInv, SignIInv, AarIInv,
     NugetIInv, PublishIInv DEF Workflow
<1>4. CASE UNCHANGED vars
  <2>1. RunInv' /\ ReleasesInv'
    BY <1>4, Undisturbed DEF vars
  <2> QED BY <1>4, <2>1 DEF vars, IInv, TypeOK, PrivateKeyPairs, local
<1> QED BY <1>1, <1>2, <1>3, <1>4 DEF Next

\* The invariant holds in every state of every behaviour: what one step of the
\* release workflow leaves in dist/ is what the later steps take for granted,
\* and every published release has the shape of the last two of them
\* (release.yml:250-304, main.rs:375-500).
THEOREM ReleaseIInv ==
  ASSUME NoneIsNoFile
  PROVE  Spec => []IInv
<1>1. Init => IInv
  BY InitIInv
<1>2. IInv /\ [Next]_vars => IInv'
  BY StepIInv
<1> QED BY <1>1, <1>2, PTL DEF Spec

\* However often the maintainer edits, rotates keys and releases, and whatever
\* the merge of the jobs' files silently loses or cuts short, a published release
\* is one: its manifest lists every file published beside it and its signature,
\* with that file's digest, and no other content under such a path; the signature
\* is of that manifest; each package carries exactly the libraries published
\* beside it; and only files whose copying failed are missing
\* (release.yml:257-304, 330-342).
THEOREM ReleasesAreCoherent ==
  ASSUME NoneIsNoFile
  PROVE  Spec => []ReleaseIsCoherent
<1>1. IInv => ReleaseIsCoherent
  <2> SUFFICES ASSUME IInv, NEW r \in published
               PROVE  /\ r.sig # None /\ VerifySignature(r.sums, r.sig, r.sig.key)
                      /\ \A p \in Payload : {line[1] : line \in {l \in r.sums : l[2] = p}}
                                              = {r.files[p]} \ {None}
                      /\ r.files[Aar].parts
                           = {r.files[p] : p \in Present(r.files, ToSet(JniLibs))}
                      /\ r.files[Nupkg].parts
                           = {r.files[p] : p \in Present(r.files, {Linux[2], Windows[2]})}
                      /\ \A p \in Payload \ r.lost : r.files[p] # None
    BY DEF ReleaseIsCoherent
  <2>1. Coherent(r)
    BY DEF IInv, ReleasesInv
  <2>2. r.sig # None /\ VerifySignature(r.sums, r.sig, r.sig.key)
    BY <2>1 DEF Coherent, Covers, VerifySignature
  <2>3. ASSUME NEW p \in Payload
        PROVE  {line[1] : line \in {l \in r.sums : l[2] = p}} = {r.files[p]} \ {None}
    <3>1. ASSUME NEW line \in r.sums, line[2] = p
          PROVE  line[1] # None /\ line[1] = r.files[p]
      BY <2>1, <3>1 DEF Coherent, Lists
    <3>2. r.files[p] # None => <<r.files[p], p>> \in r.sums
      BY <2>1 DEF Coherent, Lists
    <3> QED BY <3>1, <3>2
  <2> QED BY <2>1, <2>2, <2>3 DEF Coherent, Carries
<1> QED BY <1>1, ReleaseIInv, PTL

\* gen-release-key never leaves a private key on disk beside a release.pub made
\* with another one, unless it stopped between its two writes (main.rs:423-458).
THEOREM PrivateKeysPair ==
  ASSUME NoneIsNoFile
  PROVE  Spec => []PrivateKeyPairs
<1>1. IInv => PrivateKeyPairs
  BY DEF IInv
<1> QED BY <1>1, ReleaseIInv, PTL

-----------------------------------------------------------------------------
(***************************************************************************)
(* What the self-check accepts                                             *)
(***************************************************************************)
\* The writer's order has a first line among any lines.
DigestsAreOrdered == \A d : Order(d) \in Nat

LEMMA FirstLineIsALine ==
  ASSUME DigestsAreOrdered, NEW lines, lines # {}
  PROVE  FirstLine(lines) \in lines
<1> DEFINE T == {Order(line[1]) : line \in lines}
<1>1. T \subseteq Nat /\ T # {}
  BY DEF DigestsAreOrdered
<1>2. PICK x \in T : \A y \in T : ~ (<<y, x>> \in OpToRel(<, Nat))
  <2> HIDE DEF T
  <2> QED BY <1>1, NatLessThanWellFounded, WFMin
<1>3. \A y \in T : x <= y
  <2> SUFFICES ASSUME NEW y \in T PROVE x <= y
    OBVIOUS
  <2>1. x \in Nat /\ y \in Nat /\ ~ (<<y, x>> \in OpToRel(<, Nat))
    BY <1>1, <1>2
  <2> HIDE DEF T
  <2> QED BY <2>1 DEF OpToRel
<1>4. \E line \in lines : \A other \in lines : Order(line[1]) <= Order(other[1])
  BY <1>2, <1>3
<1> QED BY <1>4, Zenon DEF FirstLine

\* A signature that is whole is the one of a release, over its manifest.
LEMMA SignedIsReleased ==
  ASSUME IInv, NEW f, NEW found \in [sums: Manifests(f), sig: Signatures], NEW key,
         found.sig # None, found.sig.whole, VerifySignature(found.sums, found.sig, key)
  PROVE  \E r \in published : found.sums = r.sums /\ r.sig.key = key
<1>1. \A r \in published :
        r.sig = [key |-> r.sig.key, over |-> r.sums, whole |-> TRUE]
  BY DEF IInv, ReleasesInv, Coherent, Covers
<1>2. found.sig \in Signatures
  OBVIOUS
<1>3. PICK r \in published : found.sig = r.sig \/ found.sig = [r.sig EXCEPT !.whole = FALSE]
  BY <1>2 DEF Signatures
<1> DEFINE cut == [r.sig EXCEPT !.whole = FALSE]
<1>4. cut.whole = FALSE /\ r.sig.over = r.sums
  <2>1. PICK k : r.sig = [key |-> k, over |-> r.sums, whole |-> TRUE]
    BY <1>1
  <2> QED BY <2>1
<1> HIDE DEF cut
<1>5. found.sig # cut
  BY <1>4, Zenon
<1>6. found.sig = r.sig
  BY <1>3, <1>5 DEF cut
<1> QED BY <1>4, <1>6 DEF VerifySignature

\* Verified is only ever answered, for any keys, any number of releases and any
\* mixture of their files, manifests and signatures, whole or cut, beside the file
\* or one directory up, for a file published in a release signed with the key the
\* checking library trusts, under a path that ends in the file's name; or, where
\* no manifest is found, for the build the library was stamped with
\* (signature.rs:30-118, integrity.rs:51-83, integrity_runtime.rs:56-121).
THEOREM VerifiedWasPublished ==
  ASSUME NoneIsNoFile, DigestsAreOrdered
  PROVE  Spec => []VerifiedIsPublished
<1>1. IInv => VerifiedIsPublished
  <2> SUFFICES ASSUME IInv, NEW code \in Checkers, NEW f \in Files,
                      NEW beside \in [sums: Manifests(f), sig: Signatures],
                      NEW above \in {Nothing} \cup {Complete(r) : r \in published},
                      VerifySelf(code, f[2], f[1], beside, above) = "Verified"
               PROVE  \/ \E r \in published, p \in Libraries :
                           r.files[p] = f[2] /\ EndsWith(p, f[1]) /\ r.sig.key = code.key
                      \/ LocateSums(beside, above) = None /\ f[2] = code.stamped
    BY DEF VerifiedIsPublished
  <2> DEFINE found == LocateSums(beside, above)
             lines == LinesFor(found.sums, f[1])
  <2>a. CASE found = None
    <3>1. VerifyBytes(f[2], code.stamped) = "Verified"
      BY <2>a DEF VerifySelf
    <3> QED BY <2>a, <3>1 DEF VerifyBytes
  <2>b. CASE found # None
    <3>1. /\ found.sig.whole
          /\ VerifySignature(found.sums, found.sig, code.key)
          /\ lines # {} /\ FirstLine(lines)[1] = f[2]
      <4> HIDE DEF found
      <4>1. VerifyCombined(found.sums, found.sig, code.key, f[1], f[2]) = "Verified"
        BY <2>b DEF VerifySelf, found
      <4> QED BY <4>1 DEF VerifyCombined
    <3>2. found \in [sums: Manifests(f), sig: Signatures] /\ found.sig # None
      <4>1. CASE found = beside /\ beside.sig # None
        BY <4>1
      <4>2. CASE found = above /\ above.sums # None /\ above.sig # None
        <5>1. above # Nothing
          BY <4>2 DEF Nothing
        <5>2. PICK r \in published : above = Complete(r)
          BY <5>1
        <5>3. r.sums \in Manifests(f) /\ r.sig \in Signatures
          BY DEF Manifests, Signatures
        <5>4. above \in [sums: Manifests(f), sig: Signatures]
          BY <5>2, <5>3 DEF Complete
        <5> HIDE DEF found
        <5> QED BY <4>2, <5>4
      <4> QED BY <2>b, <4>1, <4>2 DEF LocateSums
    <3> HIDE DEF found
    <3>3. PICK r \in published : found.sums = r.sums /\ r.sig.key = code.key
      BY <3>1, <3>2, SignedIsReleased
    <3> DEFINE line == FirstLine(lines)
    <3>4. line \in lines
      <4> HIDE DEF lines
      <4> QED BY <3>1, FirstLineIsALine
    <3>5. line \in r.sums /\ EndsWith(line[2], f[1]) /\ line[1] = f[2]
      <4> HIDE DEF line
      <4>1. line \in r.sums /\ EndsWith(line[2], f[1])
        BY <3>3, <3>4 DEF LinesFor
      <4> QED BY <3>1, <4>1 DEF line
    <3> HIDE DEF line
    <3>6. PICK p \in Paths : line = <<line[1], p>> /\ (p \in Payload => line[1] = r.files[p])
      BY <3>5 DEF IInv, ReleasesInv, Coherent, Lists
    <3>7. EndsWith(p, f[1])
      <4>1. line[2] = p
        BY <3>6
      <4> QED BY <3>5, <4>1
    <3>8. p \in Libraries
      BY <3>7, HostNamesAssumption DEF HostNamesAssumption, Files
    <3>9. p \in Payload
      BY <3>8, Apart
    <3> QED BY <3>3, <3>5, <3>6, <3>7, <3>8, <3>9
  <2> QED BY <2>a, <2>b
<1> QED BY <1>1, ReleaseIInv, PTL


\* A stamped library of a release is accepted by itself, in both layouts, when it
\* embeds the key the release is signed with and no other path of the release
\* ends in its name (signature.rs:30-118, integrity_runtime.rs:56-121).
THEOREM GenuineWasVerified ==
  ASSUME NoneIsNoFile, DigestsAreOrdered
  PROVE  Spec => []GenuineIsVerified
<1>1. IInv => GenuineIsVerified
  <2> SUFFICES ASSUME IInv, NEW r \in published, NEW p \in Libraries, Genuine(r, p),
                      LinesFor(r.sums, p[2]) = {<<r.files[p], p>>}
               PROVE  Accepts(r, p)
    BY DEF GenuineIsVerified
  <2> DEFINE lib == r.files[p]
             lines == LinesFor(r.sums, p[2])
  <2>1. /\ lib # None /\ <<lib, p>> \in r.sums
        /\ Covers(r.sig, r.sums)
    BY Apart DEF IInv, ReleasesInv, Coherent, Lists, Genuine
  <2>2. r.sums # None /\ r.sig # None /\ r.sig.whole
        /\ VerifySignature(r.sums, r.sig, lib.key) /\ lib.stamped # None
    BY <2>1 DEF NoneIsNoFile, Covers, VerifySignature, Genuine
  <2>3. lines # {} /\ FirstLine(lines)[1] = lib
    <3>1. lines = {<<lib, p>>} /\ lines # {}
      OBVIOUS
    <3> HIDE DEF lines, lib
    <3>2. FirstLine(lines) \in lines
      BY <3>1, FirstLineIsALine
    <3>3. FirstLine(lines) = <<lib, p>>
      BY <3>1, <3>2
    <3> QED BY <3>1, <3>3
  <2>4. VerifyCombined(r.sums, r.sig, lib.key, p[2], lib) = "Verified"
    BY <2>2, <2>3 DEF VerifyCombined
  <2>5. /\ LocateSums(Complete(r), Nothing) = Complete(r)
        /\ LocateSums(Nothing, Complete(r)) = Complete(r)
        /\ Complete(r) # None /\ Complete(r).sums = r.sums /\ Complete(r).sig = r.sig
    BY <2>2 DEF LocateSums, Complete, Nothing, NoneIsNoFile
  <2>6. ASSUME NEW beside, NEW above, LocateSums(beside, above) = Complete(r)
        PROVE  VerifySelf(lib, lib, p[2], beside, above) = "Verified"
    <3> HIDE DEF lib
    <3> QED BY <2>1, <2>2, <2>4, <2>5, <2>6 DEF VerifySelf
  <2> QED BY <2>5, <2>6 DEF Accepts
<1> QED BY <1>1, ReleaseIInv, PTL

-----------------------------------------------------------------------------
(***************************************************************************)
(* The versions of what a checked commit ships                             *)
(***************************************************************************)
Matches(tree, ok) ==
  /\ ok # {} => tree.swift = tree.ver /\ tree.kotlin = tree.ver
  /\ "c" \in ok => tree.c = tree.ver

\* What is made with committed Swift and Kotlin, and what with the C header
Native == Libraries \cup {Aar, Xcframework[3]}
Headers == {p \in Built : p[2] = "mcpix.h"} \cup {Nupkg}

Dated(content, p, tree, ok) ==
  content # None =>
    /\ ok # {} /\ p \in Native => content.ver = tree.ver
    /\ "c" \in ok /\ p \in Headers => content.ver = tree.ver

HeadersMatch(sums, lost, ver) ==
  \A line \in sums : line[2][2] = "mcpix.h" /\ line[2] \notin lost => line[1].ver = ver

BindingsInv ==
  /\ Matches(head, checked)
  /\ run # None =>
       /\ Matches(run.commit, run.checked)
       /\ \A p \in Paths \ run.lost : Dated(dist[p], p, run.commit, run.checked)
       /\ run.next >= 6 /\ "c" \in run.checked =>
            HeadersMatch(dist[Sums], run.lost, run.commit.ver)
  /\ ShippedBindingsMatch

LEMMA Kinds ==
  /\ Native \subseteq Paths \ {Sums, Sig, Nupkg} /\ Headers \subseteq Paths \ {Sums, Sig, Aar}
  /\ \A p \in Native : p[2] # "mcpix.h"
  /\ Native \subseteq Payload /\ Nupkg \in Payload /\ Native \subseteq Built \cup {Aar}
<1>1. Xcframework[3][2] # "mcpix.h" /\ \A p \in Libraries : p[2] # "mcpix.h"
  BY DEF Xcframework, Libraries
<1>2. Aar[2] # "mcpix.h"
  BY Names
<1> HIDE DEF Xcframework, Libraries, Aar, Nupkg, Sums, Sig, Built
<1> QED BY <1>1, <1>2, Apart DEF Native, Headers, Paths

\* A copy is of the new file or of what was there.
LEMMA CopiedFrom ==
  ASSUME NEW d, NEW files, NEW n, 1..n = DOMAIN files, NEW out, NEW p \in Paths
  PROVE  \/ Copied(d, files, n, out)[p] = d[p]
         \/ p \in ToSet(files) /\ Copied(d, files, n, out)[p] = out[p]
BY DEF Copied, ToSet

LEMMA OutputsVersion ==
  ASSUME NEW files, NEW unit, NEW tree, NEW p \in ToSet(files)
  PROVE  Outputs(files, unit, tree)[p].ver = IF p[2] = "mcpix.h" THEN tree.c ELSE unit.ver
BY DEF Outputs, Library, Binding

\* A job on a commit that was checked makes files of one version.
LEMMA JobDates ==
  ASSUME NEW j \in Jobs, NEW tree \in Tree, NEW ok, Matches(tree, ok), NEW digest,
         NEW linux \in WithHeader(tree), NEW windows \in WithHeader(linux), NEW p \in Paths
  PROVE  Dated(JobOutputs(j, tree, digest, linux, windows)[p], p, tree, ok)
<1> DEFINE unit == Unit(tree, digest)
           files == JobOutputs(j, tree, digest, linux, windows)
<1>0. /\ 1..3 = DOMAIN Linux /\ 1..3 = DOMAIN Windows /\ 1..3 = DOMAIN Xcframework
      /\ 1..Len(Android) = DOMAIN Android
  <2>1. Android \in Seq(ToSet(Android))
    BY AndroidIsSeq
  <2> QED BY <2>1, LenProperties DEF Linux, Windows, Xcframework
<1>1. /\ unit.ver = tree.ver
      /\ "c" \in ok => tree.c = tree.ver /\ linux.c = tree.ver /\ windows.c = tree.ver
  <2>1. linux.ver = tree.ver /\ (linux.c = tree.c \/ linux.c = tree.ver)
    BY DEF WithHeader, Refreshed, Tree
  <2>2. linux \in Tree
    BY Trees
  <2>3. windows.c = linux.c \/ windows.c = linux.ver
    BY <2>2 DEF WithHeader, Refreshed, Tree
  <2> QED BY <2>1, <2>3 DEF Unit, Matches
<1>2. Empty[p] = None
  BY DEF Empty
<1>3. ASSUME NEW x, NEW t, x.ver = IF p[2] = "mcpix.h" THEN t.c ELSE unit.ver,
             "c" \in ok => t.c = tree.ver, p \in Built
      PROVE  Dated(x, p, tree, ok)
  <2>1. p # Nupkg
    BY <1>3, Apart
  <2> HIDE DEF unit
  <2> QED BY <1>1, <1>3, <2>1, Kinds DEF Dated, Headers
<1>4. CASE j = "linux-windows"
  <2> DEFINE l == Outputs(Linux, unit, linux)
             w == Outputs(Windows, unit, windows)
             d1 == Copied(Empty, Linux, 3, l)
             d2 == Copied(d1, Windows, 3, w)
  <2>1. files = d2
    BY <1>4 DEF JobOutputs
  <2>2. p \in ToSet(Linux) => Dated(l[p], p, tree, ok)
    <3> HIDE DEF unit
    <3>1. p \in ToSet(Linux) => l[p].ver = IF p[2] = "mcpix.h" THEN linux.c ELSE unit.ver
      BY OutputsVersion
    <3> HIDE DEF l
    <3> QED BY <1>1, <1>3, <3>1 DEF Built
  <2>3. p \in ToSet(Windows) => Dated(w[p], p, tree, ok)
    <3> HIDE DEF unit
    <3>1. p \in ToSet(Windows) => w[p].ver = IF p[2] = "mcpix.h" THEN windows.c ELSE unit.ver
      BY OutputsVersion
    <3> HIDE DEF w
    <3> QED BY <1>1, <1>3, <3>1 DEF Built
  <2> HIDE DEF l, w
  <2>4. d1[p] = None \/ (p \in ToSet(Linux) /\ d1[p] = l[p])
    BY <1>0, <1>2 DEF Copied, ToSet
  <2> HIDE DEF d1
  <2>5. d2[p] = d1[p] \/ (p \in ToSet(Windows) /\ d2[p] = w[p])
    BY <1>0 DEF Copied, ToSet
  <2> HIDE DEF d2, files
  <2>6. d2[p] = None => Dated(d2[p], p, tree, ok)
    BY DEF Dated
  <2>7. Dated(d2[p], p, tree, ok)
    BY <2>2, <2>3, <2>4, <2>5, <2>6
  <2> QED BY <2>1, <2>7 DEF files
<1>5. CASE j = "android"
  <2> DEFINE out == Outputs(Android, unit, tree)
             d1 == Copied(Empty, Android, Len(Android), out)
  <2>1. files = d1
    BY <1>5 DEF JobOutputs
  <2>2. p \in ToSet(Android) => Dated(out[p], p, tree, ok)
    <3> HIDE DEF unit
    <3>1. p \in ToSet(Android) => out[p].ver = IF p[2] = "mcpix.h" THEN tree.c ELSE unit.ver
      BY OutputsVersion
    <3> HIDE DEF out
    <3> QED BY <1>1, <1>3, <3>1 DEF Built
  <2> HIDE DEF out
  <2>3. d1[p] = None \/ (p \in ToSet(Android) /\ d1[p] = out[p])
    BY <1>0, <1>2, CopiedFrom
  <2> HIDE DEF d1, files
  <2>4. d1[p] = None => Dated(d1[p], p, tree, ok)
    BY DEF Dated
  <2>5. Dated(d1[p], p, tree, ok)
    BY <2>2, <2>3, <2>4
  <2> QED BY <2>1, <2>5 DEF files
<1>6. CASE j = "ios"
  <2> DEFINE out == XcOutputs([u \in Units |-> unit], tree)
             d1 == Copied(Empty, Xcframework, 3, out)
  <2>1. files = d1
    BY <1>6 DEF JobOutputs, PackagedXcframework
  <2>2. p \in ToSet(Xcframework) => Dated(out[p], p, tree, ok)
    <3> SUFFICES ASSUME p \in ToSet(Xcframework) PROVE Dated(out[p], p, tree, ok)
      OBVIOUS
    <3>1. /\ p \in Built /\ p \notin Headers
          /\ p[2] \in {"libmcpix_uniffi-sim.a", "mcpix_uniffiFFI.h", "MCPixSDKFFI.xcframework"}
      <4>1. p \in Built
        BY DEF Built
      <4>2. p # Nupkg
        BY <4>1, Apart
      <4> HIDE DEF Built
      <4> QED BY <4>1, <4>2, Names DEF Headers
    <3>2. CASE p[2] = "MCPixSDKFFI.xcframework"
      <4>1. out[p].ver = tree.swift
        BY <3>2 DEF XcOutputs, Package
      <4> HIDE DEF out
      <4> QED BY <3>1, <4>1 DEF Matches, Dated
    <3>3. CASE p[2] # "MCPixSDKFFI.xcframework"
      <4>1. p \notin Native
        <5>1. p # Xcframework[3]
          BY <3>3 DEF Xcframework
        <5>2. p \notin Libraries
          BY <3>1 DEF Libraries
        <5>3. p # Aar
          BY <3>1, Apart
        <5> QED BY <5>1, <5>2, <5>3 DEF Native
      <4> HIDE DEF out
      <4> QED BY <3>1, <4>1 DEF Dated
    <3> QED BY <3>2, <3>3
  <2> HIDE DEF out
  <2>3. d1[p] = None \/ (p \in ToSet(Xcframework) /\ d1[p] = out[p])
    BY <1>0, <1>2 DEF Copied, ToSet
  <2> HIDE DEF d1, files
  <2>4. d1[p] = None => Dated(d1[p], p, tree, ok)
    BY DEF Dated
  <2>5. Dated(d1[p], p, tree, ok)
    BY <2>2, <2>3, <2>4
  <2> QED BY <2>1, <2>5 DEF files
<1> QED BY <1>4, <1>5, <1>6 DEF Jobs

\* check-bindings passes on a tree whose Swift and Kotlin are of its own version,
\* and its C header too unless cbindgen was skipped.
LEMMA CheckedMatches ==
  ASSUME head \in Tree, CheckBindings
  PROVE  head' = head /\ Matches(head, checked')
<1>1. ASSUME NEW tree \in Tree, tree.ver = head.ver, Generated(tree, 2) = head
      PROVE  head.swift = head.ver /\ head.kotlin = head.ver /\ head.c = tree.c
  <2> DEFINE g == Generated(tree, 2)
  <2>1. g.c = tree.c /\ g.swift = tree.ver /\ g.kotlin = tree.ver
    BY DEF Generated, Tree
  <2> HIDE DEF g
  <2>2. g = head
    BY <1>1 DEF g
  <2> QED BY <1>1, <2>1, <2>2
<1>2. CASE Generated(Refreshed(head), 2) = head /\ checked' = Languages
  <2>1. Refreshed(head) \in Tree
    BY Trees DEF WithHeader
  <2>2. Refreshed(head).ver = head.ver /\ Refreshed(head).c = head.ver
    BY DEF Refreshed, Tree
  <2> QED BY <1>1, <1>2, <2>1, <2>2 DEF Matches, CheckBindings
<1>3. CASE Generated(head, 2) = head /\ checked' = Languages \ {"c"}
  BY <1>1, <1>3 DEF Matches, CheckBindings
<1> QED BY <1>2, <1>3 DEF CheckBindings

\* Outside of the workflow nothing but a check marks a commit as checked.
LEMMA OutsideMatches ==
  ASSUME IInv, BindingsInv, Maintain \/ Build
  PROVE  BindingsInv'
<1>1. UNCHANGED published
  BY DEF Maintain, Edit, GenBindings, Commit, CheckBindings, DeleteKey, GenReleaseKey, SetSecret,
         Build, BuildAll, Command, Start, BuildLinux, BuildWindows, BuildAndroid, BuildIos,
         PackageXcframework, CargoFails, CargoBuilds, Done
<1>2. ShippedBindingsMatch'
  BY <1>1 DEF BindingsInv, ShippedBindingsMatch
<1>3. CASE Maintain
  <2>0. UNCHANGED <<run, dist>>
    BY <1>3 DEF Maintain, Edit, GenBindings, Commit, CheckBindings, DeleteKey, GenReleaseKey,
                SetSecret
  <2>1. \/ checked' = checked /\ head' = head
        \/ checked' = {}
        \/ CheckBindings
    BY <1>3 DEF Maintain, Edit, GenBindings, Commit, DeleteKey, GenReleaseKey, SetSecret
  <2>2. Matches(head, checked)'
    <3>1. CASE checked' = checked /\ head' = head
      BY <3>1 DEF BindingsInv, Matches
    <3>2. CASE checked' = {}
      BY <3>2 DEF Matches
    <3>3. CASE CheckBindings
      BY <3>3, CheckedMatches DEF IInv, TypeOK, Matches
    <3> QED BY <2>1, <3>1, <3>2, <3>3
  <2> QED BY <1>2, <2>0, <2>2 DEF BindingsInv, HeadersMatch, Matches, Dated
<1>4. CASE Build
  <2>1. UNCHANGED <<head, checked, run>> /\ run = None
    BY <1>4 DEF Build, BuildAll, Command, Start, BuildLinux, BuildWindows, BuildAndroid, BuildIos,
                PackageXcframework, CargoFails, CargoBuilds, Done, source, IInv, RunInv
  <2> QED BY <1>2, <2>1 DEF BindingsInv, Matches
<1> QED BY <1>3, <1>4

\* A step of the package job leaves what was there or brings what is of the commit.
LEMMA RunMatches ==
  ASSUME BindingsInv, run # None, UNCHANGED <<source, published>>,
         run'.commit = run.commit, run'.checked = run.checked, run'.lost = run.lost,
         Matches(run.commit, run.checked) =>
           \A p \in Paths \ run.lost :
             \/ dist'[p] = dist[p] \/ p \notin Native \cup Headers
             \/ Dated(dist'[p], p, run.commit, run.checked),
         run'.next >= 6 /\ "c" \in run.checked =>
           HeadersMatch(dist'[Sums], run.lost, run.commit.ver)
  PROVE  BindingsInv'
<1>1. UNCHANGED <<head, checked, published>>
  BY DEF source
<1>2. ShippedBindingsMatch'
  BY <1>1 DEF BindingsInv, ShippedBindingsMatch
<1>3. \A p \in Paths \ run.lost : Dated(dist'[p], p, run.commit, run.checked)
  <2> SUFFICES ASSUME NEW p \in Paths \ run.lost
               PROVE  Dated(dist'[p], p, run.commit, run.checked)
    OBVIOUS
  <2>1. CASE dist'[p] = dist[p]
    BY <2>1 DEF BindingsInv
  <2>2. CASE p \notin Native \cup Headers
    BY <2>2 DEF Dated
  <2> QED BY <2>1, <2>2 DEF BindingsInv
<1>4. run' # None =>
        /\ Matches(run.commit, run.checked)'
        /\ (\A p \in Paths \ run.lost : Dated(dist[p], p, run.commit, run.checked))'
        /\ (run.next >= 6 /\ "c" \in run.checked =>
             HeadersMatch(dist[Sums], run.lost, run.commit.ver))'
  BY <1>3 DEF BindingsInv, HeadersMatch, Matches, Dated
<1> QED BY <1>1, <1>2, <1>4 DEF BindingsInv, Matches

LEMMA HashMatches ==
  ASSUME IInv, BindingsInv, Hash
  PROVE  BindingsInv'
<1> DEFINE lines == {<<dist[p], p>> : p \in Present(dist, Paths \ {Sums})}
<1>1. /\ dist' = [dist EXCEPT ![Sums] = lines] /\ InPackage("hash") /\ Advance
      /\ UNCHANGED <<source, published>> /\ run # None
  BY DEF Hash, HashArtifacts, InPackage
<1>2. /\ run'.commit = run.commit /\ run'.checked = run.checked /\ run'.lost = run.lost
      /\ run.commit \in Tree
  BY <1>1, Shapes DEF Advance, RunType
<1>3. dist'[Sums] = lines /\ \A p \in Native \cup Headers : dist'[p] = dist[p]
  <2> HIDE DEF lines
  <2> QED BY <1>1, WrittenShape, Kinds
<1>4. "c" \in run.checked => HeadersMatch(lines, run.lost, run.commit.ver)
  <2> SUFFICES ASSUME "c" \in run.checked, NEW line \in lines,
                      line[2][2] = "mcpix.h", line[2] \notin run.lost
               PROVE  line[1].ver = run.commit.ver
    BY DEF HeadersMatch
  <2>1. PICK p \in Present(dist, Paths \ {Sums}) : line = <<dist[p], p>>
    OBVIOUS
  <2>2. /\ line[1] = dist[p] /\ p[2] = "mcpix.h" /\ p \in Paths \ run.lost
        /\ dist[p] # None
    BY <2>1 DEF Present
  <2>3. p \in Built
    BY <2>2, Names DEF Paths
  <2>4. p \in Headers
    BY <2>2, <2>3 DEF Headers
  <2> QED BY <1>1, <2>2, <2>4 DEF BindingsInv, Dated
<1> HIDE DEF lines
<1> QED BY <1>1, <1>2, <1>3, <1>4, RunMatches

LEMMA PackagingMatches ==
  ASSUME IInv, BindingsInv, Sign \/ PackageAar \/ PackageNuget
  PROVE  BindingsInv'
<1>1. /\ run # None /\ Advance /\ UNCHANGED <<source, published>>
      /\ run'.commit = run.commit /\ run'.checked = run.checked
      /\ run'.lost = run.lost /\ (run'.next >= 6 => run.next >= 5)
  BY Shapes DEF Sign, PackageAar, PackageNuget, InPackage, Advance, RunType
<1>2. CASE Sign
  <2>1. run.next \in {2, 6}
    BY <1>2, Positions DEF Sign
  <2>2. \A p \in Paths : p # Sig => dist'[p] = dist[p]
    BY <1>2, WrittenShape DEF Sign, SignArtifacts
  <2>3. dist'[Sums] = dist[Sums] /\ \A p \in Native \cup Headers : dist'[p] = dist[p]
    BY <2>2, Kinds, Apart DEF Paths
  <2>4. run'.next >= 6 => run.next >= 6
    BY <1>1, <2>1
  <2> QED BY <1>1, <2>3, <2>4, RunMatches DEF BindingsInv
<1>3. CASE PackageAar
  <2> DEFINE aar == Package("aar", run.commit.kotlin,
                            {dist[p] : p \in Present(dist, ToSet(JniLibs))})
  <2>1. run.next = 3 /\ dist' = [dist EXCEPT ![Aar] = aar]
    BY <1>3, Positions DEF PackageAar, PackagedAar
  <2>2. aar.ver = run.commit.kotlin
    BY DEF Package
  <2> HIDE DEF aar
  <2>3. dist'[Aar] = aar /\ \A p \in Paths : p # Aar => dist'[p] = dist[p]
    BY <2>1, WrittenShape
  <2>4. Matches(run.commit, run.checked) =>
          \A p \in Paths : \/ dist'[p] = dist[p]
                         \/ Dated(dist'[p], p, run.commit, run.checked)
    BY <2>2, <2>3, Kinds DEF Matches, Dated
  <2>5. ~ (run'.next >= 6)
    BY <1>1, <2>1
  <2> QED BY <1>1, <2>4, <2>5, RunMatches
<1>4. CASE PackageNuget
  <2> DEFINE nupkg == Package("nupkg", run.commit.c,
                              {dist[p] : p \in Present(dist, {Linux[2], Windows[2]})})
  <2>1. run.next = 4 /\ dist' = [dist EXCEPT ![Nupkg] = nupkg]
    BY <1>4, Positions DEF PackageNuget, PackagedNuget
  <2>2. nupkg.ver = run.commit.c
    BY DEF Package
  <2> HIDE DEF nupkg
  <2>3. dist'[Nupkg] = nupkg /\ \A p \in Paths : p # Nupkg => dist'[p] = dist[p]
    BY <2>1, WrittenShape
  <2>4. Matches(run.commit, run.checked) =>
          \A p \in Paths : \/ dist'[p] = dist[p]
                         \/ Dated(dist'[p], p, run.commit, run.checked)
    BY <2>2, <2>3, Kinds DEF Matches, Dated
  <2>5. ~ (run'.next >= 6)
    BY <1>1, <2>1
  <2> QED BY <1>1, <2>4, <2>5, RunMatches
<1> QED BY <1>2, <1>3, <1>4

LEMMA PublishMatches ==
  ASSUME IInv, BindingsInv, Publish
  PROVE  BindingsInv'
<1> DEFINE r == ReleaseOf(run.commit, run.checked, run.lost, dist)
<1>1. /\ run' = None /\ run # None /\ run.next = 7 /\ run.jobs = Jobs
      /\ run.lost \subseteq Built
      /\ UNCHANGED <<head, checked>>
      /\ \A x \in published' : x \in published \/ x = r
  BY Positions, Shapes DEF Publish, source, RunType
<1>2. /\ r.checked = run.checked /\ r.lost = run.lost /\ r.commit = run.commit
      /\ r.sums = dist[Sums]
      /\ \A p \in Native \cup {Nupkg} : r.files[p] = dist[p]
  BY Kinds DEF ReleaseOf
<1> HIDE DEF r
<1>3. ASSUME run.checked # {}, NEW p \in Native \ run.lost
      PROVE  dist[p].ver = run.commit.ver
  <2>1. dist[p] # None
    <3>1. CASE p = Aar
      BY <1>1, <3>1 DEF IInv, RunInv, Packaged, Carries
    <3>2. CASE p \in Built
      BY <1>1, <3>2, BuiltThere
    <3> QED BY <3>1, <3>2, Kinds
  <2>2. Dated(dist[p], p, run.commit, run.checked)
    BY <1>1, Kinds DEF BindingsInv
  <2> QED BY <1>3, <2>1, <2>2 DEF Dated
<1>4. ASSUME "c" \in run.checked
      PROVE  dist[Nupkg].ver = run.commit.ver
  <2>1. dist[Nupkg] # None /\ Nupkg \in Paths \ run.lost /\ Nupkg \in Headers
    <3>1. dist[Nupkg] # None
      BY <1>1 DEF IInv, RunInv, Packaged, Carries
    <3>2. Nupkg \notin Built
      BY Apart
    <3> QED BY <1>1, <3>1, <3>2, Kinds DEF Headers
  <2>2. Dated(dist[Nupkg], Nupkg, run.commit, run.checked)
    BY <1>1, <2>1 DEF BindingsInv
  <2> QED BY <1>4, <2>1, <2>2 DEF Dated
<1>5. /\ r.checked # {} => \A p \in Native \ r.lost : r.files[p].ver = r.commit.ver
      /\ "c" \in r.checked => /\ r.files[Nupkg].ver = r.commit.ver
                              /\ HeadersMatch(r.sums, r.lost, r.commit.ver)
  BY <1>1, <1>2, <1>3, <1>4 DEF BindingsInv
<1>6. ShippedBindingsMatch'
  BY <1>1, <1>5 DEF BindingsInv, ShippedBindingsMatch, HeadersMatch, Native
<1> QED BY <1>1, <1>6 DEF BindingsInv, Matches

LEMMA StepMatches ==
  ASSUME IInv, BindingsInv, [Next]_vars
  PROVE  BindingsInv'
<1>1. CASE Maintain \/ Build
  BY <1>1, OutsideMatches
<1>2. CASE \E mode \in RunModes : ModeGate(mode)
  <2>1. PICK mode \in RunModes : ModeGate(mode)
    BY <1>2
  <2>2. /\ run'.commit = head /\ run'.checked = checked /\ run'.next = 1
        /\ \A p \in Paths : dist'[p] = None
        /\ UNCHANGED <<head, checked, published>>
    BY <2>1 DEF ModeGate, Empty, source
  <2> QED BY <2>2 DEF BindingsInv, ShippedBindingsMatch, Matches, Dated
<1>3. CASE RunFails
  BY <1>3 DEF RunFails, BindingsInv, ShippedBindingsMatch, Matches, source
<1>4. CASE HermeticGate
  <2>1. /\ run # None /\ UNCHANGED <<source, published, dist>> /\ run'.commit = run.commit
        /\ run'.checked = run.checked /\ run'.next = run.next /\ run'.lost = run.lost
    BY <1>4, Shapes DEF HermeticGate, RunType
  <2> QED BY <2>1, RunMatches DEF BindingsInv
<1>5. CASE \E j \in Jobs : Job(j)
  <2>0. PICK j \in Jobs : Job(j)
    BY <1>5
  <2>01. PICK lost \in SUBSET (FilesOf(j) \cap Fragile) :
           \E cut \in SUBSET lost, linux \in WithHeader(run.commit) :
             \E windows \in WithHeader(linux) :
               /\ run' = [run EXCEPT !.jobs = @ \cup {j}, !.lost = @ \cup lost]
               /\ dist' = Merged(dist, JobOutputs(j, run.commit, stamp, linux, windows),
                                 lost, cut)
    BY <2>0, Zenon DEF Job
  <2>02. PICK cut \in SUBSET lost, linux \in WithHeader(run.commit) :
           \E windows \in WithHeader(linux) :
             /\ run' = [run EXCEPT !.jobs = @ \cup {j}, !.lost = @ \cup lost]
             /\ dist' = Merged(dist, JobOutputs(j, run.commit, stamp, linux, windows),
                               lost, cut)
    BY <2>01, Zenon
  <2>1. PICK windows \in WithHeader(linux) :
          /\ run' = [run EXCEPT !.jobs = @ \cup {j}, !.lost = @ \cup lost]
          /\ dist' = Merged(dist, JobOutputs(j, run.commit, stamp, linux, windows), lost, cut)
    BY <2>02, Zenon
  <2> DEFINE files == JobOutputs(j, run.commit, stamp, linux, windows)
  <2>2. /\ run # None /\ UNCHANGED <<source, published>> /\ run'.commit = run.commit
        /\ run'.checked = run.checked /\ run'.next = run.next /\ run.commit \in Tree
        /\ run'.lost = run.lost \cup lost
    BY <2>0, <2>1, Shapes DEF Job, RunType
  <2>3. run.next = 1
    BY <2>0, Shapes DEF Job, IInv, RunInv
  <2>4. Matches(run.commit, run.checked)
    BY <2>2 DEF BindingsInv
  <2>5. ASSUME NEW p \in Paths \ run'.lost
        PROVE  Dated(dist'[p], p, run.commit, run.checked)
    <3>1. Dated(files[p], p, run.commit, run.checked)
      BY <2>2, <2>4, JobDates
    <3>2. Dated(dist[p], p, run.commit, run.checked)
      BY <2>2 DEF BindingsInv
    <3>3. dist' = Merged(dist, files, lost, cut)
      BY <2>1
    <3> HIDE DEF files
    <3>4. dist'[p] = dist[p] \/ dist'[p] = files[p]
      BY <2>2, <3>3 DEF Merged
    <3> QED BY <3>1, <3>2, <3>4
  <2>6. UNCHANGED <<head, checked, published>>
    BY <2>2 DEF source
  <2>7. ShippedBindingsMatch'
    BY <2>6 DEF BindingsInv, ShippedBindingsMatch
  <2>8. /\ Matches(head, checked)' /\ Matches(run.commit, run.checked)'
        /\ (\A p \in Paths \ run.lost : Dated(dist[p], p, run.commit, run.checked))'
        /\ ~ (run'.next >= 6)
    BY <2>2, <2>3, <2>4, <2>5, <2>6 DEF BindingsInv, Matches, Dated
  <2> QED BY <2>7, <2>8 DEF BindingsInv
<1>6. CASE Hash
  BY <1>6, HashMatches
<1>7. CASE Sign \/ PackageAar \/ PackageNuget
  BY <1>7, PackagingMatches
<1>8. CASE Publish
  BY <1>8, PublishMatches
<1>9. CASE UNCHANGED vars
  BY <1>9 DEF vars, BindingsInv, ShippedBindingsMatch, HeadersMatch, Matches, Dated
<1> QED BY <1>1, <1>2, <1>3, <1>4, <1>5, <1>6, <1>7, <1>8, <1>9 DEF Next, Workflow

\* Every release of a commit that check-bindings passed on ships libraries, Swift
\* and Kotlin of one version, although the Android and iOS jobs take the committed
\* bindings and not generated ones; and C headers of that version too when
\* cbindgen, whose failure is only a warning, ran in that check
\* (main.rs:129-242 and 420-436, mcpix-ffi build.rs:10-43, release.yml:140-263).
THEOREM ShippedBindings ==
  ASSUME NoneIsNoFile
  PROVE  Spec => []ShippedBindingsMatch
<1>1. Init => BindingsInv
  BY BeforeAssumption DEF Init, BindingsInv, ShippedBindingsMatch, Matches, BeforeAssumption
<1>2. IInv /\ BindingsInv /\ [Next]_vars => BindingsInv'
  BY StepMatches
<1>3. BindingsInv => ShippedBindingsMatch
  BY DEF BindingsInv
<1> QED BY <1>1, <1>2, <1>3, ReleaseIInv, PTL DEF Spec

-----------------------------------------------------------------------------
(***************************************************************************)
(* What build-all leaves in dist/                                          *)
(*                                                                         *)
(* A command that neither is still to run nor failed has left every file   *)
(* of its own fresh; packing the slices of the framework counts as failed  *)
(* after a failed build-ios, so a fresh framework needs no more than the   *)
(* packing.  The Linux build runs first and the packing last.  The C header *)
(* is fresh where cbindgen was not skipped.                                *)
(***************************************************************************)
Fresh(files, p, since, old) ==
  /\ files[p] # None
  /\ p \in Libraries \/ (p[2] = "mcpix.h" /\ ~ old) => files[p].ver >= since
  /\ \A slice \in files[p].parts : slice.ver >= since

Makes(command) ==
  IF command = "linux" THEN ToSet(Linux)
  ELSE IF command = "windows" THEN ToSet(Windows)
  ELSE IF command = "android" THEN ToSet(Android)
  ELSE IF command = "xcframework" THEN ToSet(Xcframework) ELSE {}

Settled(command) == command \in ToSet(AllCommands) \ (failed \cup ToSet(todo))

InOrder ==
  /\ ToSet(todo) \subseteq ToSet(AllCommands)
  /\ \A i \in DOMAIN todo :
       (todo[i] = "linux" => i = 1) /\ (todo[i] = "xcframework" => i = Len(todo))

HeaderFresh == "linux" \notin ToSet(todo) \cup skipped => work.c >= builtAt

SlicesFresh ==
  Settled("ios") => \A t \in ToSet(IosTargets) : compiled[t].ver >= builtAt

FilesFresh ==
  \A c \in Tasks : Settled(c) => \A p \in Makes(c) : Fresh(dist, p, builtAt, c \in skipped)

BuildInv ==
  /\ InOrder
  /\ builtAt > 0 =>
       /\ site # "ci" /\ builtAt <= work.ver
       /\ HeaderFresh /\ SlicesFresh /\ FilesFresh

\* todo holds its head and the rest.
LEMMA Split ==
  ASSUME todo \in Seq(Tasks), todo # <<>>
  PROVE  /\ ToSet(todo) = {Head(todo)} \cup ToSet(Tail(todo)) /\ Head(todo) \in Tasks
         /\ InOrder => /\ Head(todo) # "linux" => "linux" \notin ToSet(todo)
                       /\ "linux" \notin ToSet(Tail(todo))
                       /\ Head(todo) = "xcframework" => todo = <<"xcframework">>
<1>1. /\ Len(todo) \in Nat /\ Len(todo) >= 1 /\ DOMAIN todo = 1..Len(todo)
      /\ Head(todo) = todo[1] /\ Head(todo) \in Tasks
      /\ Tail(todo) \in Seq(Tasks) /\ Len(Tail(todo)) = Len(todo) - 1
      /\ DOMAIN Tail(todo) = 1..(Len(todo) - 1)
      /\ \A i \in 1..(Len(todo) - 1) : Tail(todo)[i] = todo[i + 1]
  <2>1. Len(todo) \in Nat /\ Len(todo) >= 1
    BY EmptySeq, LenProperties
  <2>2. DOMAIN todo = 1..Len(todo) /\ Head(todo) = todo[1] /\ Head(todo) \in Tasks
    BY HeadTailProperties, LenProperties
  <2>3. Tail(todo) \in Seq(Tasks) /\ Len(Tail(todo)) = Len(todo) - 1
        /\ \A i \in 1..Len(Tail(todo)) : Tail(todo)[i] = todo[i + 1]
    BY HeadTailProperties
  <2>4. DOMAIN Tail(todo) = 1..Len(Tail(todo))
    BY <2>3, LenProperties
  <2> QED BY <2>1, <2>2, <2>3, <2>4
<1>2. \A x : x \in ToSet(todo) <=> x = Head(todo) \/ x \in ToSet(Tail(todo))
  <2>1. ASSUME NEW i \in 1..Len(todo), i # 1
        PROVE  i - 1 \in 1..(Len(todo) - 1) /\ (i - 1) + 1 = i
    BY <1>1, <2>1
  <2>2. ASSUME NEW i \in 1..(Len(todo) - 1)
        PROVE  i + 1 \in 1..Len(todo)
    BY <1>1
  <2>3. 1 \in 1..Len(todo)
    BY <1>1
  <2>4. ASSUME NEW i \in 1..Len(todo)
        PROVE  todo[i] = Head(todo) \/ todo[i] \in ToSet(Tail(todo))
    <3>1. CASE i = 1 BY <1>1, <3>1
    <3>2. CASE i # 1
      <4>1. todo[i] = Tail(todo)[i - 1] /\ i - 1 \in DOMAIN Tail(todo)
        BY <1>1, <2>1, <3>2
      <4> QED BY <4>1 DEF ToSet
    <3> QED BY <3>1, <3>2
  <2>5. ASSUME NEW i \in 1..(Len(todo) - 1)
        PROVE  Tail(todo)[i] \in ToSet(todo)
    BY <1>1, <2>2 DEF ToSet
  <2> QED BY <1>1, <2>3, <2>4, <2>5 DEF ToSet
<1>3. ASSUME InOrder
      PROVE  /\ Head(todo) # "linux" => "linux" \notin ToSet(todo)
             /\ "linux" \notin ToSet(Tail(todo))
             /\ Head(todo) = "xcframework" => todo = <<"xcframework">>
  <2>1. Head(todo) # "linux" => "linux" \notin ToSet(todo)
    BY <1>1, <1>3 DEF InOrder, ToSet
  <2>2. "linux" \notin ToSet(Tail(todo))
    <3>1. ASSUME NEW i \in 1..(Len(todo) - 1) PROVE Tail(todo)[i] # "linux"
      <4>1. i + 1 \in DOMAIN todo /\ i + 1 # 1 /\ Tail(todo)[i] = todo[i + 1]
        BY <1>1
      <4> QED BY <1>3, <4>1 DEF InOrder
    <3> QED BY <1>1, <3>1 DEF ToSet
  <2>3. ASSUME Head(todo) = "xcframework" PROVE todo = <<"xcframework">>
    <3>1. 1 \in DOMAIN todo /\ Len(todo) = 1
      BY <1>1, <1>3, <2>3 DEF InOrder
    <3> QED BY <1>1, <2>3, <3>1
  <2> QED BY <2>1, <2>2, <2>3
<1> QED BY <1>1, <1>2, <1>3

LEMMA TailInOrder ==
  ASSUME todo \in Seq(Tasks), todo # <<>>, InOrder, todo' \in {Tail(todo), <<>>}, site' = site
  PROVE  InOrder' /\ ToSet(todo') \subseteq ToSet(todo)
<1>1. AllCommands' = AllCommands
  BY DEF AllCommands, Can
<1>2. CASE todo' = <<>>
  BY <1>1, <1>2 DEF InOrder, ToSet
<1>3. CASE todo' = Tail(todo)
  <2>1. /\ Len(todo) \in Nat /\ DOMAIN todo = 1..Len(todo)
        /\ Len(Tail(todo)) = Len(todo) - 1 /\ DOMAIN Tail(todo) = 1..(Len(todo) - 1)
        /\ \A i \in 1..(Len(todo) - 1) : Tail(todo)[i] = todo[i + 1]
    <3>1. Tail(todo) \in Seq(Tasks) /\ Len(Tail(todo)) = Len(todo) - 1
          /\ \A i \in 1..Len(Tail(todo)) : Tail(todo)[i] = todo[i + 1]
      BY HeadTailProperties
    <3>2. DOMAIN Tail(todo) = 1..Len(Tail(todo)) /\ DOMAIN todo = 1..Len(todo) /\ Len(todo) \in Nat
      BY <3>1, LenProperties
    <3> QED BY <3>1, <3>2
  <2>2. ASSUME NEW i \in DOMAIN Tail(todo)
        PROVE  /\ Tail(todo)[i] # "linux"
               /\ Tail(todo)[i] = "xcframework" => i = Len(Tail(todo))
    <3>1. i + 1 \in DOMAIN todo /\ Tail(todo)[i] = todo[i + 1] /\ i + 1 # 1
      BY <2>1
    <3>2. Tail(todo)[i] = "xcframework" => i + 1 = Len(todo)
      BY <3>1 DEF InOrder
    <3> QED BY <2>1, <3>1, <3>2 DEF InOrder
  <2>3. ToSet(todo') \subseteq ToSet(todo)
    BY <1>3, Split
  <2> HIDE DEF InOrder
  <2>4. /\ ToSet(todo') \subseteq ToSet(AllCommands)
        /\ \A i \in DOMAIN todo' :
             (todo'[i] = "linux" => i = 1) /\ (todo'[i] = "xcframework" => i = Len(todo'))
    BY <1>3, <2>2, <2>3 DEF InOrder
  <2> QED BY <1>1, <2>3, <2>4 DEF InOrder
<1> QED BY <1>2, <1>3

LEMMA MacCommands ==
  ASSUME "xcframework" \in ToSet(AllCommands)
  PROVE  "ios" \in ToSet(AllCommands)
<1>1. CASE Can("ios")
  BY <1>1, ConcatProperties DEF AllCommands, ToSet
<1>2. CASE ~ Can("ios")
  BY <1>2 DEF AllCommands, ToSet
<1> QED BY <1>1, <1>2

\* build-all runs its commands in this order.
LEMMA CommandsInOrder ==
  /\ "linux" \in ToSet(AllCommands)
  /\ \A i \in DOMAIN AllCommands :
       /\ AllCommands[i] = "linux" => i = 1
       /\ AllCommands[i] = "xcframework" => i = Len(AllCommands)
<1> DEFINE first == <<"linux", "windows", "android">>
           apple == <<"ios", "xcframework">>
<1>1. /\ first \in Seq(Tasks) /\ Len(first) = 3 /\ first[1] = "linux"
      /\ first[2] = "windows" /\ first[3] = "android"
      /\ apple \in Seq(Tasks) /\ Len(apple) = 2 /\ apple[1] = "ios" /\ apple[2] = "xcframework"
      /\ <<>> \in Seq(Tasks) /\ Len(<<>>) = 0
  BY DEF Tasks
<1>2. CASE Can("ios")
  <2>1. AllCommands = first \o apple
    BY <1>2 DEF AllCommands
  <2> HIDE DEF first, apple
  <2>2. AllCommands \in Seq(Tasks) /\ Len(AllCommands) = 5
        /\ \A i \in 1..5 : AllCommands[i] = IF i <= 3 THEN first[i] ELSE apple[i - 3]
    <3>1. /\ AllCommands \in Seq(Tasks) /\ Len(AllCommands) = Len(first) + Len(apple)
          /\ \A i \in 1..(Len(first) + Len(apple)) :
               AllCommands[i] = IF i <= Len(first) THEN first[i] ELSE apple[i - Len(first)]
      BY <1>1, <2>1, ConcatProperties
    <3> QED BY <1>1, <3>1
  <2>3. DOMAIN AllCommands = 1..5
    BY <2>2, LenProperties
  <2> QED BY <1>1, <2>2, <2>3 DEF ToSet
<1>3. CASE ~ Can("ios")
  <2>1. AllCommands = first \o <<>>
    BY <1>3 DEF AllCommands
  <2>2. AllCommands = first
    BY <1>1, <2>1, ConcatEmptySeq
  <2>3. DOMAIN first = 1..3
    OBVIOUS
  <2> QED BY <1>1, <2>2, <2>3 DEF ToSet
<1> QED BY <1>2, <1>3

\* The head of todo ends: it is settled only if it succeeded, and nothing else
\* becomes settled.
LEMMA DoneSettles ==
  ASSUME IInv, InOrder, NEW ok \in BOOLEAN, todo # <<>>, Done(ok), builtAt' > 0
  PROVE  /\ InOrder' /\ builtAt' = builtAt /\ site' = site /\ site # "ci"
         /\ \A c : Settled(c)' /\ c # Head(todo) => Settled(c)
         /\ \A c : Settled(c)' /\ c = Head(todo)
                     => ok /\ (c = "xcframework" => Settled("ios"))
         /\ "linux" \in ToSet(todo) => Head(todo) = "linux" /\ ok
<1>0. todo \in Seq(Tasks)
  BY DEF IInv, TypeOK
<1>1. site' = site /\ site # "ci"
  BY DEF Done, IInv
<1>2. AllCommands' = AllCommands
  BY <1>1 DEF AllCommands, Can
<1>3. ~ (Head(todo) = "linux" /\ ~ ok) /\ todo' = Tail(todo) /\ builtAt' = builtAt
  BY DEF Done
<1>4. InOrder' /\ ToSet(todo) = {Head(todo)} \cup ToSet(todo')
  BY <1>0, <1>1, <1>3, TailInOrder, Split
<1> DEFINE good == ok /\ (Head(todo) = "xcframework" => "ios" \notin failed)
<1>5. /\ good => failed' = failed \ {Head(todo)}
      /\ ~ good => failed' = failed \cup {Head(todo)}
  BY Zenon DEF Done
<1> HIDE DEF good
<1>6. ASSUME NEW c, Settled(c)', c # Head(todo) PROVE Settled(c)
  BY <1>2, <1>4, <1>5, <1>6 DEF Settled
<1>7. ASSUME NEW c, Settled(c)', c = Head(todo)
      PROVE  ok /\ (c = "xcframework" => Settled("ios"))
  <2>1. good
    BY <1>5, <1>7 DEF Settled
  <2>2. ASSUME c = "xcframework" PROVE Settled("ios")
    <3>1. ToSet(todo) = {"xcframework"}
      BY <1>0, <1>7, <2>2, Split DEF ToSet
    <3>2. "ios" \in ToSet(AllCommands)
      <4>1. "xcframework" \in ToSet(AllCommands)
        BY <1>2, <1>7, <2>2 DEF Settled
      <4> QED BY <4>1, MacCommands
    <3> QED BY <1>7, <2>1, <2>2, <3>1, <3>2 DEF Settled, good
  <2> QED BY <2>1, <2>2 DEF good
<1>8. "linux" \in ToSet(todo) => Head(todo) = "linux" /\ ok
  BY <1>0, <1>3, Split
<1> QED BY <1>1, <1>3, <1>4, <1>6, <1>7, <1>8

LEMMA DoneSkips ==
  ASSUME NEW ok \in BOOLEAN, Done(ok)
  PROVE  /\ \A c : c # Head(todo) => (c \in skipped' <=> c \in skipped)
         /\ ok => (Head(todo) \in skipped' <=> OldHeader(Head(todo)))
<1>1. CASE ~ ok
  <2>1. skipped' = skipped
    BY <1>1, Zenon DEF Done
  <2> QED BY <1>1, <2>1
<1>2. CASE ok /\ OldHeader(Head(todo))
  <2>1. skipped' = skipped \cup {Head(todo)}
    BY <1>2, Zenon DEF Done
  <2> QED BY <1>2, <2>1
<1>3. CASE ok /\ ~ OldHeader(Head(todo))
  <2>1. skipped' = skipped \ {Head(todo)}
    BY <1>3, Zenon DEF Done
  <2> QED BY <1>3, <2>1
<1> QED BY <1>1, <1>2, <1>3

LEMMA DoneBuildInv ==
  ASSUME IInv, BuildInv, NEW ok \in BOOLEAN, todo # <<>>, Done(ok),
         work'.ver = work.ver, work'.c \in {work.c, work.ver},
         \A t \in ToSet(IosTargets) : compiled'[t] = compiled[t] \/ Head(todo) = "ios",
         ok /\ Head(todo) = "ios" => \A t \in ToSet(IosTargets) : compiled'[t].ver = work.ver,
         builtAt > 0 =>
           /\ \A c \in Tasks \ {Head(todo)} : \A p \in Makes(c) :
                dist'[p] = dist[p] \/ Fresh(dist', p, builtAt, FALSE)
           /\ ok /\ (Head(todo) = "xcframework" => Settled("ios")) =>
                \A p \in Makes(Head(todo)) :
                  Fresh(dist', p, builtAt, Head(todo) \in skipped')
  PROVE  BuildInv'
<1>1. CASE ~ (builtAt' > 0)
  <2>1. InOrder'
    <3>1. todo \in Seq(Tasks) /\ todo' \in {Tail(todo), <<>>} /\ site' = site
      BY DEF Done, IInv, TypeOK
    <3> QED BY <3>1, TailInOrder DEF BuildInv
  <2> QED BY <1>1, <2>1 DEF BuildInv
<1>2. CASE builtAt' > 0
  <2>1. /\ InOrder' /\ builtAt' = builtAt /\ site' = site /\ site # "ci"
        /\ \A c : Settled(c)' /\ c # Head(todo) => Settled(c)
        /\ \A c : Settled(c)' /\ c = Head(todo)
                    => ok /\ (c = "xcframework" => Settled("ios"))
        /\ "linux" \in ToSet(todo) => Head(todo) = "linux" /\ ok
    BY <1>2, DoneSettles DEF BuildInv
  <2>2. builtAt > 0 /\ builtAt <= work.ver /\ HeaderFresh /\ SlicesFresh /\ FilesFresh
    BY <1>2, <2>1 DEF BuildInv
  <2>3. work.ver \in Nat /\ builtAt \in Nat
    BY DEF IInv, TypeOK, Tree, Versions
  <2>a. /\ \A c : c # Head(todo) => (c \in skipped' <=> c \in skipped)
        /\ ok => (Head(todo) \in skipped' <=> OldHeader(Head(todo)))
    BY DoneSkips
  <2>4. HeaderFresh'
    <3>1. CASE "linux" \in ToSet(todo)
      <4>1. "linux" \notin skipped' => work'.c = work'.ver
        BY <2>1, <2>a, <3>1 DEF OldHeader
      <4> QED BY <2>1, <2>2, <2>3, <4>1 DEF HeaderFresh
    <3>2. CASE "linux" \notin ToSet(todo)
      <4>1. Head(todo) # "linux"
        BY <3>2, Split DEF IInv, TypeOK
      <4>2. "linux" \notin skipped' => work.c >= builtAt
        BY <2>2, <2>a, <3>2, <4>1 DEF HeaderFresh
      <4> QED BY <2>1, <2>2, <2>3, <4>2 DEF HeaderFresh
    <3> QED BY <3>1, <3>2
  <2>5. SlicesFresh'
    <3> SUFFICES ASSUME Settled("ios")', NEW t \in ToSet(IosTargets)
                 PROVE  compiled'[t].ver >= builtAt
      BY <2>1 DEF SlicesFresh, IosTargets
    <3>1. CASE Head(todo) = "ios"
      BY <2>1, <2>2, <2>3, <3>1
    <3>2. CASE Head(todo) # "ios"
      BY <2>1, <2>2, <3>2 DEF SlicesFresh
    <3> QED BY <3>1, <3>2
  <2>6. FilesFresh'
    <3> SUFFICES ASSUME NEW c \in Tasks, Settled(c)', NEW p \in Makes(c)
                 PROVE  Fresh(dist', p, builtAt, c \in skipped')
      BY <2>1 DEF FilesFresh, Fresh
    <3>1. CASE Head(todo) = c
      BY <2>1, <2>2, <3>1
    <3>2. CASE Head(todo) # c
      <4>1. Fresh(dist, p, builtAt, c \in skipped) /\ (c \in skipped' <=> c \in skipped)
        BY <2>1, <2>2, <2>a, <3>2 DEF FilesFresh
      <4>2. dist'[p] = dist[p] \/ Fresh(dist', p, builtAt, FALSE)
        BY <2>2, <3>2
      <4> QED BY <4>1, <4>2 DEF Fresh
    <3> QED BY <3>1, <3>2
  <2> QED BY <2>1, <2>2, <2>4, <2>5, <2>6 DEF BuildInv
<1> QED BY <1>1, <1>2

LEMMA MakesPaths == \A c \in Tasks : Makes(c) \subseteq Paths
BY DEF Makes, Tasks, Paths, Built

\* Only the packing writes the framework, and it writes nothing else.
LEMMA FrameworkApart ==
  /\ ToSet(Xcframework) \cap (ToSet(Linux) \cup ToSet(Windows) \cup ToSet(Android)) = {}
  /\ \A p \in ToSet(Xcframework) : p \notin Libraries /\ p[2] # "mcpix.h"
<1>1. \A p \in ToSet(Android) : p[2] \in {"libmcpix_uniffi.so", "mcpix.h"}
  <2>1. <<"android/include", "mcpix.h">>[2] = "mcpix.h"
    OBVIOUS
  <2> QED BY <2>1, Names, FileLists
<1> QED BY <1>1, Names DEF Libraries

\* Commands that write a same path write a library there, never the C header.
LEMMA HeadersApart ==
  ASSUME NEW c \in Tasks, NEW q \in Tasks \ {c}, NEW p \in Makes(c), p \in Makes(q)
  PROVE  p[2] # "mcpix.h"
<1> SUFFICES ASSUME p[2] = "mcpix.h" PROVE FALSE
  OBVIOUS
<1>1. p \in ToSet(Linux) => p = <<"linux-x86_64", "mcpix.h">>
  BY FileLists DEF Linux
<1>2. p \in ToSet(Windows) => p = <<"windows-x86_64", "mcpix.h">>
  BY FileLists DEF Windows
<1>3. p \in ToSet(Android) => p = <<"android/include", "mcpix.h">>
  BY FileLists, Names
<1>4. p \notin ToSet(Xcframework)
  BY Names
<1> QED BY <1>1, <1>2, <1>3, <1>4 DEF Makes, Tasks

LEMMA CopiedAll ==
  ASSUME NEW d, NEW files, NEW n, 1..n = DOMAIN files, NEW out, NEW p \in Paths,
         p \in ToSet(files)
  PROVE  Copied(d, files, n, out)[p] = out[p]
BY DEF Copied, ToSet

LEMMA OutputsFresh ==
  ASSUME NoneIsNoFile, NEW files, NEW unit, NEW tree, NEW p \in ToSet(files), NEW since,
         unit.ver >= since, NEW old \in BOOLEAN, ~ old => tree.c >= since
  PROVE  Fresh(Outputs(files, unit, tree), p, since, old)
<1>1. Outputs(files, unit, tree)[p] # None
  BY OutputsThere
<1>2. Outputs(files, unit, tree)[p]
        = IF p[2] = "mcpix.h" THEN Binding("mcpix.h", tree.c) ELSE Library(p, unit)
  BY DEF Outputs
<1>3. /\ Binding("mcpix.h", tree.c).ver = tree.c /\ Binding("mcpix.h", tree.c).parts = {}
      /\ Library(p, unit).ver = unit.ver /\ Library(p, unit).parts = {}
  BY DEF Binding, Library
<1>4. p \in Libraries => p[2] # "mcpix.h"
  BY DEF Libraries
<1> QED BY <1>1, <1>2, <1>3, <1>4 DEF Fresh

LEMMA CargoBuildInv ==
  ASSUME NoneIsNoFile, IInv, BuildInv, NEW c \in {"linux", "windows", "android"},
         NEW trees, \A tree \in trees : tree.ver = work.ver /\ tree.c \in {work.c, work.ver},
         NEW files, files \in Seq(Makes(c)), Makes(c) = ToSet(files),
         NEW n \in 0..Len(files),
         CargoFails(c, trees) \/ CargoBuilds(c, trees, files, n)
  PROVE  BuildInv'
<1>0. /\ todo # <<>> /\ Head(todo) = c /\ c \in Tasks
      /\ work'.ver = work.ver /\ work'.c \in {work.c, work.ver}
  BY DEF CargoFails, CargoBuilds, Tasks
<1>1. CASE CargoFails(c, trees)
  BY <1>0, <1>1, DoneBuildInv DEF CargoFails
<1>2. CASE CargoBuilds(c, trees, files, n)
  <2> DEFINE ok == n = Len(files)
             unit == Unit(work, stamp)
             out == Outputs(files, unit, work')
  <2>1. ok \in BOOLEAN /\ Done(ok)
        /\ dist' = Copied(dist, files, n, out)
    BY <1>2 DEF CargoBuilds
  <2>2. \A t \in ToSet(IosTargets) : compiled'[t] = compiled[t]
    <3>1. \A t \in ToSet(IosTargets) : t \in Units /\ t # c
      BY DEF IosTargets, Units, ToSet
    <3> QED BY <1>2, <3>1 DEF CargoBuilds, IInv, TypeOK
  <2>3. DOMAIN files = 1..Len(files) /\ 1..n \subseteq DOMAIN files
    BY LenProperties
  <2>4. ASSUME builtAt > 0
        PROVE  /\ unit.ver >= builtAt
               /\ ok /\ c \notin skipped' => work'.c >= builtAt
    <3>1. work.ver \in Nat /\ builtAt \in Nat /\ builtAt <= work.ver /\ HeaderFresh
      BY <2>4 DEF BuildInv, IInv, TypeOK, Tree, Versions
    <3>2. unit.ver >= builtAt
      BY <3>1 DEF Unit
    <3>3. ASSUME ok, c \notin skipped' PROVE work'.c >= builtAt
      <4>1. ~ OldHeader(c)
        BY <1>0, <2>1, <3>3, DoneSkips
      <4>2. CASE c \in {"linux", "windows"}
        BY <1>0, <3>1, <4>1, <4>2 DEF OldHeader
      <4>3. CASE c = "android"
        <5>1. "linux" \notin skipped /\ "linux" \notin ToSet(todo)
          BY <1>0, <4>1, <4>3, Split DEF OldHeader, BuildInv, IInv, TypeOK
        <5>2. work.c >= builtAt
          BY <3>1, <5>1 DEF HeaderFresh
        <5> QED BY <1>0, <3>1, <5>2
      <4> QED BY <4>2, <4>3
    <3> HIDE DEF ok, unit
    <3> QED BY <3>2, <3>3
  <2> HIDE DEF ok, unit
  <2>5. ASSUME builtAt > 0, NEW p \in ToSet(files)
        PROVE  /\ Fresh(out, p, builtAt, TRUE)
               /\ ok => Fresh(out, p, builtAt, c \in skipped')
    <3>1. Fresh(out, p, builtAt, TRUE)
      BY <2>4, <2>5, OutputsFresh
    <3>2. ASSUME ok PROVE Fresh(out, p, builtAt, c \in skipped')
      <4>1. (c \in skipped') \in BOOLEAN /\ (~ (c \in skipped') => work'.c >= builtAt)
        BY <2>4, <2>5, <3>2
      <4> QED BY <2>4, <2>5, <4>1, OutputsFresh
    <3> QED BY <3>1, <3>2
  <2> HIDE DEF out
  <2>6. ASSUME builtAt > 0, NEW q \in Tasks \ {c}, NEW p \in Makes(q)
        PROVE  dist'[p] = dist[p] \/ Fresh(dist', p, builtAt, FALSE)
    <3>0. p \in Paths
      BY MakesPaths
    <3>1. dist'[p] = dist[p] \/ (p \in ToSet(files) /\ dist'[p] = out[p])
      BY <2>1, <2>3, <3>0 DEF Copied, ToSet
    <3>2. p \in ToSet(files) => p[2] # "mcpix.h"
      BY <1>0, HeadersApart
    <3> QED BY <2>5, <2>6, <3>1, <3>2 DEF Fresh
  <2>7. ASSUME builtAt > 0, ok, NEW p \in Makes(c)
        PROVE  Fresh(dist', p, builtAt, c \in skipped')
    <3>0. p \in Paths /\ p \in ToSet(files)
      BY <1>0, MakesPaths
    <3>1. 1..n = DOMAIN files
      BY <2>3, <2>7 DEF ok
    <3>2. dist'[p] = out[p]
      BY <2>1, <3>0, <3>1, CopiedAll
    <3> QED BY <2>5, <2>7, <3>0, <3>2 DEF Fresh
  <2> QED BY <1>0, <2>1, <2>2, <2>6, <2>7, DoneBuildInv
<1> QED BY <1>1, <1>2

LEMMA IosBuildInv ==
  ASSUME IInv, BuildInv, BuildIos
  PROVE  BuildInv'
<1>1. PICK n \in 0..Len(IosTargets) :
        /\ compiled' = [u \in Units |->
             IF \E i \in 1..n : IosTargets[i] = u THEN Unit(work, stamp) ELSE compiled[u]]
        /\ Done(n = Len(IosTargets))
  BY DEF BuildIos
<1>2. todo # <<>> /\ Head(todo) = "ios" /\ UNCHANGED <<work, dist>>
  BY DEF BuildIos
<1> DEFINE ok == n = Len(IosTargets)
<1>3. ok => \A t \in ToSet(IosTargets) : compiled'[t].ver = work.ver
  <2>1. Len(IosTargets) = 3 /\ DOMAIN IosTargets = 1..3
        /\ \A t \in ToSet(IosTargets) : t \in Units
    BY DEF IosTargets, Units, ToSet
  <2>2. Unit(work, stamp).ver = work.ver
    BY DEF Unit
  <2> QED BY <1>1, <2>1, <2>2 DEF ToSet
<1>4. ok \in BOOLEAN /\ Done(ok)
  BY <1>1
<1>5. Makes("ios") = {}
  BY DEF Makes
<1> HIDE DEF ok
<1> QED BY <1>2, <1>3, <1>4, <1>5, DoneBuildInv

LEMMA XcFresh ==
  ASSUME NoneIsNoFile, NEW units, NEW tree, NEW since, NEW p \in ToSet(Xcframework),
         NEW old, \A t \in ToSet(IosTargets) : units[t].ver >= since
  PROVE  Fresh(XcOutputs(units, tree), p, since, old)
<1> DEFINE slices == {Library(<<"target", t>>, units[t]) : t \in ToSet(IosTargets)}
           sims == {l \in slices : l.of[2] # "aarch64-apple-ios"}
           out == XcOutputs(units, tree)[p]
<1>1. \A l \in slices : l.ver >= since
  BY DEF Library
<1>2. out.parts \in {{}, slices, sims}
  BY DEF XcOutputs, Binding, Package
<1>3. out # None
  BY XcOutputsThere
<1>4. \A l \in out.parts : l.ver >= since
  BY <1>1, <1>2
<1> QED BY <1>3, <1>4, FrameworkApart DEF Fresh

LEMMA PackageBuildInv ==
  ASSUME NoneIsNoFile, IInv, BuildInv, PackageXcframework
  PROVE  BuildInv'
<1>1. todo # <<>> /\ Head(todo) = "xcframework" /\ UNCHANGED <<work, compiled>>
      /\ "xcframework" \in Tasks
  BY DEF PackageXcframework, Tasks
<1>2. CASE UNCHANGED dist /\ Done(FALSE)
  BY <1>1, <1>2, DoneBuildInv
<1>3. CASE ~ (UNCHANGED dist /\ Done(FALSE))
  <2>1. PICK n \in 0..Len(Xcframework) :
          dist' = PackagedXcframework(dist, n, compiled, work) /\ Done(n = Len(Xcframework))
    BY <1>3 DEF PackageXcframework
  <2> DEFINE ok == n = Len(Xcframework)
             out == XcOutputs(compiled, work)
             copied == Copied(dist, Xcframework, n, out)
  <2>2. Len(Xcframework) = 3 /\ DOMAIN Xcframework = 1..3 /\ Xcframework[3] \in ToSet(Xcframework)
        /\ 1..n \subseteq DOMAIN Xcframework
    <3>1. Len(Xcframework) = 3 /\ DOMAIN Xcframework = 1..3
      BY DEF Xcframework
    <3> QED BY <3>1 DEF ToSet
  <2>3. ok \in BOOLEAN /\ Done(ok)
    BY <2>1
  <2>4. ASSUME NEW q \in Tasks \ {"xcframework"}, NEW p \in Makes(q)
        PROVE  dist'[p] = dist[p]
    <3>1. p \in Paths /\ p \notin ToSet(Xcframework)
      <4>1. p \in ToSet(Linux) \cup ToSet(Windows) \cup ToSet(Android)
        BY DEF Makes, Tasks
      <4> QED BY <4>1, MakesPaths, FrameworkApart
    <3> HIDE DEF out
    <3>2. copied[p] = dist[p] /\ DOMAIN copied = Paths
      BY <2>2, <3>1 DEF copied, Copied, ToSet
    <3> HIDE DEF copied
    <3>4. p # Xcframework[3]
      BY <2>2, <3>1
    <3>3. PackagedXcframework(dist, n, compiled, work)
            \in {copied, [copied EXCEPT ![Xcframework[3]] = None]}
      BY DEF PackagedXcframework, out, copied
    <3> QED BY <2>1, <3>1, <3>2, <3>3, <3>4
  <2>5. ASSUME builtAt > 0, ok, Settled("ios"), NEW p \in Makes("xcframework")
        PROVE  Fresh(dist', p, builtAt, "xcframework" \in skipped')
    <3>1. p \in ToSet(Xcframework) /\ p \in Paths
      BY <1>1, MakesPaths DEF Makes
    <3>2. \A t \in ToSet(IosTargets) : compiled[t].ver >= builtAt
      BY <2>5 DEF BuildInv, SlicesFresh
    <3>3. Fresh(out, p, builtAt, "xcframework" \in skipped')
      BY <3>1, <3>2, XcFresh
    <3> HIDE DEF out
    <3>0. 1..n = DOMAIN Xcframework
      BY <2>2, <2>5
    <3>4. copied[p] = out[p]
      BY <3>0, <3>1, CopiedAll
    <3>5. dist' = copied
      BY <2>1, <2>2, <2>5 DEF PackagedXcframework, out
    <3> QED BY <3>3, <3>4, <3>5 DEF Fresh
  <2> HIDE DEF ok
  <2> QED BY <1>1, <2>3, <2>4, <2>5, DoneBuildInv
<1> QED BY <1>2, <1>3

LEMMA StartBuildInv ==
  ASSUME IInv, BuildInv, BuildAll \/ Command
  PROVE  BuildInv'
<1>0. site # "ci" /\ todo = <<>> /\ site' = site /\ failed' = failed
      /\ UNCHANGED <<work, compiled, dist, skipped>>
  BY DEF BuildAll, Command, Start, source
<1>1. AllCommands' = AllCommands
  BY <1>0 DEF AllCommands, Can
<1>2. work.ver \in Nat
  BY DEF IInv, TypeOK, Tree, Versions
<1>3. CASE BuildAll
  <2>1. todo' = AllCommands /\ builtAt' = work.ver
    BY <1>3 DEF BuildAll, Start
  <2>2. \A c : ~ Settled(c)'
    BY <1>1, <2>1 DEF Settled
  <2>3. "linux" \in ToSet(todo')
    BY <2>1, CommandsInOrder
  <2>4. InOrder'
    BY <1>1, <2>1, CommandsInOrder DEF InOrder
  <2>5. HeaderFresh' /\ SlicesFresh' /\ FilesFresh'
    BY <2>2, <2>3 DEF HeaderFresh, SlicesFresh, FilesFresh
  <2> QED BY <1>0, <1>2, <2>1, <2>4, <2>5 DEF BuildInv
<1>4. CASE Command
  <2>1. PICK c \in ToSet(AllCommands) : todo' = <<c>> /\ builtAt' = builtAt
    BY <1>4 DEF Command, Start
  <2>2. ToSet(todo') = {c} /\ ToSet(todo) = {}
    BY <1>0, <2>1 DEF ToSet
  <2>3. InOrder'
    BY <1>1, <2>1, <2>2 DEF InOrder
  <2>4. \A q : Settled(q)' => Settled(q)
    BY <1>0, <1>1, <2>2 DEF Settled
  <2>5. builtAt > 0 => HeaderFresh' /\ SlicesFresh' /\ FilesFresh'
    BY <1>0, <2>1, <2>2, <2>4 DEF BuildInv, HeaderFresh, SlicesFresh, FilesFresh, Fresh
  <2> QED BY <1>0, <2>1, <2>3, <2>5 DEF BuildInv
<1> QED BY <1>3, <1>4

\* Steps that build nothing.
LEMMA IdleBuildInv ==
  ASSUME IInv, BuildInv, UNCHANGED <<site, compiled, todo, failed, skipped, builtAt>>,
         work'.ver \in Nat,
         builtAt > 0 => dist' = dist /\ work'.ver >= work.ver /\ work'.c \in {work.c, work.ver}
  PROVE  BuildInv'
<1>1. AllCommands' = AllCommands /\ \A c : Settled(c)' <=> Settled(c)
  BY DEF AllCommands, Can, Settled
<1>2. InOrder'
  BY <1>1 DEF BuildInv, InOrder
<1>3. ASSUME builtAt > 0
      PROVE  site # "ci" /\ builtAt <= work'.ver /\ HeaderFresh' /\ SlicesFresh' /\ FilesFresh'
  <2>1. work.ver \in Nat /\ builtAt \in Nat
    BY DEF IInv, TypeOK, Tree, Versions
  <2>2. site # "ci" /\ builtAt <= work.ver /\ HeaderFresh /\ SlicesFresh /\ FilesFresh
    BY <1>3 DEF BuildInv
  <2>3. site # "ci" /\ builtAt <= work'.ver /\ HeaderFresh'
    BY <1>3, <2>1, <2>2 DEF HeaderFresh
  <2>4. SlicesFresh'
    BY <1>1, <2>2 DEF SlicesFresh
  <2>5. FilesFresh'
    BY <1>1, <1>3, <2>2 DEF FilesFresh, Fresh
  <2> QED BY <2>3, <2>4, <2>5
<1> QED BY <1>2, <1>3 DEF BuildInv

LEMMA FileSeqs == Linux \in Seq(ToSet(Linux)) /\ Windows \in Seq(ToSet(Windows))
<1>1. \A S : \A x, y, z \in S : <<x, y, z>> \in Seq(S)
  OBVIOUS
<1>2. {Linux[1], Linux[2], Linux[3]} \subseteq ToSet(Linux)
      /\ Linux = <<Linux[1], Linux[2], Linux[3]>>
  BY FileLists DEF Linux
<1>3. {Windows[1], Windows[2], Windows[3]} \subseteq ToSet(Windows)
      /\ Windows = <<Windows[1], Windows[2], Windows[3]>>
  BY FileLists DEF Windows
<1> QED BY <1>1, <1>2, <1>3

LEMMA StepBuildInv ==
  ASSUME NoneIsNoFile, IInv, BuildInv, [Next]_vars
  PROVE  BuildInv'
<1>0. work.ver \in Nat /\ (site = "ci" => builtAt = 0)
  <2>1. work.ver \in Nat /\ builtAt \in Nat
    BY DEF IInv, TypeOK, Tree, Versions
  <2> QED BY <2>1 DEF BuildInv
<1>1. \A tree \in WithHeader(work) :
        /\ tree.ver = work.ver /\ tree.c \in {work.c, work.ver}
        /\ \A n : /\ Generated(tree, n).ver = work.ver
                  /\ Generated(tree, n).c \in {work.c, work.ver}
  BY DEF WithHeader, Refreshed, Generated, IInv, TypeOK, Tree
<1>2. CASE Maintain
  <2>1. /\ UNCHANGED <<site, compiled, dist, todo, failed, skipped, builtAt>>
        /\ work'.ver \in {work.ver, work.ver + 1} /\ work'.c \in {work.c, work.ver}
    <3>1. CASE Edit
      BY <3>1 DEF Edit, local, IInv, TypeOK, Tree
    <3>2. ASSUME NEW n \in 0..2, GenBindings(n)
          PROVE  /\ UNCHANGED <<site, compiled, dist, todo, failed, skipped, builtAt>>
                 /\ work'.ver = work.ver /\ work'.c \in {work.c, work.ver}
      BY <1>1, <3>2 DEF GenBindings, local
    <3>3. CASE DeleteKey \/ \E k \in PublicKeys : GenReleaseKey(k)
      BY <3>3 DEF DeleteKey, GenReleaseKey, local, IInv, TypeOK, Tree
    <3>4. CASE Commit \/ CheckBindings \/ SetSecret
      BY <3>4 DEF Commit, CheckBindings, SetSecret, local
    <3> QED BY <1>2, <3>1, <3>2, <3>3, <3>4 DEF Maintain
  <2>2. work'.ver \in Nat /\ work'.ver >= work.ver
    BY <1>0, <2>1
  <2> QED BY <2>1, <2>2, IdleBuildInv
<1>3. CASE BuildAll \/ Command
  BY <1>3, StartBuildInv
<1>4. CASE BuildLinux
  <2>1. PICK n \in 0..Len(Linux) : \/ CargoFails("linux", WithHeader(work))
                                   \/ CargoBuilds("linux", WithHeader(work), Linux, n)
    <3>1. 0 \in 0..Len(Linux)
      BY DEF Linux
    <3> QED BY <1>4, <3>1 DEF BuildLinux
  <2>2. Linux \in Seq(Makes("linux")) /\ Makes("linux") = ToSet(Linux)
    BY FileSeqs DEF Makes
  <2> QED BY <1>1, <2>1, <2>2, CargoBuildInv
<1>5. CASE BuildWindows
  <2>1. PICK n \in 0..Len(Windows) : \/ CargoFails("windows", WithHeader(work))
                                     \/ CargoBuilds("windows", WithHeader(work), Windows, n)
    <3>1. 0 \in 0..Len(Windows)
      BY DEF Windows
    <3> QED BY <1>5, <3>1 DEF BuildWindows
  <2>2. Windows \in Seq(Makes("windows")) /\ Makes("windows") = ToSet(Windows)
    BY FileSeqs DEF Makes
  <2> QED BY <1>1, <2>1, <2>2, CargoBuildInv
<1>6. CASE BuildAndroid
  <2>1. PICK n \in 0..Len(Android) :
          CargoFails("android", {work}) \/ CargoBuilds("android", {work}, Android, n)
    <3>1. 0 \in 0..Len(Android)
      BY AndroidIsSeq, LenProperties
    <3> QED BY <1>6, <3>1 DEF BuildAndroid
  <2>2. Android \in Seq(Makes("android")) /\ Makes("android") = ToSet(Android)
    BY AndroidIsSeq DEF Makes
  <2>3. \A tree \in {work} : tree.ver = work.ver /\ tree.c \in {work.c, work.ver}
    OBVIOUS
  <2> QED BY <2>1, <2>2, <2>3, CargoBuildInv
<1>7. CASE BuildIos \/ PackageXcframework
  BY <1>7, IosBuildInv, PackageBuildInv
<1>8. CASE Workflow
  <2>1. UNCHANGED <<source, local>> /\ site = "ci"
    BY <1>8, Shapes DEF Workflow, ModeGate, RunFails, HermeticGate, Job, InPackage, Hash, Sign,
                        PackageAar, PackageNuget, Publish
  <2> QED BY <1>0, <2>1, IdleBuildInv DEF source, local
<1>9. CASE UNCHANGED vars
  BY <1>0, <1>9, IdleBuildInv DEF vars
<1> QED BY <1>2, <1>3, <1>4, <1>5, <1>6, <1>7, <1>8, <1>9 DEF Next, Build

\* After a build-all that returned without an error, every file of dist/ is
\* there and made from the source of that build or a later one, unless a command
\* that makes it reported a failure since or, for the C header, went on after the
\* warning of a skipped cbindgen, in whatever order the maintainer edits and
\* repeats single builds (main.rs:340-373 only warns of failures, and so does
\* mcpix-ffi build.rs:37-42).
THEOREM BuildAllLeavesFreshFiles ==
  ASSUME NoneIsNoFile
  PROVE  Spec => []StaleOnlyIfReported
<1>1. Init => BuildInv
  BY DEF Init, BuildInv, InOrder, ToSet
<1>2. IInv /\ BuildInv /\ [Next]_vars => BuildInv'
  BY StepBuildInv
<1>3. BuildInv => StaleOnlyIfReported
  <2> SUFFICES ASSUME BuildInv, builtAt > 0, todo = <<>>, NEW p \in Built,
                      Commands(p) \subseteq ToSet(AllCommands) \ failed
               PROVE  Fresh(dist, p, builtAt, Commands(p) \cap skipped # {})
    BY DEF StaleOnlyIfReported, Fresh
  <2>1. ToSet(todo) = {}
    BY DEF ToSet
  <2>2. PICK c \in Commands(p) : c \in Tasks /\ p \in Makes(c)
    BY DEF Commands, Makes, Tasks, Built
  <2>3. Fresh(dist, p, builtAt, c \in skipped)
    BY <2>1, <2>2 DEF BuildInv, FilesFresh, Settled
  <2>4. c \in skipped => Commands(p) \cap skipped # {}
    BY <2>2
  <2> QED BY <2>3, <2>4 DEF Fresh
<1> QED BY <1>1, <1>2, <1>3, ReleaseIInv, PTL DEF Spec

=============================================================================
