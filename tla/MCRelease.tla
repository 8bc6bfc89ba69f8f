----------------------------- MODULE MCRelease -----------------------------
(* Release with two source versions, two keys, one Android ABI and a release *)
(* of the first commit, made when no digest was stamped yet.                 *)
EXTENDS Release
OneAbi == <<"android/jniLibs/arm64-v8a">>
Machines == [m \in {"mingw", "ndk", "mac"} |->
               IF m = "mingw" THEN {"linux", "windows"}
               ELSE IF m = "ndk" THEN {"linux", "android"} ELSE {"linux", "ios"}]
\* A library that is also packed and shares its name with another.
Unsafe == {JniLibs[1]}
FirstRelease ==
  LET tree == [ver |-> 1, c |-> 1, swift |-> 1, kotlin |-> 1, key |-> FirstKey]
      merged(d, j) == Merged(d, JobOutputs(j, tree, None, tree, tree), {}, {})
      built == merged(merged(merged(Empty, "linux-windows"), "android"), "ios")
      packed == PackagedNuget(PackagedAar(
                  SignArtifacts(HashArtifacts(built), FirstKey), tree), tree)
  IN ReleaseOf(tree, {}, {}, SignArtifacts(HashArtifacts(packed), FirstKey))
Earlier == {FirstRelease}
\* An old build, which was not published.  Nothing is stamped in FirstRelease.
Stamps == {Malformed, Library(Linux[1], [ver |-> 0, key |-> FirstKey, stamped |-> None])}
\* Which of two equally named libraries comes first depends on the version.
PlaceOf(d) == IF d.of \in ToSet(Linux) THEN d.ver ELSE IF d.of[1] = OneAbi[1] THEN 3 - d.ver ELSE 3
TextEnds(path, name) ==
  LET text == path[1] \o "/" \o path[2]
  IN Len(name) <= Len(text)
     /\ SubSeq(text, Len(text) - Len(name) + 1, Len(text)) = name
Named == HostNames \cup {p[2] : p \in Paths}
Endings == {<<p, n>> \in (Paths \cup {<<"", n>> : n \in Named}) \X Named : TextEnds(p, n)}
IsEnding(path, name) == <<path, name>> \in Endings
============================================================================
