----------------------------- MODULE Integrity -----------------------------
(***************************************************************************)
(* The self-check of a library (core integrity.rs and signature.rs,        *)
(* receiver-sdk integrity_runtime.rs): which file is hashed, where the     *)
(* manifest SHA256SUMS and its signature are looked for, and what is       *)
(* answered.                                                               *)
(*                                                                         *)
(* SHA-256 is injective, so the digest of a file is its content.  A        *)
(* manifest is a set of lines <<digest, path>>, a path <<directory, name>>.*)
(* The writer sorts the lines by hexadecimal digest: Order(d) is the place *)
(* of a digest, an order nobody chooses.  EndsWith compares the texts of a *)
(* path and a name: the name may be a part of the file's.  A signature is  *)
(* whole or cut short, and names the key and the manifest it was made with.*)
(***************************************************************************)
EXTENDS Integers

CONSTANTS
  None,            \* no digest, no file
  Malformed,       \* a digest that is not 64 hexadecimal digits
  Order(_),        \* the place of a digest in a manifest
  EndsWith(_, _)   \* does the text of a path end with a name?

VerifyBytes(actual, expected) ==
  IF expected = None THEN "Skipped"
  ELSE IF expected = Malformed THEN "Storage"
  ELSE IF expected = actual THEN "Verified"
  ELSE "Tampered"

VerifySignature(sums, sig, key) == sig.key = key /\ sig.over = sums

LinesFor(sums, name) == {line \in sums : EndsWith(line[2], name)}

FirstLine(lines) == CHOOSE line \in lines : \A other \in lines : Order(line[1]) <= Order(other[1])

\* Mutant: the digest on the line is not compared.
VerifyCombinedByName(sums, sig, key, name, digest) ==
  IF ~ sig.whole THEN "Storage"
  ELSE IF ~ VerifySignature(sums, sig, key) THEN "InvalidSignature"
  ELSE IF LinesFor(sums, name) = {} THEN "Tampered"
  ELSE "Verified"

\* The first line whose path ends in the name decides.
VerifyCombined(sums, sig, key, name, digest) ==
  IF ~ sig.whole THEN "Storage"
  ELSE IF ~ VerifySignature(sums, sig, key) THEN "InvalidSignature"
  ELSE IF LinesFor(sums, name) = {} THEN "Tampered"
  ELSE IF FirstLine(LinesFor(sums, name))[1] = digest THEN "Verified"
  ELSE "Tampered"

\* Beside the library, else one directory up: where both files are.
LocateSums(beside, above) ==
  IF beside.sums # None /\ beside.sig # None THEN beside
  ELSE IF above.sums # None /\ above.sig # None THEN above
  ELSE None

\* code: the library that runs the check; file: what MCPIX_SELF_PATH names, or
\* the program that loaded the library.  code.stamped is the digest it was built
\* with: of an earlier build, never its own.
VerifySelf(code, file, name, beside, above) ==
  LET found == LocateSums(beside, above)
  IN IF file = None THEN "Storage"
     ELSE IF found = None THEN VerifyBytes(file, code.stamped)
     ELSE IF code.stamped = None THEN "Skipped"
     ELSE LET outcome == VerifyCombined(found.sums, found.sig, code.key, name, file)
          IN IF outcome = "InvalidSignature" THEN "Tampered" ELSE outcome

=============================================================================
