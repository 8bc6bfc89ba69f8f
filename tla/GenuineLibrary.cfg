\* The documentation says a library of a release is accepted.
CONSTANTS
  None = None
  Malformed = Malformed
  Order <- PlaceOf
  EndsWith <- IsEnding
  Toolchains <- Machines
  Abis <- OneAbi
  PublicKeys = {"k1", "k2"}
  FirstKey = "k1"
  MaxVersion = 2
  MaxReleases = 2
  Before <- Earlier
  Digests <- Stamps
  Fragile <- Unsafe
  HostNames = {"libmcpix_uniffi.so", "ffi.so"}
SPECIFICATION Spec
INVARIANT GenuineLibraryVerified
\* Versions, keys and releases are bounded: once they are used up a site that
\* builds nothing stops.
CHECK_DEADLOCK FALSE
