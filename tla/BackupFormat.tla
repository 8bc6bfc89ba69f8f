--------------------------- MODULE BackupFormat ---------------------------
(***************************************************************************)
(* The sealed backup of one receiver: what crates/mcpix-backup writes and  *)
(* how its own decoder and the one of the embedded crate (restore.rs) read *)
(* it.                                                                     *)
(*                                                                         *)
(* Argon2id and ChaCha20-Poly1305 are symbolic: a key is the triple it is  *)
(* derived from, and a box opens only under the key and the header         *)
(* (associated data) it was closed under.  The constants are names: the    *)
(* identifiers SeedId::new accepts, one it refuses, and the Argon2         *)
(* settings Params::new refuses.                                           *)
(***************************************************************************)
EXTENDS Naturals

CONSTANTS ValidIds, BadId, RefusedParams

Modes == {"Sequential", "Quantized"}
Params == {"strong", "embed"}        \* KdfParams::default_strong, default_embed

Refused(error) == [error |-> error]

-----------------------------------------------------------------------------
(***************************************************************************)
(* export: header in the clear, payload boxed under the header             *)
(***************************************************************************)
WriteHeader(params, salt) ==
  [magic |-> "MBKP", version |-> 1, kdf |-> "argon2id",
   params |-> params, reserved |-> 0, salt |-> salt]

WritePayload(input) ==
  [version |-> 1, seed |-> input.seed, sid |-> input.sid,
   mode |-> IF input.mode = "Sequential" THEN 0 ELSE 1, t |-> input.t]

Key(pass, header) == <<pass, header.salt, header.params>>

\* Mutant: the counter is left out of the payload.
ExportWithoutCounter(input, pass, params, salt) ==
  LET header == WriteHeader(params, salt)
  IN [checksum |-> TRUE, header |-> header,
      box |-> [key |-> Key(pass, header), aad |-> header,
               payload |-> [WritePayload(input) EXCEPT !.t = 0]]]

Export(input, pass, params, salt) ==
  LET header == WriteHeader(params, salt)
  IN [checksum |-> TRUE, header |-> header,
      box |-> [key |-> Key(pass, header), aad |-> header,
               payload |-> WritePayload(input)]]

-----------------------------------------------------------------------------
(***************************************************************************)
(* mcpix_backup::import                                                    *)
(***************************************************************************)
ReadHeader(header) ==
  IF header.magic # "MBKP" THEN "Malformed"
  ELSE IF header.version # 1 \/ header.kdf # "argon2id" THEN "UnsupportedVersion"
  ELSE "none"

Derives(header) == header.params \notin RefusedParams

Opens(text, pass) ==
  /\ text.box.key = Key(pass, text.header)
  /\ text.box.aad = text.header

ModeOf(byte) == IF byte = 0 THEN "Sequential" ELSE "Quantized"

State(payload) ==
  [error |-> "none", seed |-> payload.seed, sid |-> payload.sid,
   mode |-> ModeOf(payload.mode), t |-> payload.t]

IntoState(payload) ==
  IF payload.version # 1 THEN Refused("UnsupportedVersion")
  ELSE IF payload.sid \notin ValidIds THEN Refused("InvalidSeedId")
  ELSE IF payload.mode \notin {0, 1} THEN Refused("Malformed")
  ELSE State(payload)

Import(text, pass) ==
  IF ~ text.checksum THEN Refused("Malformed")
  ELSE IF ReadHeader(text.header) # "none" THEN Refused(ReadHeader(text.header))
  ELSE IF ~ Derives(text.header) THEN Refused("KdfFailed")
  ELSE IF ~ Opens(text, pass) THEN Refused("DecryptFailed")
  ELSE IntoState(text.box.payload)

-----------------------------------------------------------------------------
(***************************************************************************)
(* mcpix_embed::restore::import, written separately                        *)
(***************************************************************************)
ParseHeader(header) ==
  IF header.magic # "MBKP" THEN Refused("Malformed")
  ELSE IF header.version # 1 THEN Refused("UnsupportedVersion")
  ELSE IF header.kdf # "argon2id" THEN Refused("UnsupportedVersion")
  ELSE [error |-> "none", params |-> header.params, salt |-> header.salt]

\* Mutant: a mode byte nobody wrote is taken for the quantized counter.
ParsePayloadAnyMode(payload) ==
  IF payload.version # 1 THEN Refused("UnsupportedVersion")
  ELSE IF payload.sid \notin ValidIds THEN Refused("InvalidSeedId")
  ELSE State(payload)

ParsePayload(payload) ==
  IF payload.version # 1 THEN Refused("UnsupportedVersion")
  ELSE IF payload.sid \notin ValidIds THEN Refused("InvalidSeedId")
  ELSE IF payload.mode = 0 THEN State(payload)
  ELSE IF payload.mode = 1 THEN State(payload)
  ELSE Refused("Malformed")

EmbedImport(text, pass) ==
  LET fields == ParseHeader(text.header)
      key == <<pass, fields.salt, fields.params>>
  IN IF ~ text.checksum THEN Refused("Malformed")
     ELSE IF fields.error # "none" THEN fields
     ELSE IF fields.params \in RefusedParams THEN Refused("KdfFailed")
     ELSE IF text.box.key # key \/ text.box.aad # text.header
       THEN Refused("DecryptFailed")
     ELSE ParsePayload(text.box.payload)

-----------------------------------------------------------------------------
(***************************************************************************)
(* Texts a decoder is handed that no export of this release wrote: a typing*)
(* error (the checksum is off), a blob whose bytes changed under a valid   *)
(* checksum, and the output of another release.                            *)
(***************************************************************************)
Damaged(text) ==
  {[text EXCEPT !.checksum = FALSE],
   [text EXCEPT !.header.reserved = 1],
   [text EXCEPT !.header.params = IF @ = "strong" THEN "embed" ELSE "strong"],
   [text EXCEPT !.box.key = <<>>]}

OtherReleases(text) ==
  LET Boxed(header, payload) ==
        [checksum |-> TRUE, header |-> header,
         box |-> [key |-> <<text.box.key[1], header.salt, header.params>>,
                  aad |-> header, payload |-> payload]]
  IN {Boxed([text.header EXCEPT !.magic = "MBK2"], text.box.payload),
      Boxed([text.header EXCEPT !.version = 2], text.box.payload),
      Boxed([text.header EXCEPT !.kdf = "scrypt"], text.box.payload),
      Boxed(text.header, [text.box.payload EXCEPT !.version = 2]),
      Boxed(text.header, [text.box.payload EXCEPT !.mode = 2]),
      Boxed(text.header, [text.box.payload EXCEPT !.sid = BadId])}
     \cup {Boxed([text.header EXCEPT !.params = p], text.box.payload) : p \in RefusedParams}

=============================================================================
