---------------------------- MODULE MCHandover ----------------------------
(* Handover on two receivers: the facade that writes backups with the one     *)
(* that is built from them, and the two that have nothing to do with them.    *)
EXTENDS Handover, TLC
CONSTANTS a, b
Pairs == {[o \in Objects |-> IF o = a THEN pair[1] ELSE pair[2]] :
            pair \in {<<"sealed", "uniffi">>, <<"ffi", "wasm">>}}
Ids == {<<"a">>}
PadId == <<"0">>
Symmetry == Permutations(Materials) \cup Permutations(Passphrases)
\* No step reads answer: states that differ in it alone have the same successors.
ButAnswer == <<facade, mode, clock, seeds, receipts, last, sealKey, draft, backups,
               lives, owner, issued, accepted, highest, forked>>
===========================================================================
