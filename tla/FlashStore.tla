---------------------------- MODULE FlashStore ----------------------------
(***************************************************************************)
(* ReceiptStore and CounterStore of crates/mcpix-embed/src/storage.rs: one *)
(* value kept in two flash slots, in different sectors.  A save chooses    *)
(* the older slot, erases it and writes a record with the next sequence    *)
(* number; a load returns the valid record with the higher one.            *)
(*                                                                         *)
(* The two stores differ in the fields of the record only, so the model    *)
(* takes them as the set Values.  A slot holds a record, is blank, or is   *)
(* Torn: bytes that read_*_record rejects (magic, version or CRC).  Calls  *)
(* are not concurrent (&mut self), but the power may be cut and the flash  *)
(* backend may fail at each of their accesses, and a record may decay      *)
(* between two saves (no save lasts long enough for that).                 *)
(***************************************************************************)
EXTENDS Integers

CONSTANTS
  Values,      \* what a record holds besides its sequence number
  Erased,      \* a slot of 0xFF bytes
  Torn,        \* a slot with bytes that are not a valid record
  Empty,       \* load found no valid record
  SeqMod,      \* save_seq is a u32: 2^32
  Endurance,   \* erase cycles a sector survives
  MaxDecays    \* records explored that decay

\* A pair of sectors wears out long before save_seq could wrap around.
ASSUME SeqAssumption ==
  SeqMod \in Nat /\ Endurance \in Nat /\ 2 * Endurance < SeqMod
ASSUME DecayAssumption == MaxDecays \in Nat

Slots == {"A", "B"}
Seqs == 0..(SeqMod - 1)
Record == [seq: Seqs, val: Values]

ASSUME BlankAssumption ==
  Erased \notin Record /\ Torn \notin Record /\ Empty \notin Values

VARIABLES
  slot,        \* contents of the two slots
  erases,      \* erase cycles of their sectors
  save,        \* the save in progress
  result,      \* how the last save ended
  abandoned,   \* history: some save was cut short or some record decayed
  decays       \* history: how many records have decayed

vars == <<slot, erases, save, result, abandoned, decays>>

Idle == [step |-> "idle"]
Saves == {Idle} \cup [step: {"erase", "write"}, target: Slots, rec: Record]

Valid(contents) == contents \notin {Erased, Torn}

TypeOK ==
  /\ slot \in [Slots -> Record \cup {Erased, Torn}]
  /\ erases \in [Slots -> 0..Endurance]
  /\ save \in Saves
  /\ result \in {"none", "ok", "failed"}
  /\ abandoned \in BOOLEAN
  /\ decays \in 0..MaxDecays

\* The sectors are handed over blank or with unrelated bytes.
Init ==
  /\ slot \in [Slots -> {Erased, Torn}]
  /\ erases = [s \in Slots |-> 0]
  /\ save = Idle
  /\ result = "none"
  /\ abandoned = FALSE
  /\ decays = 0

(***************************************************************************)
(* load                                                                    *)
(***************************************************************************)
\* Mutant: the lower sequence number is taken for the newer one.
LoadOldest(slots) ==
  LET a == slots["A"]
      b == slots["B"]
  IN IF Valid(a) /\ (Valid(b) => a.seq <= b.seq) THEN a.val
     ELSE IF Valid(b) THEN b.val ELSE Empty

Load(slots) ==
  LET a == slots["A"]
      b == slots["B"]
  IN IF Valid(a) /\ (Valid(b) => a.seq >= b.seq) THEN a.val
     ELSE IF Valid(b) THEN b.val ELSE Empty

(***************************************************************************)
(* save: choose_save_target, erase, write                                  *)
(***************************************************************************)
SeqOf(s) == IF Valid(slot[s]) THEN slot[s].seq ELSE 0

\* Mutant: the sequence number of the newest record is used again.
NextSeqUnchanged ==
  LET a == SeqOf("A")
      b == SeqOf("B")
  IN IF a = 0 /\ b = 0 THEN 1 ELSE IF a >= b THEN a ELSE b

NextSeq ==
  ((IF SeqOf("A") >= SeqOf("B") THEN SeqOf("A") ELSE SeqOf("B")) + 1) % SeqMod

\* Mutant: with two valid records, the newer one is the target.
TargetNewest ==
  IF ~ Valid(slot["A"]) \/ (Valid(slot["B"]) /\ slot["A"].seq >= slot["B"].seq)
  THEN "A" ELSE "B"

Target ==
  IF ~ Valid(slot["A"]) \/ (Valid(slot["B"]) /\ slot["A"].seq <= slot["B"].seq)
  THEN "A" ELSE "B"

Begin(v) ==
  /\ save = Idle
  /\ erases[Target] < Endurance
  /\ save' = [step |-> "erase", target |-> Target,
              rec |-> [seq |-> NextSeq, val |-> v]]
  /\ UNCHANGED <<slot, erases, result, abandoned, decays>>

Wear == erases' = [erases EXCEPT ![save.target] = @ + 1]

Erase ==
  /\ save.step = "erase"
  /\ slot' = [slot EXCEPT ![save.target] = Erased]
  /\ Wear
  /\ save' = [save EXCEPT !.step = "write"]
  /\ UNCHANGED <<result, abandoned, decays>>

\* Writing NOR flash can only clear bits: over a slot that is not blank it
\* leaves the conjunction of the old and the new bytes.
Programmed(contents, rec) == IF contents = Erased THEN rec ELSE Torn

Write ==
  /\ save.step = "write"
  /\ slot' = [slot EXCEPT ![save.target] = Programmed(@, save.rec)]
  /\ save' = Idle
  /\ result' = "ok"
  /\ UNCHANGED <<erases, abandoned, decays>>

Abandon ==
  /\ save' = Idle
  /\ result' = "failed"
  /\ abandoned' = TRUE
  /\ UNCHANGED decays

\* The power is cut in the erase, or before it, or the backend fails it.
CutErase ==
  /\ save.step = "erase"
  /\ \/ UNCHANGED <<slot, erases>>
     \/ /\ \E left \in {Erased, Torn} :
             slot' = [slot EXCEPT ![save.target] = left]
        /\ Wear
  /\ Abandon

\* The same in the write: the last byte may have been written all the same.
CutWrite ==
  /\ save.step = "write"
  /\ \E left \in {slot[save.target], Torn,
                  Programmed(slot[save.target], save.rec)} :
       slot' = [slot EXCEPT ![save.target] = left]
  /\ UNCHANGED erases
  /\ Abandon

\* A written record no longer passes its CRC.
Decay(s) ==
  /\ save = Idle
  /\ decays < MaxDecays
  /\ Valid(slot[s])
  /\ slot' = [slot EXCEPT ![s] = Torn]
  /\ abandoned' = TRUE
  /\ decays' = decays + 1
  /\ UNCHANGED <<erases, save, result>>

Next ==
  \/ \E v \in Values : Begin(v)
  \/ Erase
  \/ Write
  \/ CutErase
  \/ CutWrite
  \/ \E s \in Slots : Decay(s)

Spec == Init /\ [][Next]_vars

-----------------------------------------------------------------------------
(***************************************************************************)
(* Properties                                                              *)
(***************************************************************************)

\* Cold-cut atomicity (storage.rs:26-28): whatever is cut short, and when,
\* load returns the value of the last successful save, or the one of a later
\* save that failed.  A save that returns Ok is what load returns from then.
\* A decayed record costs the last save, no more, as long as the one before it
\* is whole (storage.rs:262-278).
Spare(slots) ==
  IF ~ Valid(slots["A"]) \/ ~ Valid(slots["B"]) THEN Empty
  ELSE IF slots["A"].seq >= slots["B"].seq THEN slots["B"].val ELSE slots["A"].val

Cell == INSTANCE DecayingCell WITH
          cell <- Load(slot),
          pending <- IF save = Idle THEN Empty ELSE save.rec.val,
          spare <- Spare(slot)
CellSpec == Cell!DecayingSpec

\* Wear levelling (storage.rs:31-33): as long as no save is cut short
\* and no record decays, the erase cycles of the two sectors never differ by more
\* than one.
WearIsBalanced == ~ abandoned => erases["A"] - erases["B"] \in {0, 1}

(***************************************************************************)
(* The inductive invariant.                                                *)
(***************************************************************************)
\* The two sequence numbers never tie, and no more saves have been completed
\* than sectors erased, so the next sequence number does not wrap.
SeqsDistinct ==
  Valid(slot["A"]) /\ Valid(slot["B"]) => slot["A"].seq # slot["B"].seq

SeqsPaidFor ==
  \A s \in Slots : Valid(slot[s]) =>
    /\ slot[s].seq > 0
    /\ slot[s].seq <= erases["A"] + erases["B"] -
                        (IF save.step = "write" THEN 1 ELSE 0)

\* A save in progress spares the newest record, has its sector to itself and
\* numbers its record after every valid one.
Other(s) == IF s = "A" THEN "B" ELSE "A"

SaveSparesNewest ==
  save # Idle =>
    /\ Valid(slot[save.target]) =>
         /\ Valid(slot[Other(save.target)])
         /\ slot[Other(save.target)].seq > slot[save.target].seq
    /\ Valid(slot[Other(save.target)]) =>
         save.rec.seq > slot[Other(save.target)].seq
    /\ save.rec.seq > 0
    /\ save.rec.seq <= erases["A"] + erases["B"] +
                         (IF save.step = "erase" THEN 1 ELSE 0)

SaveFits ==
  /\ save.step = "erase" => erases[save.target] < Endurance
  /\ save.step = "write" => slot[save.target] = Erased /\ erases[save.target] > 0

\* While no save is cut short the sectors take turns, A first.
Turn == IF save = Idle THEN Target ELSE save.target
SectorsTakeTurns ==
  ~ abandoned =>
    erases["A"] - erases["B"] =
      (IF (Turn = "A") = (save.step = "write") THEN 1 ELSE 0)

IInv ==
  /\ TypeOK
  /\ SeqsDistinct
  /\ SeqsPaidFor
  /\ SaveSparesNewest
  /\ SaveFits
  /\ SectorsTakeTurns

=============================================================================
