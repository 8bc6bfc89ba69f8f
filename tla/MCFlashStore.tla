--------------------------- MODULE MCFlashStore ---------------------------
(* FlashStore with the constants of FlashStore.cfg. *)
EXTENDS FlashStore
===========================================================================
