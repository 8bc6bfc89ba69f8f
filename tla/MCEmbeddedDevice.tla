------------------------- MODULE MCEmbeddedDevice -------------------------
(* EmbeddedDevice with the constants of the .cfg files. *)
EXTENDS EmbeddedDevice
===========================================================================
