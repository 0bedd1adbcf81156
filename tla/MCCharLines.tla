---------------------------- MODULE MCCharLines ----------------------------
(* An instance of CharReaders that meets the hypothesis of its theorems. *)
EXTENDS MCCharReaders

ASSUME BuffersAssumption == BuffersSuffice
=============================================================================
