--------------------------- MODULE MCCharReaders ---------------------------
(* CharReaders on small instances. *)
EXTENDS CharReaders, MCCharDevice
=============================================================================
