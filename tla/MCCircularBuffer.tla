-------------------------- MODULE MCCircularBuffer --------------------------
(* Checks CircularBufferSpec with a three-slot array and a 4-bit size_t. *)
EXTENDS CircularBufferSpec

(* The search is right for buffers of this size. *)
ASSUME SearchAssumption == SizesFit

=============================================================================
