------------------------ MODULE MCConnectionTimeout ------------------------
(* ConnectionTimeout with a second of four nanoseconds. *)
EXTENDS ConnectionTimeout

(* Whole seconds, a fraction, and both. *)
MCTimeouts == {[tv_sec |-> 1, tv_nsec |-> 0], [tv_sec |-> 0, tv_nsec |-> 3],
               [tv_sec |-> 1, tv_nsec |-> 2]}

=============================================================================
