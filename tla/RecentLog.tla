------------------------------ MODULE RecentLog ------------------------------
(***************************************************************************)
(* What the circular buffer promises: it remembers the most recent         *)
(* Capacity entries in the order they were added, and hands back the       *)
(* pointer of the entry it had to forget. No index, no wrap-around.        *)
(***************************************************************************)
EXTENDS Integers, Sequences

CONSTANTS
  Capacity,   \* number of entries remembered
  Entries,    \* the entries that may be added
  None        \* nothing had to be forgotten

VARIABLES
  log,        \* the entries, oldest first
  forgotten   \* pointer returned by the latest Add

Push(s, e) ==
  IF Len(s) < Capacity THEN Append(s, e) ELSE Append(Tail(s), e)

Init == log = <<>> /\ forgotten = None

(* An entry of size 0 is not remembered and displaces nothing. *)
Add(e) ==
  \/ /\ e.size = 0
     /\ forgotten' = None
     /\ UNCHANGED log
  \/ /\ e.size # 0
     /\ log' = Push(log, e)
     /\ forgotten' = IF Len(log) < Capacity THEN None ELSE Head(log).buffptr

Next == \E e \in Entries : Add(e)

Spec == Init /\ [][Next]_<<log, forgotten>>
=============================================================================
