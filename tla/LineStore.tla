------------------------------ MODULE LineStore ------------------------------
(***************************************************************************)
(* What /dev/aesdchar promises: writes are gathered until one of them      *)
(* carries a newline, the gathered bytes become one line, and a reader     *)
(* sees the newest Capacity lines end to end. No memory, no indices, no    *)
(* locks: every write happens at one instant.                              *)
(***************************************************************************)
EXTENDS Integers, Sequences

CONSTANTS
  Capacity,   \* number of lines kept
  EOL,        \* the newline byte
  Payloads    \* what a single write may carry

VARIABLES
  lines,      \* complete lines, oldest first
  partial     \* bytes written since the last complete line

HasEOL(data) == \E i \in DOMAIN data : data[i] = EOL

Push(s, line) ==
  IF Len(s) < Capacity THEN Append(s, line) ELSE Append(Tail(s), line)

Init == lines = <<>> /\ partial = <<>>

Gather(data) ==
  /\ ~HasEOL(data)
  /\ partial' = partial \o data
  /\ UNCHANGED lines

Complete(data) ==
  /\ HasEOL(data)
  /\ lines' = Push(lines, partial \o data)
  /\ partial' = <<>>

(* The module is unloaded: nothing survives. *)
Reset == lines' = <<>> /\ partial' = <<>>

Next == Reset \/ \E data \in Payloads : Gather(data) \/ Complete(data)

Spec == Init /\ [][Next]_<<lines, partial>>
=============================================================================
