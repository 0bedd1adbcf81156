--------------------------- MODULE CircularBuffer ---------------------------
(***************************************************************************)
(* The circular buffer of aesd-char-driver/aesd-circular-buffer.[ch]: an   *)
(* array of entries with an input index, an output index and a full flag.  *)
(* The module holds no state: each C function is an operator on the        *)
(* buffer it is passed.                                                    *)
(***************************************************************************)
EXTENDS Integers

CONSTANTS
  MaxOps,   \* AESDCHAR_MAX_WRITE_OPERATIONS_SUPPORTED, 10 in the source
  SizeMod,  \* number of values of a size_t: unsigned arithmetic wraps at it
  NULL      \* the null pointer

(* The loop counter of AESD_CIRCULAR_BUFFER_FOREACH is a uint8_t that has  *)
(* to reach MaxOps, and in_offs and out_offs have to hold an index.        *)
ASSUME MaxOpsAssumption == MaxOps \in 1 .. 255

ASSUME SizeModAssumption == SizeMod \in Nat \ {0}

Slots == 0 .. MaxOps - 1

(* A zeroed struct aesd_buffer_entry. *)
NoEntry == [buffptr |-> NULL, size |-> 0]

(* aesd_circular_buffer_init: the whole struct is set to zero bytes. *)
aesd_circular_buffer_init ==
  [entry    |-> [i \in Slots |-> NoEntry],
   in_offs  |-> 0,
   out_offs |-> 0,
   full     |-> FALSE]

-----------------------------------------------------------------------------
(* Mutated forms, each a slip a maintainer of these functions could make. *)

(* The wrap test forgets the + 1. *)
next_idx_late(index) ==
  IF index >= MaxOps THEN 0 ELSE index + 1

(* The oldest entry is overwritten but stays the first one to be read. *)
add_entry_keeps_out(b, e) ==
  LET in_offs == IF b.in_offs + 1 >= MaxOps THEN 0 ELSE b.in_offs + 1
  IN  IF e.size = 0
        THEN [buffer |-> b, replaced |-> NULL]
        ELSE [buffer   |-> [entry    |-> [b.entry EXCEPT ![b.in_offs] = e],
                            in_offs  |-> in_offs,
                            out_offs |-> b.out_offs,
                            full     |-> b.full \/ in_offs = b.out_offs],
              replaced |-> IF b.full THEN b.entry[b.in_offs].buffptr
                                     ELSE NULL]

(* An empty entry is stored like any other. *)
add_entry_takes_empty(b, e) ==
  LET in_offs == IF b.in_offs + 1 >= MaxOps THEN 0 ELSE b.in_offs + 1
  IN  [buffer   |-> [entry    |-> [b.entry EXCEPT ![b.in_offs] = e],
                     in_offs  |-> in_offs,
                     out_offs |-> IF b.full THEN in_offs ELSE b.out_offs,
                     full     |-> b.full \/ in_offs = b.out_offs],
       replaced |-> IF b.full THEN b.entry[b.in_offs].buffptr ELSE NULL]

(* The last byte an entry covers is taken to be one further on. *)
last_offset_inclusive(current, size) == (current + size) % SizeMod

-----------------------------------------------------------------------------

next_idx(index) ==
  IF index + 1 >= MaxOps THEN 0 ELSE index + 1

is_empty(b) == ~b.full /\ b.in_offs = b.out_offs

(* peek on a buffer that is not empty; the callers test is_empty first. *)
peek(b, offset) == b.entry[(b.out_offs + offset) % MaxOps]

(* current_char_offset + (size - 1), in size_t arithmetic: for an entry of *)
(* size 0 the subtraction wraps.                                           *)
last_offset(current, size) == (current + ((size - 1) % SizeMod)) % SizeMod

(***************************************************************************)
(* The search loop. start[i] is current_char_offset when the loop reaches  *)
(* peek_idx = i; the first index whose last offset reaches char_offset is  *)
(* returned with the offset inside it, and NULL when there is none.        *)
(***************************************************************************)
find_entry_offset_for_fpos(b, char_offset) ==
  LET start[i \in 0 .. MaxOps] ==
        IF i = 0 THEN 0
                 ELSE (start[i - 1] + peek(b, i - 1).size) % SizeMod
      reach == {i \in Slots :
                  last_offset(start[i], peek(b, i).size) >= char_offset}
      first == CHOOSE i \in reach : \A j \in reach : i <= j
  IN  IF is_empty(b) \/ reach = {}
        THEN NULL
        ELSE [entry  |-> peek(b, first),
              offset |-> (char_offset - start[first]) % SizeMod]

(***************************************************************************)
(* aesd_circular_buffer_add_entry: the buffer afterwards, and the pointer  *)
(* the function returns for the caller to free.                            *)
(***************************************************************************)
add_entry(b, e) ==
  LET in_offs == next_idx(b.in_offs)
  IN  IF e.size = 0
        THEN [buffer |-> b, replaced |-> NULL]
        ELSE [buffer   |-> [entry    |-> [b.entry EXCEPT ![b.in_offs] = e],
                            in_offs  |-> in_offs,
                            out_offs |-> IF b.full THEN in_offs
                                                   ELSE b.out_offs,
                            full     |-> b.full \/ in_offs = b.out_offs],
              replaced |-> IF b.full THEN b.entry[b.in_offs].buffptr
                                     ELSE NULL]

-----------------------------------------------------------------------------
(* The entries a buffer holds, oldest first. *)

Count(b) == IF b.full THEN MaxOps ELSE b.in_offs

Contents(b) == [i \in 1 .. Count(b) |-> peek(b, i - 1)]
=============================================================================
