------------------------- MODULE CircularBufferSpec -------------------------
(***************************************************************************)
(* A circular buffer on its own, as the driver and the unit tests use it:  *)
(* initialised once, then given one entry after another. Lookups change    *)
(* nothing, so they are stated as an invariant over every position.        *)
(***************************************************************************)
EXTENDS CircularBuffer, Sequences

CONSTANTS
  Buffptrs,   \* pointers a caller may add
  MaxSize     \* bound: size of the largest entry

ASSUME EntryAssumption ==
  /\ NULL \notin Buffptrs
  /\ MaxSize \in Nat

(* Together the entries of a buffer have fewer bytes than a size_t counts. *)
SizesFit == MaxOps * MaxSize < SizeMod

VARIABLES
  buffer,     \* the struct aesd_circular_buffer
  replaced    \* pointer returned by the latest aesd_circular_buffer_add_entry

vars == <<buffer, replaced>>

Entries == [buffptr : Buffptrs, size : 0 .. MaxSize]

Init ==
  /\ buffer = aesd_circular_buffer_init
  /\ replaced = NULL

Add(e) ==
  /\ buffer' = add_entry(buffer, e).buffer
  /\ replaced' = add_entry(buffer, e).replaced

Next == \E e \in Entries : Add(e)

Spec == Init /\ [][Next]_vars

-----------------------------------------------------------------------------
(* The indices stay inside the array (an index beyond it would be an       *)
(* out-of-bounds access in add_entry), the flag is a Boolean and the slots *)
(* hold added entries or zeroes.                                           *)
TypeOK ==
  /\ buffer \in [entry    : [Slots -> Entries \cup {NoEntry}],
                 in_offs  : Slots,
                 out_offs : Slots,
                 full     : BOOLEAN]
  /\ replaced \in Buffptrs \cup {NULL}

(* out_offs moves only once the buffer is full, and from then on the two   *)
(* indices move together; the slots that count as filled are exactly the   *)
(* ones that hold an entry. is_empty and Count are right only because of   *)
(* this.                                                                   *)
RingInv ==
  /\ buffer.full => buffer.in_offs = buffer.out_offs
  /\ ~buffer.full => buffer.out_offs = 0
  /\ \A i \in Slots :
       (buffer.full \/ i < buffer.in_offs) <=> buffer.entry[i].size # 0

(* The bytes of all entries laid end to end; each byte is named by the     *)
(* entry it belongs to and its place there.                                *)
EndToEnd ==
  LET upto[i \in 0 .. Count(buffer)] ==
        IF i = 0 THEN <<>>
        ELSE upto[i - 1] \o [k \in 1 .. Contents(buffer)[i].size |-> <<i, k - 1>>]
  IN  upto[Count(buffer)]

(* aesd_circular_buffer_find_entry_offset_for_fpos finds the byte that     *)
(* stands at char_offset "if all buffer strings were concatenated end to   *)
(* end", and returns NULL exactly for the positions behind the last byte;  *)
(* the zeroed slots of a buffer that is not full, where size - 1 wraps,    *)
(* are never returned.                                                     *)
FindMatchesConcatenation ==
  \A pos \in 0 .. SizeMod - 1 :
    LET found == find_entry_offset_for_fpos(buffer, pos)
    IN  IF pos < Len(EndToEnd)
          THEN LET at == EndToEnd[pos + 1]
               IN  found = [entry  |-> Contents(buffer)[at[1]],
                            offset |-> at[2]]
          ELSE found = NULL

(* The abstract log a buffer stands for. *)
Log == INSTANCE RecentLog
         WITH Capacity <- MaxOps, None <- NULL,
              log <- Contents(buffer), forgotten <- replaced

(* The buffer keeps the newest MaxOps entries in order, through every      *)
(* wrap-around, and add_entry returns the pointer of the entry it drops:   *)
(* the circular buffer implements RecentLog.                               *)
ImplementsRecentLog == Log!Spec
=============================================================================
