---------------------------- MODULE CharReaders ----------------------------
(***************************************************************************)
(* What readers of the character device get: CharDevice with history       *)
(* variables that tell which readers have had the device to themselves     *)
(* since they opened it, and how far each reader has come.                 *)
(***************************************************************************)
EXTENDS CharDevice, FiniteSets

Seqs == INSTANCE SequencesExt

CONSTANT MaxPayload   \* bound: the bytes of one write

ASSUME ReadersAssumption ==
  /\ MaxPayload \in Nat
  /\ \A d \in Payloads : Len(d) <= MaxPayload
  /\ IsFiniteSet(Procs)

VARIABLES
  steady,    \* no line was completed, and the process wrote nothing, since
             \* it opened the device
  received,  \* the bytes a steady reader has received since then
  seen       \* how many of the oldest lines are no newer than the last one
             \* the process was given since it opened the device

history == <<steady, received, seen>>
readers == <<vars, history>>

ReadersInit ==
  /\ Init
  /\ steady = [p \in Procs |-> FALSE]
  /\ received = [p \in Procs |-> <<>>]
  /\ seen = [p \in Procs |-> 0]

(* The place, oldest first, of the line the reader p is copying.           *)
PlaceOf(p) ==
  CHOOSE i \in 1 .. Count(circular_buffer) :
    Contents(circular_buffer)[i] = buffer_entry[p]

Evicts == circular_buffer.full /\ circular_buffer' # circular_buffer

ReadersNext ==
  /\ Next
  /\ steady' = [p \in Procs |->
       \/ pc[p] = "closed" /\ pc'[p] = "idle"
       \/ /\ steady[p]
          /\ pc[p] # "write_copy" /\ pc'[p] # "closed"
          /\ circular_buffer' = circular_buffer]
  /\ received' = [p \in Procs |->
       IF ~steady'[p] THEN <<>>
       ELSE IF pc[p] = "read_copy" /\ pc'[p] = "idle"
              THEN received[p] \o userbuf'[p] ELSE received[p]]
  /\ seen' = [p \in Procs |->
       IF pc'[p] = "closed" THEN 0
       ELSE IF pc[p] = "read_copy" /\ pc'[p] = "idle" THEN PlaceOf(p)
       ELSE IF Evicts /\ seen[p] > 0 THEN seen[p] - 1 ELSE seen[p]]

ReadersSpec == ReadersInit /\ [][ReadersNext]_readers

-----------------------------------------------------------------------------
(* The longest line there can be: what may be gathered when a write        *)
(* starts, and a payload of every process that has started one by then.    *)
MaxLine == MaxPartial + Cardinality(Procs) * MaxPayload

(* What the search returns for a line is told apart from a null pointer.   *)
ASSUME NullAssumption ==
  NULL \notin [entry  : [buffptr : Pointers, size : 0 .. MaxLine],
              offset : 0 .. SizeMod - 1]

(* The readers' buffers take any line and are writable, and a full device  *)
(* has fewer bytes than a size_t counts.                                   *)
BuffersSuffice ==
  /\ \A n \in Counts : n >= MaxLine
  /\ "copy_to_user" \notin Faults
  /\ MaxOps * MaxLine < SizeMod

(* A reader that nobody disturbs, with a buffer no line exceeds, receives  *)
(* the lines end to end without gap or repetition, and reaches end of file *)
(* exactly when it has them all.                                           *)
ReadsSeeLines ==
  \A p \in Procs : pc[p] # "closed" /\ steady[p] =>
    /\ Seqs!IsPrefix(received[p], Seqs!FlattenSeq(Lines))
    /\ pc[p] = "read_lock" /\ device_mutex = NULL =>
         (find_entry_offset_for_fpos(circular_buffer, f_pos[p]) = NULL
            <=> received[p] = Seqs!FlattenSeq(Lines))

(* The file position counts from the oldest line, which changes whenever a *)
(* line is evicted between two reads. A reader with a buffer no line       *)
(* exceeds may miss lines by that, but never gets one it was given before, *)
(* or an older one.                                                        *)
ReadsNeverRepeat ==
  \A p \in Procs : pc[p] = "read_copy" => PlaceOf(p) > seen[p]
=============================================================================
