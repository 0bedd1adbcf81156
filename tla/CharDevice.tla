----------------------------- MODULE CharDevice -----------------------------
(***************************************************************************)
(* The character device of aesd-char-driver/main.c: processes that open    *)
(* the device and call read and write concurrently, the device mutex, the  *)
(* staging entry that gathers a line, the circular buffer of lines and the *)
(* kernel heap their bytes live in.                                        *)
(*                                                                         *)
(* A call is three steps: the system call arrives; the mutex is taken and  *)
(* the handler runs up to the copy from or to user space; the copy, which  *)
(* may sleep on a page fault, and the rest of the handler. The value a     *)
(* call returns follows from the step that ends it and is not kept.        *)
(***************************************************************************)
EXTENDS CircularBuffer, Sequences

CONSTANTS
  Procs,          \* processes, each with one open file description
  Blocks,         \* addresses kmalloc may return
  Payloads,       \* what one write carries
  Counts,         \* buffer sizes readers pass
  Faults,         \* the kernel services that may fail
  MaxPartial,     \* bound: no write starts when more bytes are gathered
  MaxPos,         \* bound: no call starts at a file position beyond it
  EOL,            \* '\n'
  ZERO_SIZE_PTR,  \* what kmalloc(0) returns
  FREE,           \* heap: the block is not allocated
  UNINIT,         \* heap: a byte nobody has written
  ZERO            \* heap: a byte copy_from_user cleared

ASSUME DeviceAssumption ==
  /\ Blocks \cap {NULL, ZERO_SIZE_PTR} = {} /\ NULL # ZERO_SIZE_PTR
  /\ Counts \subseteq Nat
  /\ Faults \subseteq {"kmalloc", "krealloc", "copy_from_user",
                       "copy_to_user", "alloc_chrdev_region", "cdev_add"}
  /\ MaxPartial \in Nat /\ MaxPos \in Nat
  /\ NULL \notin Procs

Bytes == UNION {{d[i] : i \in DOMAIN d} : d \in Payloads}

ASSUME PayloadsAssumption ==
  /\ \A d \in Payloads : d \in Seq(Bytes)
  /\ Bytes \cap {UNINIT, ZERO} = {}
  /\ FREE \notin Seq(Bytes \cup {UNINIT, ZERO})
  /\ EOL \notin {UNINIT, ZERO}

VARIABLES
  loaded,          \* the module is inserted and the device registered
  circular_buffer, \* aesd_device.circular_buffer
  staging,         \* aesd_device.buffer_entry_staging
  device_mutex,    \* the process that holds it, or NULL
  heap,            \* the bytes of each allocated block
  pc,              \* where each process is
  count,           \* read: the size of the user's buffer
  buffer_entry,    \* read: the entry found, copied from later
  data,            \* write: the user's bytes
  staging_offset,  \* write: where they go in the staging entry
  f_pos,           \* its file position
  userbuf          \* what the read that just returned has delivered

device == <<loaded, circular_buffer, staging, device_mutex, heap>>
stack == <<count, buffer_entry, data, staging_offset>>
caller == <<pc, stack, f_pos, userbuf>>
vars == <<device, caller>>

Pcs == {"closed", "idle", "read_lock", "read_copy",
        "write_lock", "write_copy"}

-----------------------------------------------------------------------------
(* Kernel services, as the driver uses them. *)

FreeBlocks(h) == {b \in Blocks : h[b] = FREE}

Uninitialised(size) == [i \in 1 .. size |-> UNINIT]

(* The pairs of pointer and heap kmalloc(size) may leave behind. *)
kmalloc(h, size) ==
  (IF size = 0
     THEN {<<ZERO_SIZE_PTR, h>>}
     ELSE {<<b, [h EXCEPT ![b] = Uninitialised(size)]>> : b \in FreeBlocks(h)})
  \cup {<<NULL, h>> : f \in Faults \cap {"kmalloc"}}

(* krealloc grows a block in place or moves it; when it fails the old      *)
(* block stays allocated.                                                  *)
krealloc(h, ptr, size) ==
  LET grown == h[ptr] \o Uninitialised(size - Len(h[ptr]))
  IN  (IF ptr = NULL
         THEN {<<b, [h EXCEPT ![b] = Uninitialised(size)]>> :
                  b \in FreeBlocks(h)}
         ELSE {<<b, [h EXCEPT ![ptr] = FREE, ![b] = grown]>> :
                  b \in FreeBlocks(h) \cup {ptr}})
      \cup {<<NULL, h>> : f \in Faults \cap {"krealloc"}}

kfree(h, ptrs) ==
  [b \in Blocks |-> IF b \in ptrs THEN FREE ELSE h[b]]

(* How many of n bytes a copy that may fault really transfers. *)
Copied(copy, n) == IF copy \in Faults THEN 0 .. n ELSE {n}

(* The block after copy_from_user put the first k bytes of src at off      *)
(* and cleared the rest of the destination.                                *)
CopyIn(bytes, off, src, k) ==
  [i \in DOMAIN bytes |->
     IF i \notin off + 1 .. off + Len(src)
       THEN bytes[i]
       ELSE IF i <= off + k THEN src[i - off] ELSE ZERO]

-----------------------------------------------------------------------------
(* Mutated forms, each a slip a maintainer of the driver could make. *)

(* The mutex is not waited for. *)
Lock_no_wait(p) == device_mutex' = p

(* The bytes are added to the buffer but the staging entry is kept. *)
NextStaging_kept == staging

(* A failing allocation returns without giving the mutex back. *)
FailAlloc_keeps_mutex(p) == device_mutex' = p

(* The replaced line is not freed. *)
Replaced_leaked(ptr) == {}

(* The whole staging buffer is searched with the length of the new bytes. *)
EndOfLine_from_start(bytes, off, n) ==
  \E i \in 1 .. n : bytes[i] = EOL

(* A read returns at most one byte less than the entry has. *)
BytesToCopy_short(n, size) ==
  IF n < size THEN n ELSE IF size > 1 THEN size - 1 ELSE size

-----------------------------------------------------------------------------
Init ==
  /\ loaded = FALSE
  /\ circular_buffer = aesd_circular_buffer_init
  /\ staging = NoEntry
  /\ device_mutex = NULL
  /\ heap = [b \in Blocks |-> FREE]
  /\ pc = [p \in Procs |-> "closed"]
  /\ count = [p \in Procs |-> 0]
  /\ buffer_entry = [p \in Procs |-> NoEntry]
  /\ data = [p \in Procs |-> <<>>]
  /\ staging_offset = [p \in Procs |-> 0]
  /\ f_pos = [p \in Procs |-> 0]
  /\ userbuf = [p \in Procs |-> <<>>]

(* The struct is zeroed before the device is registered; when either       *)
(* registration fails the module is not inserted.                          *)
aesd_init_module ==
  /\ ~loaded
  /\ \/ /\ "alloc_chrdev_region" \in Faults
        /\ UNCHANGED <<loaded, circular_buffer, staging, device_mutex>>
     \/ /\ circular_buffer' = aesd_circular_buffer_init
        /\ staging' = NoEntry
        /\ device_mutex' = NULL
        /\ \/ loaded' = TRUE
           \/ "cdev_add" \in Faults /\ loaded' = FALSE
  /\ UNCHANGED <<heap, caller>>

(* The pointers aesd_cleanup_module frees: every slot's and the staging    *)
(* entry's; kfree ignores NULL and ZERO_SIZE_PTR.                          *)
Owned ==
  {circular_buffer.entry[i].buffptr : i \in Slots} \cup {staging.buffptr}

(* The kernel counts open files against the module (fops.owner): it can be *)
(* removed only when there are none.                                       *)
aesd_cleanup_module ==
  /\ loaded
  /\ \A p \in Procs : pc[p] = "closed"
  /\ loaded' = FALSE
  /\ heap' = kfree(heap, Owned)
  /\ UNCHANGED <<circular_buffer, staging, device_mutex, caller>>

(* A file description lives from open to release and starts at position 0. *)
aesd_open(p) ==
  /\ loaded
  /\ pc[p] = "closed"
  /\ pc' = [pc EXCEPT ![p] = "idle"]
  /\ UNCHANGED <<device, stack, f_pos, userbuf>>

aesd_release(p) ==
  /\ pc[p] = "idle"
  /\ pc' = [pc EXCEPT ![p] = "closed"]
  /\ f_pos' = [f_pos EXCEPT ![p] = 0]
  /\ userbuf' = [userbuf EXCEPT ![p] = <<>>]
  /\ UNCHANGED <<device, stack>>

-----------------------------------------------------------------------------
(* mutex_lock and mutex_unlock of device_mutex. *)

Lock(p) == device_mutex = NULL /\ device_mutex' = p

Unlock == device_mutex' = NULL

(* The handler returns to process p; its stack is gone. *)
Return(p) ==
  /\ pc' = [pc EXCEPT ![p] = "idle"]
  /\ count' = [count EXCEPT ![p] = 0]
  /\ buffer_entry' = [buffer_entry EXCEPT ![p] = NoEntry]
  /\ data' = [data EXCEPT ![p] = <<>>]
  /\ staging_offset' = [staging_offset EXCEPT ![p] = 0]

(* min(count, buffer_entry->size) *)
BytesToCopy(n, size) == IF n < size THEN n ELSE size

(***************************************************************************)
(* aesd_read. It copies from the start of the entry the position falls in: *)
(* the offset inside the entry that the search returns is not used.        *)
(***************************************************************************)
read(p) ==
  /\ pc[p] = "idle"
  /\ f_pos[p] <= MaxPos
  /\ pc' = [pc EXCEPT ![p] = "read_lock"]
  /\ \E n \in Counts : count' = [count EXCEPT ![p] = n]
  /\ userbuf' = [userbuf EXCEPT ![p] = <<>>]
  /\ UNCHANGED <<device, buffer_entry, data, staging_offset, f_pos>>

aesd_read_find(p) ==
  LET found == find_entry_offset_for_fpos(circular_buffer, f_pos[p])
  IN  /\ pc[p] = "read_lock"
      /\ Lock(p)
      /\ found # NULL
      /\ pc' = [pc EXCEPT ![p] = "read_copy"]
      /\ buffer_entry' = [buffer_entry EXCEPT ![p] = found.entry]
      /\ UNCHANGED <<loaded, circular_buffer, staging, heap, count, data,
                     staging_offset, f_pos, userbuf>>

(* Nothing at that position: the mutex is taken and given back, and the    *)
(* call returns 0, end of file.                                            *)
aesd_read_eof(p) ==
  /\ pc[p] = "read_lock"
  /\ device_mutex = NULL
  /\ find_entry_offset_for_fpos(circular_buffer, f_pos[p]) = NULL
  /\ Return(p)
  /\ UNCHANGED <<device, f_pos, userbuf>>

aesd_read_copy(p) ==
  LET bytes_to_copy == BytesToCopy(count[p], buffer_entry[p].size)
  IN  /\ pc[p] = "read_copy"
      /\ \E bytes_written \in Copied("copy_to_user", bytes_to_copy) :
           /\ userbuf' = [userbuf EXCEPT ![p] =
                 SubSeq(heap[buffer_entry[p].buffptr], 1, bytes_written)]
           /\ f_pos' = [f_pos EXCEPT ![p] = @ + bytes_written]
           /\ Return(p)
      /\ Unlock
      /\ UNCHANGED <<loaded, circular_buffer, staging, heap>>

-----------------------------------------------------------------------------
(* aesd_write. *)

write(p) ==
  /\ pc[p] = "idle"
  /\ f_pos[p] <= MaxPos
  /\ staging.size <= MaxPartial
  /\ \E d \in Payloads : data' = [data EXCEPT ![p] = d]
  /\ pc' = [pc EXCEPT ![p] = "write_lock"]
  /\ userbuf' = [userbuf EXCEPT ![p] = <<>>]
  /\ UNCHANGED <<device, count, buffer_entry, staging_offset, f_pos>>

(* The pointers and heaps the allocation at the start of a write may give. *)
StagingAlloc(n) ==
  IF staging.size = 0
    THEN kmalloc(heap, n)
    ELSE krealloc(heap, staging.buffptr, staging.size + n)

aesd_write_alloc(p) ==
  /\ pc[p] = "write_lock"
  /\ Lock(p)
  /\ \E new \in StagingAlloc(Len(data[p])) :
       /\ new[1] # NULL
       /\ staging' = [buffptr |-> new[1],
                      size    |-> staging.size + Len(data[p])]
       /\ heap' = new[2]
  /\ staging_offset' = [staging_offset EXCEPT ![p] = staging.size]
  /\ pc' = [pc EXCEPT ![p] = "write_copy"]
  /\ UNCHANGED <<loaded, circular_buffer, count, buffer_entry, data,
                 f_pos, userbuf>>

(* What a failing allocation leaves of the mutex: it is given back. *)
FailAlloc(p) == UNCHANGED device_mutex

(* The call returns -ENOMEM. The NULL is stored over the pointer to the    *)
(* bytes gathered so far, and the size is left alone.                      *)
aesd_write_enomem(p) ==
  /\ pc[p] = "write_lock"
  /\ device_mutex = NULL
  /\ \E new \in StagingAlloc(Len(data[p])) : new[1] = NULL
  /\ staging' = [staging EXCEPT !.buffptr = NULL]
  /\ FailAlloc(p)
  /\ Return(p)
  /\ UNCHANGED <<loaded, circular_buffer, heap, f_pos, userbuf>>

(* memchr over the bytes this call added. *)
EndOfLine(bytes, off, n) ==
  \E i \in off + 1 .. off + n : bytes[i] = EOL

(* The block the buffer replaced is freed. *)
Replaced(ptr) == {ptr}

(* The staging entry once its bytes belong to the buffer. *)
NextStaging == NoEntry

(***************************************************************************)
(* Bytes that copy_from_user did not transfer stay part of the staging     *)
(* entry. copy_from_user returns no negative number, so the branch that    *)
(* tests for one is never taken.                                           *)
(***************************************************************************)
aesd_write_copy(p) ==
  LET n   == Len(data[p])
      off == staging_offset[p]
      old == IF staging.size = 0 THEN <<>> ELSE heap[staging.buffptr]
  IN  /\ pc[p] = "write_copy"
      /\ \E bytes_copied \in Copied("copy_from_user", n) :
           LET bytes == CopyIn(old, off, data[p], bytes_copied)
               h     == [b \in Blocks |-> IF b = staging.buffptr THEN bytes
                                                                ELSE heap[b]]
               added == add_entry(circular_buffer, staging)
           IN  /\ f_pos' = [f_pos EXCEPT ![p] = @ + bytes_copied]
               /\ Return(p)
               /\ IF EndOfLine(bytes, off, n)
                    THEN /\ circular_buffer' = added.buffer
                         /\ heap' = kfree(h, Replaced(added.replaced))
                         /\ staging' = NextStaging
                    ELSE /\ heap' = h
                         /\ UNCHANGED <<circular_buffer, staging>>
      /\ Unlock
      /\ UNCHANGED <<loaded, userbuf>>

-----------------------------------------------------------------------------
Next ==
  \/ aesd_init_module
  \/ aesd_cleanup_module
  \/ \E p \in Procs :
       \/ aesd_open(p) \/ aesd_release(p)
       \/ read(p) \/ aesd_read_find(p) \/ aesd_read_eof(p) \/ aesd_read_copy(p)
       \/ write(p) \/ aesd_write_alloc(p) \/ aesd_write_enomem(p)
       \/ aesd_write_copy(p)

Spec == Init /\ [][Next]_vars

(* A call that has the mutex runs to its end, and mutex_lock is not passed *)
(* over for ever.                                                          *)
HandlerStep(p) ==
  \/ aesd_read_find(p) \/ aesd_read_eof(p) \/ aesd_read_copy(p)
  \/ aesd_write_alloc(p) \/ aesd_write_enomem(p) \/ aesd_write_copy(p)

FairSpec == Spec /\ \A p \in Procs : SF_vars(HandlerStep(p))

-----------------------------------------------------------------------------
(* Every variable has its type; the entries of the buffer and the staging  *)
(* entry hold pointers the driver got from the kernel.                     *)
Pointers == Blocks \cup {NULL, ZERO_SIZE_PTR}
Entry == [buffptr : Pointers, size : Nat]
TypeOK ==
  /\ loaded \in BOOLEAN
  /\ circular_buffer \in [entry    : [Slots -> Entry],
                          in_offs  : Slots,
                          out_offs : Slots,
                          full     : BOOLEAN]
  /\ staging \in Entry
  /\ device_mutex \in Procs \cup {NULL}
  /\ heap \in [Blocks -> Seq(Bytes \cup {UNINIT, ZERO}) \cup {FREE}]
  /\ pc \in [Procs -> Pcs]
  /\ count \in [Procs -> Nat]
  /\ buffer_entry \in [Procs -> Entry]
  /\ data \in [Procs -> Payloads \cup {<<>>}]
  /\ staging_offset \in [Procs -> Nat]
  /\ f_pos \in [Procs -> Nat]
  /\ userbuf \in [Procs -> Seq(Bytes \cup {UNINIT, ZERO})]

(* A process inside a handler holds the mutex: the copies to and from user *)
(* space, during which it may sleep, are exclusive.                        *)
MutexInv ==
  \A p \in Procs :
    pc[p] \in {"read_copy", "write_copy"} <=> device_mutex = p

Stored(e) ==
  e.buffptr \in Blocks /\ heap[e.buffptr] # FREE /\ Len(heap[e.buffptr]) = e.size

(* No pointer the driver may follow dangles or has a second owner: each    *)
(* entry of the buffer and the staging entry has an allocated block of its *)
(* own, of the recorded size, and the line a sleeping reader is copying    *)
(* from is still in the buffer.                                            *)
MemorySafe ==
  loaded =>
    /\ \A i \in 1 .. Count(circular_buffer) :
         /\ Stored(Contents(circular_buffer)[i])
         /\ Contents(circular_buffer)[i].buffptr # staging.buffptr
         /\ \A j \in 1 .. Count(circular_buffer) :
              Contents(circular_buffer)[i].buffptr
                = Contents(circular_buffer)[j].buffptr => i = j
    /\ staging.buffptr \in Blocks => Stored(staging)
    /\ \A p \in Procs : pc[p] = "read_copy" =>
         \E i \in 1 .. Count(circular_buffer) :
           buffer_entry[p] = Contents(circular_buffer)[i]

(* Memory is neither lost nor kept: the allocated blocks are the ones the  *)
(* device still refers to, and none after the module is removed.           *)
NoLeak ==
  {b \in Blocks : heap[b] # FREE} = IF loaded THEN Owned \cap Blocks ELSE {}

(* Between calls the staging entry holds "Number of bytes stored in        *)
(* buffptr" bytes, each of them put there by a write.                      *)
SizeIsStored ==
  loaded /\ device_mutex = NULL /\ staging.size # 0 =>
    /\ Stored(staging)
    /\ \A i \in 1 .. staging.size : heap[staging.buffptr][i] \in Bytes

(* The lines the device holds, and the bytes gathered for the next one; a  *)
(* write that has allocated but not yet copied has gathered nothing yet.   *)
Lines ==
  IF loaded
    THEN [i \in 1 .. Count(circular_buffer) |->
            heap[Contents(circular_buffer)[i].buffptr]]
    ELSE <<>>

Gathered ==
  IF device_mutex # NULL /\ pc[device_mutex] = "write_copy"
    THEN staging_offset[device_mutex] ELSE staging.size

Partial ==
  IF loaded /\ Gathered # 0
    THEN SubSeq(heap[staging.buffptr], 1, Gathered) ELSE <<>>

Store == INSTANCE LineStore
           WITH Capacity <- MaxOps, lines <- Lines, partial <- Partial

(* The driver implements LineStore: concurrent writes take effect one at a *)
(* time, in full, and the lines are the newest MaxOps ones, whatever       *)
(* blocks they were moved to.                                              *)
ImplementsLineStore == Store!Spec

(* Every read and write returns: no path keeps the mutex.                  *)
CallsReturn ==
  \A p \in Procs : pc[p] \notin {"closed", "idle"} ~> pc[p] = "idle"
=============================================================================
