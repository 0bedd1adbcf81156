-------------------------- MODULE CharDeviceProofs --------------------------
(***************************************************************************)
(* The character device for any number of processes, blocks and payloads,  *)
(* every capacity and every width of size_t: its mutex excludes, no        *)
(* pointer it follows dangles, no memory is lost, it implements LineStore, *)
(* and readers are given its lines in their order.                         *)
(***************************************************************************)
EXTENDS CharReaders, CircularBufferLemmas, FiniteSetTheorems

(* The slots that hold a line. *)
Used(i) == circular_buffer.full \/ i < circular_buffer.in_offs

(* The driver is idle while the module is not inserted. *)
UnloadedInv == ~loaded => \A p \in Procs : pc[p] = "closed"

(* The indices agree; each slot in use has a block of its own, of the      *)
(* recorded size, and the other slots are zeroed.                          *)
SlotsInv ==
  loaded =>
    /\ circular_buffer.full => circular_buffer.in_offs = circular_buffer.out_offs
    /\ ~circular_buffer.full => circular_buffer.out_offs = 0
    /\ \A i \in Slots : Used(i) =>
         /\ circular_buffer.entry[i].size # 0
         /\ Stored(circular_buffer.entry[i])
         /\ circular_buffer.entry[i].buffptr # staging.buffptr
    /\ \A i \in Slots : ~Used(i) => circular_buffer.entry[i] = NoEntry
    /\ \A i, j \in Slots :
         Used(i) /\ Used(j) /\ circular_buffer.entry[i].buffptr
                                = circular_buffer.entry[j].buffptr => i = j

(* The staging entry has a block only when it has bytes, and the block has *)
(* its size.                                                               *)
StagingInv ==
  loaded =>
    /\ staging.size = 0 => staging.buffptr \notin Blocks
    /\ staging.size # 0 => staging.buffptr # ZERO_SIZE_PTR
    /\ staging.buffptr \in Blocks => Stored(staging)

(* A writer that is copying has made the staging entry as long as the      *)
(* bytes gathered before and its own.                                      *)
WriterInv ==
  \A p \in Procs : pc[p] = "write_copy" =>
    /\ staging.size = staging_offset[p] + Len(data[p])
    /\ staging.size # 0 => staging.buffptr \in Blocks

(* A reader that is copying does so from a slot in use. *)
ReaderInv ==
  \A p \in Procs : pc[p] = "read_copy" =>
    \E i \in Slots : Used(i) /\ buffer_entry[p] = circular_buffer.entry[i]

DeviceInv ==
  /\ TypeOK /\ MutexInv /\ UnloadedInv
  /\ SlotsInv /\ StagingInv /\ WriterInv /\ ReaderInv

-----------------------------------------------------------------------------
(* The operators the driver's steps are made of. *)

Cells == Bytes \cup {UNINIT, ZERO}

(* A fresh block is as long as asked for. *)
LEMMA UninitialisedIsBlock ==
  ASSUME NEW k \in Nat
  PROVE  Uninitialised(k) \in Seq(Cells) /\ Len(Uninitialised(k)) = k
<1>1. Uninitialised(k) \in [1 .. k -> Cells]
  BY DEF Uninitialised, Cells
<1> QED BY <1>1

(* What an allocation that succeeds leaves behind: no block at all for a   *)
(* write of no bytes to an empty staging entry, and otherwise a block that *)
(* nobody else has, of the new size, which begins with the bytes gathered  *)
(* so far; the old block is gone and every other block is as it was.       *)
LEMMA AllocEffect ==
  ASSUME TypeOK, StagingInv, loaded, NEW n \in Nat,
         NEW new \in StagingAlloc(n), new[1] # NULL
  PROVE  \/ /\ staging.size + n = 0
            /\ new[1] = ZERO_SIZE_PTR /\ new[2] = heap
         \/ /\ staging.size + n # 0
            /\ new[1] \in Blocks
            /\ heap[new[1]] = FREE \/ new[1] = staging.buffptr
            /\ new[2] \in [Blocks -> Seq(Cells) \cup {FREE}]
            /\ new[2][new[1]] \in Seq(Cells)
            /\ Len(new[2][new[1]]) = staging.size + n
            /\ \A b \in Blocks : b # new[1] =>
                 new[2][b] = IF b = staging.buffptr THEN FREE ELSE heap[b]
            /\ staging.buffptr \in Blocks =>
                 \A i \in 1 .. staging.size :
                   new[2][new[1]][i] = heap[staging.buffptr][i]
<1>1. /\ staging.size \in Nat /\ staging.buffptr \in Blocks \cup {NULL, ZERO_SIZE_PTR}
      /\ heap \in [Blocks -> Seq(Cells) \cup {FREE}]
      /\ NULL \notin Blocks
  BY DeviceAssumption DEF TypeOK, Entry, Pointers, Cells
<1>2. CASE staging.size = 0
  <2>1. staging.buffptr \notin Blocks
    BY <1>2 DEF StagingInv
  <2>2. new \in kmalloc(heap, n)
    BY <1>2 DEF StagingAlloc
  <2>3. CASE n = 0
    <3>1. new = <<ZERO_SIZE_PTR, heap>>
      BY <2>2, <2>3 DEF kmalloc
    <3> QED BY <3>1, <2>3, <1>2
  <2>4. CASE n # 0
    <3>1. PICK b \in FreeBlocks(heap) :
            new = <<b, [heap EXCEPT ![b] = Uninitialised(n)]>>
      BY <2>2, <2>4 DEF kmalloc
    <3>2. b \in Blocks /\ heap[b] = FREE
      BY DEF FreeBlocks
    <3>3. PICK u \in Seq(Cells) : u = Uninitialised(n) /\ Len(u) = n
      BY UninitialisedIsBlock
    <3>4. new[1] = b /\ new[2] = [heap EXCEPT ![b] = u]
      BY <3>1, <3>3
    <3>5. /\ new[2] \in [Blocks -> Seq(Cells) \cup {FREE}]
          /\ new[2][b] = u
          /\ \A c \in Blocks : c # b => new[2][c] = heap[c]
      BY <3>2, <3>4, <1>1
    <3>6. \A c \in Blocks : c # staging.buffptr
      BY <2>1
    <3>7. staging.size + n = n
      BY <1>2
    <3> QED BY <3>2, <3>3, <3>4, <3>5, <3>6, <3>7, <2>1, <2>4
  <2> QED BY <2>3, <2>4
<1>3. CASE staging.size # 0
  <2>1. staging.buffptr \in Blocks \cup {NULL}
    BY <1>1, <1>3 DEF StagingInv
  <2>2. new \in krealloc(heap, staging.buffptr, staging.size + n)
    BY <1>3 DEF StagingAlloc
  <2>3. staging.size + n \in Nat /\ staging.size + n # 0
    BY <1>1, <1>3
  <2>4. CASE staging.buffptr = NULL
    <3>1. PICK b \in FreeBlocks(heap) :
            new = <<b, [heap EXCEPT ![b] = Uninitialised(staging.size + n)]>>
      BY <2>2, <2>4 DEF krealloc
    <3>2. b \in Blocks /\ heap[b] = FREE
      BY DEF FreeBlocks
    <3>3. PICK u \in Seq(Cells) : /\ u = Uninitialised(staging.size + n)
                                  /\ Len(u) = staging.size + n
      BY <2>3, UninitialisedIsBlock
    <3>4. new[1] = b /\ new[2] = [heap EXCEPT ![b] = u]
      BY <3>1, <3>3
    <3>5. /\ new[2] \in [Blocks -> Seq(Cells) \cup {FREE}]
          /\ new[2][b] = u
          /\ \A c \in Blocks : c # b => new[2][c] = heap[c]
      BY <3>2, <3>4, <1>1
    <3>6. \A c \in Blocks : c # staging.buffptr
      BY <2>4, <1>1
    <3> QED BY <3>2, <3>3, <3>4, <3>5, <3>6, <2>3, <2>4, <1>1
  <2>5. CASE staging.buffptr # NULL
    <3> DEFINE ptr == staging.buffptr
    <3>1. ptr \in Blocks /\ heap[ptr] \in Seq(Cells) /\ Len(heap[ptr]) = staging.size
      BY <2>1, <2>5, <1>1 DEF StagingInv, Stored
    <3>2. (staging.size + n) - Len(heap[ptr]) = n
      BY <3>1, <1>1
    <3>3. PICK b \in FreeBlocks(heap) \cup {ptr} :
            new = <<b, [heap EXCEPT ![ptr] = FREE, ![b] = heap[ptr] \o Uninitialised(n)]>>
      <4>1. PICK g : g = heap[ptr] \o Uninitialised((staging.size + n) - Len(heap[ptr]))
        OBVIOUS
      <4>2. new \in {<<b, [heap EXCEPT ![ptr] = FREE, ![b] = g]>> :
                       b \in FreeBlocks(heap) \cup {ptr}}
                    \cup {<<NULL, heap>> : f \in Faults \cap {"krealloc"}}
        BY <2>2, <2>5, <4>1, Zenon DEF krealloc
      <4>3. g = heap[ptr] \o Uninitialised(n)
        BY <4>1, <3>2
      <4> QED BY <4>2, <4>3
    <3>4. b \in Blocks /\ (heap[b] = FREE \/ b = ptr)
      BY <3>1 DEF FreeBlocks
    <3>5. PICK u \in Seq(Cells) : u = heap[ptr] \o Uninitialised(n)
      BY <3>1, UninitialisedIsBlock, ConcatProperties
    <3>6. Len(u) = staging.size + n /\ \A i \in 1 .. staging.size : u[i] = heap[ptr][i]
      <4>1. PICK v \in Seq(Cells) : v = Uninitialised(n) /\ Len(v) = n
        BY UninitialisedIsBlock
      <4>2. PICK o \in Seq(Cells) : o = heap[ptr] /\ Len(o) = staging.size
        BY <3>1
      <4>3. u = o \o v
        BY <3>5, <4>1, <4>2
      <4>4. /\ Len(u) = staging.size + n
            /\ \A i \in 1 .. staging.size + n :
                 u[i] = IF i <= staging.size THEN o[i] ELSE v[i - staging.size]
        <5>1. /\ Len(o \o v) = Len(o) + Len(v)
              /\ \A i \in 1 .. Len(o) + Len(v) :
                   (o \o v)[i] = IF i <= Len(o) THEN o[i] ELSE v[i - Len(o)]
          BY ConcatProperties
        <5> QED BY <5>1, <4>1, <4>2, <4>3
      <4>5. \A i \in 1 .. staging.size : i \in 1 .. staging.size + n /\ i <= staging.size
        BY <1>1
      <4> QED BY <4>2, <4>4, <4>5
    <3>7. new[1] = b /\ new[2] = [heap EXCEPT ![ptr] = FREE, ![b] = u]
      BY <3>3, <3>5
    <3>8. /\ new[2] \in [Blocks -> Seq(Cells) \cup {FREE}]
          /\ new[2][b] = u
          /\ \A c \in Blocks : c # b => new[2][c] = IF c = ptr THEN FREE ELSE heap[c]
      BY <3>1, <3>4, <3>7, <1>1
    <3> QED BY <3>4, <3>6, <3>7, <3>8, <2>3
  <2> QED BY <2>4, <2>5
<1> QED BY <1>2, <1>3

(* copy_from_user changes no length and leaves what was gathered before. *)
LEMMA CopyInEffect ==
  ASSUME NEW old \in Seq(Cells), NEW off \in Nat, NEW src \in Seq(Bytes),
         NEW k \in 0 .. Len(src), Len(old) = off + Len(src)
  PROVE  /\ CopyIn(old, off, src, k) \in Seq(Cells)
         /\ Len(CopyIn(old, off, src, k)) = Len(old)
         /\ \A i \in 1 .. off : CopyIn(old, off, src, k)[i] = old[i]
         /\ \A i \in 1 .. k : CopyIn(old, off, src, k)[off + i] = src[i]
<1> DEFINE new == CopyIn(old, off, src, k)
<1>1. DOMAIN old = 1 .. Len(old) /\ Len(old) \in Nat /\ Len(src) \in Nat
  OBVIOUS
<1>2. \A i \in 1 .. Len(old) :
        new[i] = IF i \notin off + 1 .. off + Len(src)
                   THEN old[i]
                   ELSE IF i <= off + k THEN src[i - off] ELSE ZERO
  BY <1>1 DEF CopyIn
<1>3. new = [i \in 1 .. Len(old) |-> new[i]]
  BY <1>1 DEF CopyIn
<1> HIDE DEF new
<1>4. ASSUME NEW i \in 1 .. Len(old) PROVE new[i] \in Cells
  <2>1. CASE i \notin off + 1 .. off + Len(src)
    BY <2>1, <1>2
  <2>2. CASE i \in off + 1 .. off + Len(src)
    <3>1. i - off \in 1 .. Len(src)
      BY <2>2, <1>1
    <3>2. src[i - off] \in Cells
      BY <3>1 DEF Cells
    <3> QED BY <3>2, <2>2, <1>2 DEF Cells
  <2> QED BY <2>1, <2>2
<1>5. new \in [1 .. Len(old) -> Cells]
  BY <1>3, <1>4
<1>6. new \in Seq(Cells) /\ Len(new) = Len(old)
  BY <1>1, <1>5
<1>7. \A i \in 1 .. off : new[i] = old[i]
  BY <1>1, <1>2
<1>8. ASSUME NEW i \in 1 .. k PROVE new[off + i] = src[i]
  <2>1. /\ off + i \in 1 .. Len(old) /\ off + i \in off + 1 .. off + Len(src)
        /\ off + i <= off + k /\ (off + i) - off = i
    BY <1>1
  <2> QED BY <2>1, <1>2
<1> QED BY <1>6, <1>7, <1>8 DEF new

-----------------------------------------------------------------------------
(* DeviceInv is kept by every step. *)

(* The fields of the variables, with their types. *)
LEMMA DeviceTypes ==
  ASSUME TypeOK
  PROVE  /\ circular_buffer.entry \in [Slots -> Entry]
         /\ circular_buffer.in_offs \in Slots
         /\ circular_buffer.out_offs \in Slots
         /\ circular_buffer.full \in BOOLEAN
         /\ staging.buffptr \in Pointers /\ staging.size \in Nat
         /\ heap \in [Blocks -> Seq(Cells) \cup {FREE}]
         /\ FREE \notin Seq(Cells)
         /\ NULL \notin Blocks /\ ZERO_SIZE_PTR \notin Blocks
         /\ NULL # ZERO_SIZE_PTR /\ NULL \notin Procs
         /\ \A p \in Procs : data[p] \in Seq(Bytes)
<1>1. /\ circular_buffer.entry \in [Slots -> Entry]
      /\ circular_buffer.in_offs \in Slots
      /\ circular_buffer.out_offs \in Slots
      /\ circular_buffer.full \in BOOLEAN
  BY DEF TypeOK
<1>2. staging.buffptr \in Pointers /\ staging.size \in Nat
  BY DEF TypeOK, Entry
<1>3. heap \in [Blocks -> Seq(Cells) \cup {FREE}] /\ FREE \notin Seq(Cells)
  BY PayloadsAssumption DEF TypeOK, Cells
<1>4. /\ NULL \notin Blocks /\ ZERO_SIZE_PTR \notin Blocks
      /\ NULL # ZERO_SIZE_PTR /\ NULL \notin Procs
  BY DeviceAssumption
<1>5. \A p \in Procs : data[p] \in Seq(Bytes)
  <2>1. \A d \in Payloads \cup {<<>>} : d \in Seq(Bytes)
    <3>1. <<>> \in Seq(Bytes)
      OBVIOUS
    <3> QED BY <3>1, PayloadsAssumption, Zenon
  <2> QED BY <2>1 DEF TypeOK
<1> QED BY <1>1, <1>2, <1>3, <1>4, <1>5

(* The mutex has one holder: a process that is in a handler is the only    *)
(* one, and nobody is when the mutex is free.                              *)
LEMMA HolderAlone ==
  ASSUME TypeOK, MutexInv
  PROVE  /\ \A p, q \in Procs :
              pc[p] \in {"read_copy", "write_copy"}
                /\ pc[q] \in {"read_copy", "write_copy"} => p = q
         /\ device_mutex = NULL =>
              \A p \in Procs : pc[p] \notin {"read_copy", "write_copy"}
  BY DeviceAssumption DEF MutexInv

(* A step that leaves the buffer, the staging entry and the heap alone. *)
LEMMA DeviceUntouched ==
  ASSUME SlotsInv, StagingInv,
         UNCHANGED <<loaded, circular_buffer, staging, heap>>
  PROVE  SlotsInv' /\ StagingInv'
<1>1. SlotsInv'
  BY DEF SlotsInv, Used, Stored
<1>2. StagingInv'
  BY DEF StagingInv, Stored
<1> QED BY <1>1, <1>2

(* DeviceInv holds before the module is inserted. *)
LEMMA DeviceInit == Init => DeviceInv
<1> SUFFICES ASSUME Init PROVE DeviceInv
  OBVIOUS
<1>1. NoEntry \in Entry /\ 0 \in Slots
  BY MaxOpsAssumption DEF NoEntry, Entry, Pointers, Slots
<1>2. TypeOK
  <2>1. circular_buffer \in [entry : [Slots -> Entry], in_offs : Slots,
                             out_offs : Slots, full : BOOLEAN]
    BY <1>1 DEF Init, aesd_circular_buffer_init
  <2>2. <<>> \in Seq(Bytes \cup {UNINIT, ZERO})
    OBVIOUS
  <2>3. heap \in [Blocks -> Seq(Bytes \cup {UNINIT, ZERO}) \cup {FREE}]
    BY DEF Init
  <2>4. userbuf \in [Procs -> Seq(Bytes \cup {UNINIT, ZERO})]
    BY <2>2 DEF Init
  <2> QED BY <1>1, <2>1, <2>3, <2>4 DEF Init, TypeOK, Pcs
<1>3. MutexInv /\ UnloadedInv
  BY DeviceAssumption DEF Init, MutexInv, UnloadedInv
<1>4. SlotsInv /\ StagingInv /\ WriterInv /\ ReaderInv
  BY DEF Init, SlotsInv, StagingInv, WriterInv, ReaderInv
<1> QED BY <1>2, <1>3, <1>4 DEF DeviceInv

(* The module is inserted or removed. *)
LEMMA ModuleKeeps ==
  ASSUME DeviceInv, aesd_init_module \/ aesd_cleanup_module
  PROVE  DeviceInv'
<1>1. CASE aesd_cleanup_module
  <2>1. /\ loaded' = FALSE /\ heap' = kfree(heap, Owned)
        /\ \A p \in Procs : pc[p] = "closed"
        /\ UNCHANGED <<circular_buffer, staging, device_mutex, caller>>
    BY <1>1 DEF aesd_cleanup_module
  <2>2. heap' \in [Blocks -> Seq(Cells) \cup {FREE}]
    BY <2>1, DeviceTypes DEF kfree, DeviceInv
  <2>3. TypeOK'
    BY <2>1, <2>2 DEF DeviceInv, TypeOK, caller, stack, Cells
  <2>4. MutexInv' /\ UnloadedInv'
    BY <2>1 DEF DeviceInv, MutexInv, UnloadedInv, caller
  <2>5. SlotsInv' /\ StagingInv' /\ WriterInv' /\ ReaderInv'
    BY <2>1 DEF SlotsInv, StagingInv, WriterInv, ReaderInv, caller
  <2> QED BY <2>3, <2>4, <2>5 DEF DeviceInv
<1>2. CASE aesd_init_module
  <2>1. ~loaded /\ UNCHANGED <<heap, caller>>
    BY <1>2 DEF aesd_init_module
  <2>2. \A p \in Procs : pc[p] = "closed" /\ pc'[p] = "closed"
    BY <2>1 DEF DeviceInv, UnloadedInv, caller
  <2>3. WriterInv' /\ ReaderInv'
    BY <2>2 DEF WriterInv, ReaderInv
  <2>4. CASE UNCHANGED <<loaded, circular_buffer, staging, device_mutex>>
    <3>1. TypeOK' /\ MutexInv' /\ UnloadedInv'
      BY <2>1, <2>4 DEF DeviceInv, TypeOK, MutexInv, UnloadedInv, caller, stack
    <3>2. SlotsInv' /\ StagingInv'
      BY <2>1, <2>4 DEF SlotsInv, StagingInv
    <3> QED BY <2>3, <3>1, <3>2 DEF DeviceInv
  <2>5. CASE /\ circular_buffer' = aesd_circular_buffer_init
             /\ staging' = NoEntry /\ device_mutex' = NULL
             /\ loaded' \in BOOLEAN
    <3>1. NoEntry \in Entry /\ 0 \in Slots
      BY MaxOpsAssumption DEF NoEntry, Entry, Pointers, Slots
    <3>2. /\ circular_buffer'.entry = [i \in Slots |-> NoEntry]
          /\ circular_buffer'.in_offs = 0 /\ circular_buffer'.out_offs = 0
          /\ circular_buffer'.full = FALSE
          /\ staging'.buffptr = NULL /\ staging'.size = 0
      BY <2>5 DEF aesd_circular_buffer_init, NoEntry
    <3>3. circular_buffer' \in [entry : [Slots -> Entry], in_offs : Slots,
                                out_offs : Slots, full : BOOLEAN]
      BY <2>5, <3>1 DEF aesd_circular_buffer_init
    <3>4. TypeOK'
      BY <2>1, <2>5, <3>1, <3>3 DEF DeviceInv, TypeOK, caller, stack
    <3>5. MutexInv' /\ UnloadedInv'
      BY <2>2, <2>5, DeviceAssumption DEF MutexInv, UnloadedInv
    <3>6. \A i \in Slots : ~Used(i)'
      BY <3>2, MaxOpsAssumption DEF Used, Slots
    <3>7. SlotsInv'
      BY <3>2, <3>6 DEF SlotsInv
    <3>8. StagingInv'
      BY <3>2, DeviceAssumption DEF StagingInv
    <3> QED BY <2>3, <3>4, <3>5, <3>7, <3>8 DEF DeviceInv
  <2> QED BY <1>2, <2>4, <2>5 DEF aesd_init_module
<1> QED BY <1>1, <1>2

(* A file is opened or released, or a call arrives: nothing of the device  *)
(* changes.                                                                *)
LEMMA CallerKeeps ==
  ASSUME DeviceInv, NEW p \in Procs,
         aesd_open(p) \/ aesd_release(p) \/ read(p) \/ write(p)
  PROVE  DeviceInv'
<1>1. /\ UNCHANGED device /\ UNCHANGED <<buffer_entry, staging_offset>>
      /\ pc[p] \in {"closed", "idle"}
      /\ pc[p] = "closed" => loaded
      /\ \E s \in {"closed", "idle", "read_lock", "write_lock"} :
           pc' = [pc EXCEPT ![p] = s]
  BY DEF aesd_open, aesd_release, read, write, stack
<1>2. \/ data' = data
      \/ \E d \in Payloads : data' = [data EXCEPT ![p] = d]
  BY DEF aesd_open, aesd_release, read, write, stack
<1>3. pc \in [Procs -> Pcs] /\ data \in [Procs -> Payloads \cup {<<>>}]
  BY DEF DeviceInv, TypeOK
<1>4. TypeOK'
  <2>1. pc' \in [Procs -> Pcs] /\ data' \in [Procs -> Payloads \cup {<<>>}]
    BY <1>1, <1>2, <1>3 DEF Pcs
  <2>2. count' \in [Procs -> Nat]
    BY DeviceAssumption, SMTT(30)
       DEF aesd_open, aesd_release, read, write, stack, DeviceInv, TypeOK
  <2>3. f_pos' \in [Procs -> Nat]
    <3>1. f_pos' = f_pos \/ f_pos' = [f_pos EXCEPT ![p] = 0]
      BY DEF aesd_open, aesd_release, read, write
    <3> QED BY <3>1 DEF DeviceInv, TypeOK
  <2>4. userbuf' \in [Procs -> Seq(Bytes \cup {UNINIT, ZERO})]
    <3>1. userbuf' = userbuf \/ userbuf' = [userbuf EXCEPT ![p] = <<>>]
      BY DEF aesd_open, aesd_release, read, write
    <3>2. <<>> \in Seq(Bytes \cup {UNINIT, ZERO})
      OBVIOUS
    <3> QED BY <3>1, <3>2 DEF DeviceInv, TypeOK
  <2> QED BY <1>1, <2>1, <2>2, <2>3, <2>4 DEF DeviceInv, TypeOK, device
<1>5. \A q \in Procs :
        /\ pc'[q] \in {"read_copy", "write_copy"} <=> pc[q] \in {"read_copy", "write_copy"}
        /\ pc'[q] \in {"read_copy", "write_copy"} =>
             q # p /\ pc'[q] = pc[q] /\ data'[q] = data[q]
  BY <1>1, <1>2, <1>3
<1>6. MutexInv'
  BY <1>1, <1>5 DEF DeviceInv, MutexInv, device
<1>7. UnloadedInv'
  BY <1>1, <1>3 DEF DeviceInv, UnloadedInv, device
<1>8. SlotsInv' /\ StagingInv'
  BY <1>1, DeviceUntouched DEF DeviceInv, device
<1>9. WriterInv'
  BY <1>1, <1>5 DEF DeviceInv, WriterInv, device
<1>10. ReaderInv'
  BY <1>1, <1>5 DEF DeviceInv, ReaderInv, device, Used
<1> QED BY <1>4, <1>6, <1>7, <1>8, <1>9, <1>10 DEF DeviceInv

(* A reader takes the mutex: what it finds is in a slot in use. *)
LEMMA ReadFindKeeps ==
  ASSUME DeviceInv, NEW p \in Procs, aesd_read_find(p)
  PROVE  DeviceInv'
<1> DEFINE found == find_entry_offset_for_fpos(circular_buffer, f_pos[p])
<1>1. /\ pc[p] = "read_lock" /\ device_mutex = NULL /\ device_mutex' = p
      /\ found # NULL /\ pc' = [pc EXCEPT ![p] = "read_copy"]
      /\ buffer_entry' = [buffer_entry EXCEPT ![p] = found.entry]
      /\ UNCHANGED <<loaded, circular_buffer, staging, heap, count, data,
                     staging_offset, f_pos, userbuf>>
  BY DEF aesd_read_find, Lock
<1>2. loaded /\ pc \in [Procs -> Pcs] /\ buffer_entry \in [Procs -> Entry]
  BY <1>1 DEF DeviceInv, UnloadedInv, TypeOK
<1>3. \A q \in Procs : pc[q] \notin {"read_copy", "write_copy"}
  BY <1>1, HolderAlone DEF DeviceInv
<1>4. RingShape(circular_buffer, Entry)
  BY <1>2 DEF DeviceInv, TypeOK, SlotsInv, RingShape
<1>5. \E i \in Slots : Used(i) /\ found.entry = circular_buffer.entry[i]
  <2>1. Sized(circular_buffer)
    <3>1. \A e \in Entry : e.size \in Nat
      BY DEF Entry
    <3> QED BY <1>4, <3>1, RingIsSized
  <2>2. ASSUME NEW i \in Slots, ~circular_buffer.full, i >= circular_buffer.in_offs
        PROVE  circular_buffer.entry[i].size = 0
    <3>1. ~Used(i)
      <4>1. circular_buffer.in_offs \in Slots
        BY DeviceTypes DEF DeviceInv
      <4> QED BY <2>2, <4>1, MaxOpsAssumption DEF Used, Slots
    <3>2. circular_buffer.entry[i] = NoEntry
      BY <1>2, <3>1 DEF DeviceInv, SlotsInv
    <3> QED BY <3>2 DEF NoEntry
  <2>3. \E k \in 1 .. Count(circular_buffer) : found.entry = Contents(circular_buffer)[k]
    BY <1>1, <1>4, <2>1, <2>2, FindsStoredEntry
  <2>4. PICK k \in 1 .. Count(circular_buffer) : found.entry = Contents(circular_buffer)[k]
    BY <2>3
  <2> QED BY <1>4, <2>4, ContentsSlots DEF Used
<1>6. found.entry \in Entry
  BY <1>5, DeviceTypes DEF DeviceInv
<1> HIDE DEF found
<1>7. /\ pc' \in [Procs -> Pcs] /\ buffer_entry' \in [Procs -> Entry]
      /\ pc'[p] = "read_copy" /\ buffer_entry'[p] = found.entry
      /\ \A q \in Procs : q # p => pc'[q] = pc[q]
  BY <1>1, <1>2, <1>6 DEF Pcs
<1>8. TypeOK'
  BY <1>1, <1>7 DEF DeviceInv, TypeOK
<1>9. MutexInv'
  BY <1>1, <1>3, <1>7 DEF MutexInv
<1>10. UnloadedInv'
  BY <1>1, <1>2 DEF UnloadedInv
<1>11. SlotsInv' /\ StagingInv'
  BY <1>1, DeviceUntouched DEF DeviceInv
<1>12. WriterInv'
  BY <1>3, <1>7 DEF WriterInv
<1>13. ReaderInv'
  BY <1>1, <1>3, <1>5, <1>7 DEF ReaderInv, Used
<1> QED BY <1>8, <1>9, <1>10, <1>11, <1>12, <1>13 DEF DeviceInv

(* What Return does to the caller's variables. *)
LEMMA ReturnEffect ==
  ASSUME TypeOK, NEW p \in Procs, Return(p)
  PROVE  /\ pc' \in [Procs -> Pcs] /\ count' \in [Procs -> Nat]
         /\ buffer_entry' \in [Procs -> Entry]
         /\ data' \in [Procs -> Payloads \cup {<<>>}]
         /\ staging_offset' \in [Procs -> Nat]
         /\ pc'[p] = "idle"
         /\ \A q \in Procs : q # p => /\ pc'[q] = pc[q]
                                      /\ buffer_entry'[q] = buffer_entry[q]
                                      /\ data'[q] = data[q]
                                      /\ staging_offset'[q] = staging_offset[q]
<1>1. NoEntry \in Entry
  BY DEF NoEntry, Entry, Pointers
<1> QED BY <1>1 DEF TypeOK, Return, Pcs

(* A reader returns: at the end of the lines, or with the bytes it has     *)
(* copied from a block that is still allocated.                            *)
LEMMA ReadReturnKeeps ==
  ASSUME DeviceInv, NEW p \in Procs, aesd_read_eof(p) \/ aesd_read_copy(p)
  PROVE  DeviceInv'
<1>1. /\ Return(p) /\ UNCHANGED <<loaded, circular_buffer, staging, heap>>
      /\ pc[p] # "closed" /\ pc[p] # "write_copy"
  BY DEF aesd_read_eof, aesd_read_copy, device
<1>2. /\ pc' \in [Procs -> Pcs] /\ count' \in [Procs -> Nat]
      /\ buffer_entry' \in [Procs -> Entry]
      /\ data' \in [Procs -> Payloads \cup {<<>>}]
      /\ staging_offset' \in [Procs -> Nat]
      /\ pc'[p] = "idle"
      /\ \A q \in Procs : q # p => /\ pc'[q] = pc[q]
                                   /\ buffer_entry'[q] = buffer_entry[q]
                                   /\ data'[q] = data[q]
                                   /\ staging_offset'[q] = staging_offset[q]
  BY <1>1, ReturnEffect DEF DeviceInv
<1>3. loaded /\ loaded'
  BY <1>1 DEF DeviceInv, UnloadedInv
<1>4. device_mutex' = NULL /\ \A q \in Procs : q # p => pc[q] \notin {"read_copy", "write_copy"}
  <2>1. CASE aesd_read_eof(p)
    BY <2>1, HolderAlone DEF DeviceInv, aesd_read_eof, device
  <2>2. CASE aesd_read_copy(p)
    BY <2>2, HolderAlone DEF DeviceInv, aesd_read_copy, Unlock
  <2> QED BY <2>1, <2>2
<1>5. f_pos' \in [Procs -> Nat] /\ userbuf' \in [Procs -> Seq(Bytes \cup {UNINIT, ZERO})]
  <2>1. CASE aesd_read_eof(p)
    BY <2>1 DEF aesd_read_eof, DeviceInv, TypeOK
  <2>2. CASE aesd_read_copy(p)
    <3>1. pc[p] = "read_copy"
      BY <2>2 DEF aesd_read_copy
    <3>2. PICK i \in Slots : Used(i) /\ buffer_entry[p] = circular_buffer.entry[i]
      BY <3>1 DEF DeviceInv, ReaderInv
    <3>3. Stored(buffer_entry[p])
      BY <1>3, <3>2 DEF DeviceInv, SlotsInv
    <3>4. PICK block \in Seq(Cells) : /\ block = heap[buffer_entry[p].buffptr]
                                      /\ Len(block) = buffer_entry[p].size
      BY <3>3, DeviceTypes DEF DeviceInv, Stored
    <3>5. count[p] \in Nat /\ f_pos \in [Procs -> Nat]
          /\ userbuf \in [Procs -> Seq(Cells)]
      BY DEF DeviceInv, TypeOK, Cells
    <3>6. PICK n : n = BytesToCopy(count[p], buffer_entry[p].size)
      OBVIOUS
    <3>7. n \in 0 .. Len(block)
      BY <3>4, <3>5, <3>6 DEF BytesToCopy
    <3>8. PICK w \in Copied("copy_to_user", n) :
            /\ userbuf' = [userbuf EXCEPT ![p] = SubSeq(block, 1, w)]
            /\ f_pos' = [f_pos EXCEPT ![p] = @ + w]
      BY <2>2, <3>4, <3>6 DEF aesd_read_copy
    <3>9. w \in 0 .. Len(block)
      BY <3>7, <3>8 DEF Copied
    <3>10. SubSeq(block, 1, w) \in Seq(Cells)
      BY <3>9
    <3>11. f_pos[p] + w \in Nat
      BY <3>5, <3>9
    <3> QED BY <3>5, <3>8, <3>10, <3>11 DEF Cells
  <2> QED BY <2>1, <2>2
<1>6. TypeOK'
  BY <1>1, <1>2, <1>4, <1>5 DEF DeviceInv, TypeOK
<1>7. MutexInv'
  BY <1>2, <1>4, DeviceAssumption DEF MutexInv
<1>8. UnloadedInv'
  BY <1>3 DEF UnloadedInv
<1>9. SlotsInv' /\ StagingInv'
  BY <1>1, DeviceUntouched DEF DeviceInv
<1>10. WriterInv' /\ ReaderInv'
  BY <1>2, <1>4 DEF WriterInv, ReaderInv
<1> QED BY <1>6, <1>7, <1>8, <1>9, <1>10 DEF DeviceInv

(* A writer takes the mutex and the staging entry gets a block that no     *)
(* slot has.                                                               *)
LEMMA WriteAllocKeeps ==
  ASSUME DeviceInv, NEW p \in Procs, aesd_write_alloc(p)
  PROVE  DeviceInv'
<1>1. /\ pc[p] = "write_lock" /\ device_mutex = NULL /\ device_mutex' = p
      /\ staging_offset' = [staging_offset EXCEPT ![p] = staging.size]
      /\ pc' = [pc EXCEPT ![p] = "write_copy"]
      /\ UNCHANGED <<loaded, circular_buffer, count, buffer_entry, data,
                     f_pos, userbuf>>
  BY DEF aesd_write_alloc, Lock
<1>2. PICK n \in Nat : n = Len(data[p])
  BY DeviceTypes DEF DeviceInv
<1>3. PICK new \in StagingAlloc(n) :
        /\ new[1] # NULL
        /\ staging' = [buffptr |-> new[1], size |-> staging.size + n]
        /\ heap' = new[2]
  BY <1>2 DEF aesd_write_alloc
<1>4. loaded /\ pc \in [Procs -> Pcs] /\ staging_offset \in [Procs -> Nat]
      /\ staging.size \in Nat
  BY <1>1 DEF DeviceInv, UnloadedInv, TypeOK, Entry
<1>5. \A q \in Procs : pc[q] \notin {"read_copy", "write_copy"}
  BY <1>1, HolderAlone DEF DeviceInv
<1>6. /\ pc' \in [Procs -> Pcs] /\ staging_offset' \in [Procs -> Nat]
      /\ pc'[p] = "write_copy" /\ staging_offset'[p] = staging.size
      /\ \A q \in Procs : q # p => pc'[q] = pc[q]
  BY <1>1, <1>4 DEF Pcs
<1>7. staging'.buffptr = new[1] /\ staging'.size = staging.size + n
  BY <1>3
<1>8. /\ circular_buffer.entry \in [Slots -> Entry]
      /\ heap \in [Blocks -> Seq(Cells) \cup {FREE}]
      /\ FREE \notin Seq(Cells)
      /\ NULL \notin Blocks /\ ZERO_SIZE_PTR \notin Blocks
  BY DeviceTypes DEF DeviceInv
<1>9. MutexInv' /\ UnloadedInv' /\ ReaderInv'
  <2>1. MutexInv'
    BY <1>1, <1>5, <1>6 DEF MutexInv
  <2>2. UnloadedInv'
    BY <1>1, <1>4 DEF UnloadedInv
  <2>3. ReaderInv'
    BY <1>5, <1>6 DEF ReaderInv
  <2> QED BY <2>1, <2>2, <2>3
<1>10. CASE /\ staging.size + n = 0
            /\ new[1] = ZERO_SIZE_PTR /\ new[2] = heap
  <2>1. staging'.size = 0 /\ staging'.buffptr = ZERO_SIZE_PTR /\ heap' = heap
    BY <1>3, <1>7, <1>10
  <2>2. staging' \in Entry
    BY <1>3, <1>10 DEF Entry, Pointers
  <2>3. TypeOK'
    BY <1>1, <1>6, <2>1, <2>2 DEF DeviceInv, TypeOK
  <2>4. SlotsInv'
    <3>1. \A i \in Slots : Used(i)' <=> Used(i)
      BY <1>1 DEF Used
    <3>2. \A i \in Slots : Used(i) => circular_buffer.entry[i].buffptr # ZERO_SIZE_PTR
      BY <1>4, <1>8 DEF DeviceInv, SlotsInv, Stored
    <3> QED BY <1>1, <1>4, <2>1, <3>1, <3>2 DEF DeviceInv, SlotsInv, Stored
  <2>5. StagingInv'
    BY <2>1, <1>8 DEF StagingInv
  <2>6. WriterInv'
    <3>1. staging'.size = staging_offset'[p] + Len(data'[p])
      BY <1>1, <1>2, <1>6, <1>7
    <3> QED BY <3>1, <1>5, <1>6, <2>1 DEF WriterInv
  <2> QED BY <1>9, <2>3, <2>4, <2>5, <2>6 DEF DeviceInv
<1>11. CASE /\ staging.size + n # 0
            /\ new[1] \in Blocks
            /\ heap[new[1]] = FREE \/ new[1] = staging.buffptr
            /\ new[2] \in [Blocks -> Seq(Cells) \cup {FREE}]
            /\ new[2][new[1]] \in Seq(Cells)
            /\ Len(new[2][new[1]]) = staging.size + n
            /\ \A b \in Blocks : b # new[1] =>
                 new[2][b] = IF b = staging.buffptr THEN FREE ELSE heap[b]
  <2>1. staging' \in Entry
    BY <1>3, <1>4, <1>11 DEF Entry, Pointers
  <2>2. TypeOK'
    BY <1>1, <1>3, <1>6, <1>11, <2>1 DEF DeviceInv, TypeOK, Cells
  <2>3. ASSUME NEW i \in Slots, Used(i)
        PROVE  /\ circular_buffer.entry[i].buffptr # staging'.buffptr
               /\ circular_buffer.entry[i].buffptr \in Blocks
               /\ heap'[circular_buffer.entry[i].buffptr]
                    = heap[circular_buffer.entry[i].buffptr]
    <3>1. PICK b : b = circular_buffer.entry[i].buffptr
      OBVIOUS
    <3>2. b \in Blocks /\ heap[b] # FREE /\ b # staging.buffptr
      BY <3>1, <2>3, <1>4 DEF DeviceInv, SlotsInv, Stored
    <3>3. b # new[1]
      BY <3>2, <1>11
    <3>4. heap'[b] = heap[b]
      BY <3>2, <3>3, <1>3, <1>11
    <3> QED BY <3>1, <3>2, <3>3, <3>4, <1>7
  <2>4. SlotsInv'
    <3>1. \A i \in Slots : Used(i)' <=> Used(i)
      BY <1>1 DEF Used
    <3>2. ASSUME NEW i \in Slots, Used(i)
          PROVE  circular_buffer'.entry[i].size # 0 /\ Stored(circular_buffer.entry[i])'
      <4>1. Stored(circular_buffer.entry[i]) /\ circular_buffer.entry[i].size # 0
        BY <3>2, <1>4 DEF DeviceInv, SlotsInv
      <4> QED BY <4>1, <3>2, <2>3, <1>1 DEF Stored
    <3> QED BY <1>1, <1>4, <2>3, <3>1, <3>2 DEF DeviceInv, SlotsInv
  <2>5. StagingInv'
    <3>1. Stored(staging)'
      BY <1>3, <1>7, <1>8, <1>11 DEF Stored
    <3>2. staging'.size # 0 /\ staging'.buffptr # ZERO_SIZE_PTR
      BY <1>7, <1>8, <1>11
    <3> QED BY <3>1, <3>2 DEF StagingInv
  <2>6. WriterInv'
    <3>1. staging'.size = staging_offset'[p] + Len(data'[p])
      BY <1>1, <1>2, <1>6, <1>7
    <3>2. staging'.buffptr \in Blocks
      BY <1>7, <1>11
    <3> QED BY <3>1, <3>2, <1>5, <1>6 DEF WriterInv
  <2> QED BY <1>9, <2>2, <2>4, <2>5, <2>6 DEF DeviceInv
<1> QED BY <1>3, <1>4, <1>10, <1>11, AllocEffect DEF DeviceInv

(* An allocation fails: the staging entry loses its pointer. *)
LEMMA WriteEnomemKeeps ==
  ASSUME DeviceInv, NEW p \in Procs, aesd_write_enomem(p)
  PROVE  DeviceInv'
<1>1. /\ Return(p) /\ pc[p] = "write_lock" /\ device_mutex = NULL
      /\ staging' = [staging EXCEPT !.buffptr = NULL]
      /\ UNCHANGED <<loaded, circular_buffer, heap, f_pos, userbuf, device_mutex>>
  BY DEF aesd_write_enomem, FailAlloc
<1>2. loaded /\ staging \in Entry
  BY <1>1 DEF DeviceInv, UnloadedInv, TypeOK
<1>3. \A q \in Procs : pc[q] \notin {"read_copy", "write_copy"}
  BY <1>1, HolderAlone DEF DeviceInv
<1>4. /\ pc' \in [Procs -> Pcs] /\ count' \in [Procs -> Nat]
      /\ buffer_entry' \in [Procs -> Entry]
      /\ data' \in [Procs -> Payloads \cup {<<>>}]
      /\ staging_offset' \in [Procs -> Nat]
      /\ pc'[p] = "idle"
      /\ \A q \in Procs : q # p => pc'[q] = pc[q]
  BY <1>1, ReturnEffect DEF DeviceInv
<1>5. staging' \in Entry /\ staging'.buffptr = NULL
  BY <1>1, <1>2 DEF Entry, Pointers
<1>6. NULL \notin Blocks /\ NULL # ZERO_SIZE_PTR /\ NULL \notin Procs
  BY DeviceAssumption
<1>7. TypeOK'
  BY <1>1, <1>4, <1>5 DEF DeviceInv, TypeOK
<1>8. MutexInv'
  BY <1>1, <1>3, <1>4, <1>6 DEF MutexInv
<1>9. UnloadedInv'
  BY <1>1, <1>2 DEF UnloadedInv
<1>10. SlotsInv'
  <2>1. \A i \in Slots : Used(i)' <=> Used(i)
    BY <1>1 DEF Used
  <2>2. \A i \in Slots : Used(i) => circular_buffer.entry[i].buffptr # NULL
    BY <1>2, <1>6 DEF DeviceInv, SlotsInv, Stored
  <2> QED BY <1>1, <1>2, <1>5, <2>1, <2>2 DEF DeviceInv, SlotsInv, Stored
<1>11. StagingInv'
  BY <1>5, <1>6 DEF StagingInv
<1>12. WriterInv' /\ ReaderInv'
  BY <1>3, <1>4 DEF WriterInv, ReaderInv
<1> QED BY <1>7, <1>8, <1>9, <1>10, <1>11, <1>12 DEF DeviceInv

(* What the copy of a writer leaves behind. The block of the staging entry *)
(* keeps its length and the bytes gathered before; without a newline       *)
(* nothing else changes, and with one the entry goes to the buffer and the *)
(* block it replaces there is freed.                                       *)
LEMMA WriteCopyEffect ==
  ASSUME DeviceInv, NEW p \in Procs, aesd_write_copy(p)
  PROVE  \E k \in 0 .. Len(data[p]), bytes \in Seq(Cells) :
           /\ k \in Copied("copy_from_user", Len(data[p]))
           /\ f_pos' = [f_pos EXCEPT ![p] = @ + k]
           /\ Len(bytes) = staging.size
           /\ staging.size # 0 =>
                \A i \in 1 .. staging_offset[p] : bytes[i] = heap[staging.buffptr][i]
           /\ \A i \in 1 .. k : bytes[staging_offset[p] + i] = data[p][i]
           /\ heap' \in [Blocks -> Seq(Cells) \cup {FREE}]
           /\ \/ /\ ~EndOfLine(bytes, staging_offset[p], Len(data[p]))
                 /\ UNCHANGED <<circular_buffer, staging>>
                 /\ \A b \in Blocks :
                      heap'[b] = IF b = staging.buffptr THEN bytes ELSE heap[b]
              \/ /\ EndOfLine(bytes, staging_offset[p], Len(data[p]))
                 /\ staging.size # 0 /\ staging.buffptr \in Blocks
                 /\ circular_buffer' = add_entry(circular_buffer, staging).buffer
                 /\ staging' = NoEntry
                 /\ \A b \in Blocks :
                      heap'[b] = IF b = add_entry(circular_buffer, staging).replaced
                                   THEN FREE
                                 ELSE IF b = staging.buffptr THEN bytes ELSE heap[b]
<1> DEFINE off == staging_offset[p]
           old == IF staging.size = 0 THEN <<>> ELSE heap[staging.buffptr]
           H(bytes) == [b \in Blocks |-> IF b = staging.buffptr THEN bytes ELSE heap[b]]
           added == add_entry(circular_buffer, staging)
<1>1. pc[p] = "write_copy" /\ loaded
  BY DEF aesd_write_copy, DeviceInv, UnloadedInv
<1>2. /\ staging.size = off + Len(data[p]) /\ off \in Nat /\ data[p] \in Seq(Bytes)
      /\ Len(data[p]) \in Nat /\ staging.size \in Nat
      /\ staging.size # 0 => staging.buffptr \in Blocks
      /\ heap \in [Blocks -> Seq(Cells) \cup {FREE}]
  <2>1. off \in Nat
    BY DEF DeviceInv, TypeOK
  <2> QED BY <1>1, <2>1, DeviceTypes DEF DeviceInv, WriterInv
<1>3. old \in Seq(Cells) /\ Len(old) = staging.size
  <2>1. CASE staging.size = 0
    BY <2>1
  <2>2. CASE staging.size # 0
    <3>1. Stored(staging)
      BY <1>1, <1>2, <2>2 DEF DeviceInv, StagingInv
    <3> QED BY <3>1, <1>2, <2>2 DEF Stored
  <2> QED BY <2>1, <2>2
<1>4. PICK k \in Copied("copy_from_user", Len(data[p])) :
        /\ f_pos' = [f_pos EXCEPT ![p] = @ + k]
        /\ EndOfLine(CopyIn(old, off, data[p], k), off, Len(data[p])) =>
             /\ circular_buffer' = added.buffer
             /\ heap' = kfree(H(CopyIn(old, off, data[p], k)), Replaced(added.replaced))
             /\ staging' = NextStaging
        /\ ~EndOfLine(CopyIn(old, off, data[p], k), off, Len(data[p])) =>
             /\ heap' = H(CopyIn(old, off, data[p], k))
             /\ UNCHANGED <<circular_buffer, staging>>
  BY DEF aesd_write_copy
<1>5. k \in 0 .. Len(data[p])
  BY <1>2 DEF Copied
<1> HIDE DEF old
<1>6. PICK bytes \in Seq(Cells) :
        /\ bytes = CopyIn(old, off, data[p], k) /\ Len(bytes) = staging.size
        /\ \A i \in 1 .. off : bytes[i] = old[i]
        /\ \A i \in 1 .. k : bytes[off + i] = data[p][i]
  <2>1. old \in Seq(Cells) /\ off \in Nat /\ data[p] \in Seq(Bytes)
        /\ k \in 0 .. Len(data[p]) /\ Len(old) = off + Len(data[p])
    BY <1>2, <1>3, <1>5
  <2> HIDE DEF off
  <2>2. /\ CopyIn(old, off, data[p], k) \in Seq(Cells)
        /\ Len(CopyIn(old, off, data[p], k)) = Len(old)
        /\ \A i \in 1 .. off : CopyIn(old, off, data[p], k)[i] = old[i]
        /\ \A i \in 1 .. k : CopyIn(old, off, data[p], k)[off + i] = data[p][i]
    BY <2>1, CopyInEffect
  <2> QED BY <2>2, <1>3
<1>7. staging.size # 0 => \A i \in 1 .. off : bytes[i] = heap[staging.buffptr][i]
  BY <1>6 DEF old
<1>8. /\ H(bytes) \in [Blocks -> Seq(Cells) \cup {FREE}]
      /\ \A b \in Blocks : H(bytes)[b] = IF b = staging.buffptr THEN bytes ELSE heap[b]
  BY <1>2
<1> HIDE DEF H
<1>9. CASE ~EndOfLine(bytes, off, Len(data[p]))
  <2>1. heap' = H(bytes) /\ UNCHANGED <<circular_buffer, staging>>
    BY <1>4, <1>6, <1>9
  <2> QED BY <1>4, <1>5, <1>6, <1>7, <1>8, <1>9, <2>1
<1>10. CASE EndOfLine(bytes, off, Len(data[p]))
  <2>1. /\ circular_buffer' = added.buffer
        /\ heap' = kfree(H(bytes), {added.replaced})
        /\ staging' = NoEntry
    BY <1>4, <1>6, <1>10 DEF Replaced, NextStaging
  <2>2. staging.size # 0
    BY <1>2, <1>10 DEF EndOfLine
  <2>3. heap' \in [Blocks -> Seq(Cells) \cup {FREE}]
    BY <1>8, <2>1 DEF kfree
  <2>4. \A b \in Blocks : heap'[b] = IF b = added.replaced THEN FREE ELSE H(bytes)[b]
    BY <2>1 DEF kfree
  <2>5. \A b \in Blocks : heap'[b] = IF b = added.replaced THEN FREE
                                     ELSE IF b = staging.buffptr THEN bytes ELSE heap[b]
    BY <1>8, <2>4
  <2> QED BY <1>2, <1>4, <1>5, <1>6, <1>7, <1>10, <2>1, <2>2, <2>3, <2>5
<1> QED BY <1>9, <1>10

(* A writer copies and returns: a complete line moves to a slot, whose old *)
(* block nobody has any more.                                              *)
LEMMA WriteCopyKeeps ==
  ASSUME DeviceInv, NEW p \in Procs, aesd_write_copy(p)
  PROVE  DeviceInv'
<1>1. /\ Return(p) /\ pc[p] = "write_copy" /\ device_mutex' = NULL
      /\ UNCHANGED <<loaded, userbuf>>
  BY DEF aesd_write_copy, Unlock
<1>2. loaded /\ loaded'
  BY <1>1 DEF DeviceInv, UnloadedInv
<1>3. /\ pc' \in [Procs -> Pcs] /\ count' \in [Procs -> Nat]
      /\ buffer_entry' \in [Procs -> Entry]
      /\ data' \in [Procs -> Payloads \cup {<<>>}]
      /\ staging_offset' \in [Procs -> Nat]
      /\ pc'[p] = "idle"
      /\ \A q \in Procs : q # p => pc'[q] = pc[q]
  BY <1>1, ReturnEffect DEF DeviceInv
<1>4. \A q \in Procs : pc'[q] \notin {"read_copy", "write_copy"}
  BY <1>1, <1>3, HolderAlone DEF DeviceInv
<1>5. PICK k \in 0 .. Len(data[p]), bytes \in Seq(Cells) :
        /\ f_pos' = [f_pos EXCEPT ![p] = @ + k]
        /\ Len(bytes) = staging.size
        /\ heap' \in [Blocks -> Seq(Cells) \cup {FREE}]
        /\ \/ /\ UNCHANGED <<circular_buffer, staging>>
              /\ \A b \in Blocks :
                   heap'[b] = IF b = staging.buffptr THEN bytes ELSE heap[b]
           \/ /\ staging.size # 0 /\ staging.buffptr \in Blocks
              /\ circular_buffer' = add_entry(circular_buffer, staging).buffer
              /\ staging' = NoEntry
              /\ \A b \in Blocks :
                   heap'[b] = IF b = add_entry(circular_buffer, staging).replaced
                                THEN FREE
                              ELSE IF b = staging.buffptr THEN bytes ELSE heap[b]
  BY WriteCopyEffect
<1>6. f_pos' \in [Procs -> Nat]
  <2>1. f_pos \in [Procs -> Nat] /\ Len(data[p]) \in Nat
    BY DeviceTypes DEF DeviceInv, TypeOK
  <2>2. f_pos[p] + k \in Nat
    BY <2>1
  <2> QED BY <1>5, <2>1, <2>2
<1>7. /\ MutexInv' /\ UnloadedInv' /\ WriterInv' /\ ReaderInv'
  <2>1. MutexInv'
    BY <1>1, <1>4, DeviceAssumption DEF MutexInv
  <2>2. UnloadedInv' /\ WriterInv' /\ ReaderInv'
    BY <1>2, <1>4 DEF UnloadedInv, WriterInv, ReaderInv
  <2> QED BY <2>1, <2>2
<1>8. /\ FREE \notin Seq(Cells) /\ NULL \notin Blocks /\ ZERO_SIZE_PTR \notin Blocks
      /\ heap \in [Blocks -> Seq(Cells) \cup {FREE}]
      /\ staging \in Entry
  BY DeviceTypes DEF DeviceInv, TypeOK
<1>9. \A i \in Slots : Used(i) =>
        /\ circular_buffer.entry[i].size # 0
        /\ circular_buffer.entry[i].buffptr \in Blocks
        /\ heap[circular_buffer.entry[i].buffptr] # FREE
        /\ Len(heap[circular_buffer.entry[i].buffptr]) = circular_buffer.entry[i].size
        /\ circular_buffer.entry[i].buffptr # staging.buffptr
  BY <1>2 DEF DeviceInv, SlotsInv, Stored
<1>10. CASE /\ UNCHANGED <<circular_buffer, staging>>
            /\ \A b \in Blocks :
                 heap'[b] = IF b = staging.buffptr THEN bytes ELSE heap[b]
  <2>1. TypeOK'
    BY <1>1, <1>3, <1>5, <1>6, <1>10 DEF DeviceInv, TypeOK, Cells
  <2>2. SlotsInv'
    <3>1. \A i \in Slots : Used(i)' <=> Used(i)
      BY <1>10 DEF Used
    <3>2. ASSUME NEW i \in Slots, Used(i) PROVE Stored(circular_buffer.entry[i])'
      <4>1. heap'[circular_buffer.entry[i].buffptr]
              = heap[circular_buffer.entry[i].buffptr]
        BY <3>2, <1>9, <1>10
      <4> QED BY <4>1, <3>2, <1>9, <1>10 DEF Stored
    <3> QED BY <1>2, <1>10, <3>1, <3>2 DEF DeviceInv, SlotsInv
  <2>3. StagingInv'
    <3>1. staging.buffptr \in Blocks => Stored(staging)'
      BY <1>5, <1>8, <1>10 DEF Stored
    <3> QED BY <1>2, <1>10, <3>1 DEF DeviceInv, StagingInv
  <2> QED BY <1>7, <2>1, <2>2, <2>3 DEF DeviceInv
<1>11. CASE /\ staging.size # 0 /\ staging.buffptr \in Blocks
            /\ circular_buffer' = add_entry(circular_buffer, staging).buffer
            /\ staging' = NoEntry
            /\ \A b \in Blocks :
                 heap'[b] = IF b = add_entry(circular_buffer, staging).replaced
                              THEN FREE
                            ELSE IF b = staging.buffptr THEN bytes ELSE heap[b]
  <2> DEFINE i0 == circular_buffer.in_offs
  <2>1. RingShape(circular_buffer, Entry)
    BY <1>2 DEF DeviceInv, TypeOK, SlotsInv, RingShape
  <2>2. RingShape(circular_buffer', Entry)
    BY <1>8, <1>11, <2>1, AddEntryShape
  <2>3. \A i \in Slots :
          /\ circular_buffer'.entry[i] = IF i = i0 THEN staging
                                                   ELSE circular_buffer.entry[i]
          /\ Used(i)' <=> Used(i) \/ i = i0
    BY <1>8, <1>11, <2>1, AddEntrySlots DEF Used
  <2>4. /\ i0 \in Slots
        /\ add_entry(circular_buffer, staging).replaced =
             IF circular_buffer.full THEN circular_buffer.entry[i0].buffptr ELSE NULL
    BY <1>11, AddEntryFields, DeviceTypes, ZenonT(60) DEF DeviceInv
  <2>5. staging'.buffptr = NULL /\ staging'.size = 0 /\ staging' \in Entry
    BY <1>11 DEF NoEntry, Entry, Pointers
  <2>6. TypeOK'
    BY <1>1, <1>3, <1>5, <1>6, <2>2, <2>5 DEF DeviceInv, TypeOK, Cells, RingShape
  <2>7. heap'[staging.buffptr] = bytes
    <3>1. staging.buffptr # add_entry(circular_buffer, staging).replaced
      BY <2>4, <1>8, <1>9, <1>11 DEF Used
    <3> QED BY <3>1, <1>11
  <2>8. ASSUME NEW i \in Slots, Used(i), i # i0
        PROVE  heap'[circular_buffer.entry[i].buffptr]
                 = heap[circular_buffer.entry[i].buffptr]
    <3>1. circular_buffer.entry[i].buffptr # add_entry(circular_buffer, staging).replaced
      <4>1. circular_buffer.full => Used(i0)
        BY DEF Used
      <4>2. circular_buffer.full =>
              circular_buffer.entry[i].buffptr # circular_buffer.entry[i0].buffptr
        BY <4>1, <2>4, <2>8, <1>2 DEF DeviceInv, SlotsInv
      <4>3. circular_buffer.entry[i].buffptr # NULL
        BY <2>8, <1>8, <1>9
      <4> QED BY <4>2, <4>3, <2>4
    <3> QED BY <3>1, <2>8, <1>9, <1>11
  <2>9. SlotsInv'
    <3>1. ASSUME NEW i \in Slots, Used(i)'
          PROVE  /\ circular_buffer'.entry[i].size # 0
                 /\ Stored(circular_buffer.entry[i])'
                 /\ circular_buffer'.entry[i].buffptr # staging'.buffptr
      <4>1. CASE i = i0
        BY <4>1, <2>3, <2>5, <2>7, <1>5, <1>8, <1>11 DEF Stored
      <4>2. CASE i # i0
        <5>1. Used(i) /\ circular_buffer'.entry[i] = circular_buffer.entry[i]
          BY <3>1, <4>2, <2>3
        <5> QED BY <5>1, <4>2, <2>5, <2>8, <1>8, <1>9 DEF Stored
      <4> QED BY <4>1, <4>2
    <3>2. ASSUME NEW i \in Slots, ~Used(i)' PROVE circular_buffer'.entry[i] = NoEntry
      BY <3>2, <2>3, <1>2 DEF DeviceInv, SlotsInv
    <3>3. ASSUME NEW i \in Slots, NEW j \in Slots, Used(i)', Used(j)',
                 circular_buffer'.entry[i].buffptr = circular_buffer'.entry[j].buffptr
          PROVE  i = j
      <4>1. CASE i # i0 /\ j # i0
        <5>1. /\ Used(i) /\ circular_buffer'.entry[i] = circular_buffer.entry[i]
              /\ Used(j) /\ circular_buffer'.entry[j] = circular_buffer.entry[j]
          BY <3>3, <4>1, <2>3
        <5> QED BY <5>1, <3>3, <1>2 DEF DeviceInv, SlotsInv
      <4>2. CASE i = i0 /\ j # i0
        BY <4>2, <3>3, <2>3, <1>9
      <4>3. CASE i # i0 /\ j = i0
        BY <4>3, <3>3, <2>3, <1>9
      <4> QED BY <4>1, <4>2, <4>3
    <3>4. /\ circular_buffer'.full => circular_buffer'.in_offs = circular_buffer'.out_offs
          /\ ~circular_buffer'.full => circular_buffer'.out_offs = 0
      BY <2>2 DEF RingShape
    <3> QED BY <3>1, <3>2, <3>3, <3>4 DEF SlotsInv
  <2>10. StagingInv'
    BY <2>5, <1>8 DEF StagingInv
  <2> QED BY <1>7, <2>6, <2>9, <2>10 DEF DeviceInv
<1> QED BY <1>5, <1>10, <1>11

(* DeviceInv holds in every state the driver can reach, whatever fails. *)
LEMMA DeviceInductive == Spec => []DeviceInv
<1>1. DeviceInv /\ [Next]_vars => DeviceInv'
  <2> SUFFICES ASSUME DeviceInv, [Next]_vars PROVE DeviceInv'
    OBVIOUS
  <2>1. CASE UNCHANGED vars
    <3>1. UNCHANGED <<device, caller, stack>>
      BY <2>1 DEF vars, caller
    <3>2. TypeOK'
      BY <3>1 DEF DeviceInv, TypeOK, device, caller, stack
    <3>3. MutexInv' /\ UnloadedInv' /\ WriterInv'
      BY <3>1 DEF DeviceInv, MutexInv, UnloadedInv, WriterInv, device, caller, stack
    <3>4. SlotsInv' /\ StagingInv'
      BY <3>1, DeviceUntouched DEF DeviceInv, device
    <3>5. ReaderInv'
      BY <3>1 DEF DeviceInv, ReaderInv, Used, device, caller, stack
    <3> QED BY <3>2, <3>3, <3>4, <3>5 DEF DeviceInv
  <2>2. CASE aesd_init_module \/ aesd_cleanup_module
    BY <2>2, ModuleKeeps
  <2>3. ASSUME NEW p \in Procs,
               aesd_open(p) \/ aesd_release(p) \/ read(p) \/ write(p)
        PROVE  DeviceInv'
    BY <2>3, CallerKeeps
  <2>4. ASSUME NEW p \in Procs,
               aesd_read_find(p) \/ aesd_read_eof(p) \/ aesd_read_copy(p)
        PROVE  DeviceInv'
    BY <2>4, ReadFindKeeps, ReadReturnKeeps
  <2>5. ASSUME NEW p \in Procs,
               aesd_write_alloc(p) \/ aesd_write_enomem(p) \/ aesd_write_copy(p)
        PROVE  DeviceInv'
    BY <2>5, WriteAllocKeeps, WriteEnomemKeeps, WriteCopyKeeps
  <2> QED BY <2>1, <2>2, <2>3, <2>4, <2>5 DEF Next
<1> QED BY <1>1, DeviceInit, PTL DEF Spec

-----------------------------------------------------------------------------
(* Every variable of the driver keeps its type: above all the indices stay *)
(* in the array, and a read hands out cells of an allocated block.         *)
THEOREM TypeCorrect == Spec => []TypeOK
<1>1. DeviceInv => TypeOK
  BY DEF DeviceInv
<1> QED BY <1>1, DeviceInductive, PTL

(* aesd_read and aesd_write exclude each other from the moment the mutex   *)
(* is taken, a sleep in the copy included, and every path gives it back.   *)
THEOREM MutualExclusion == Spec => []MutexInv
<1>1. DeviceInv => MutexInv
  BY DEF DeviceInv
<1> QED BY <1>1, DeviceInductive, PTL

(* The slots in use are the lines, so what holds of the slots is what a    *)
(* reader of the lines relies on.                                          *)
LEMMA MemorySafeHolds ==
  ASSUME DeviceInv PROVE MemorySafe
<1> SUFFICES ASSUME loaded PROVE MemorySafe
  BY DEF MemorySafe
<1> DEFINE b == circular_buffer
           n == Count(circular_buffer)
<1>1. RingShape(b, Entry)
  BY DEF DeviceInv, TypeOK, SlotsInv, RingShape
<1>2. /\ \A i \in 1 .. n :
           /\ SlotOf(b, i) \in Slots /\ Used(SlotOf(b, i))
           /\ Contents(b)[i] = b.entry[SlotOf(b, i)]
      /\ \A i, j \in 1 .. n : SlotOf(b, i) = SlotOf(b, j) => i = j
  BY <1>1, ContentsSlots DEF Used
<1>3. ASSUME NEW i \in 1 .. n
      PROVE  Stored(Contents(b)[i]) /\ Contents(b)[i].buffptr # staging.buffptr
  BY <1>2 DEF DeviceInv, SlotsInv
<1>4. ASSUME NEW i \in 1 .. n, NEW j \in 1 .. n,
             Contents(b)[i].buffptr = Contents(b)[j].buffptr
      PROVE  i = j
  <2>1. SlotOf(b, i) = SlotOf(b, j)
    BY <1>2, <1>4 DEF DeviceInv, SlotsInv
  <2> QED BY <1>2, <2>1
<1>5. staging.buffptr \in Blocks => Stored(staging)
  BY DEF DeviceInv, StagingInv
<1>6. ASSUME NEW p \in Procs, pc[p] = "read_copy"
      PROVE  \E i \in 1 .. n : buffer_entry[p] = Contents(b)[i]
  <2>1. PICK k \in Slots : Used(k) /\ buffer_entry[p] = b.entry[k]
    BY <1>6 DEF DeviceInv, ReaderInv
  <2>2. \E i \in 1 .. n : SlotOf(b, i) = k
    <3>1. /\ b.out_offs \in 0 .. MaxOps - 1 /\ b.in_offs \in 0 .. MaxOps - 1
          /\ (~b.full => b.out_offs = 0)
          /\ MaxOps \in Nat \ {0} /\ k \in 0 .. MaxOps - 1
      BY <1>1, RingFields, MaxOpsAssumption DEF Slots
    <3>2. CASE ~b.full
      <4>1. k + 1 \in 1 .. n
        BY <2>1, <3>1, <3>2 DEF Used, Count
      <4>2. SlotOf(b, k + 1) = k
        BY <3>1, <3>2 DEF SlotOf, Wrap
      <4> QED BY <4>1, <4>2
    <3>3. CASE b.full
      <4>1. n = MaxOps
        BY <3>3 DEF Count
      <4>2. CASE k >= b.out_offs
        <5>1. (k - b.out_offs) + 1 \in 1 .. n /\ SlotOf(b, (k - b.out_offs) + 1) = k
          BY <3>1, <4>1, <4>2 DEF SlotOf, Wrap
        <5> QED BY <5>1
      <4>3. CASE k < b.out_offs
        <5>1. /\ (k + MaxOps - b.out_offs) + 1 \in 1 .. n
              /\ SlotOf(b, (k + MaxOps - b.out_offs) + 1) = k
          BY <3>1, <4>1, <4>3 DEF SlotOf, Wrap
        <5> QED BY <5>1
      <4> QED BY <3>1, <4>2, <4>3
    <3> QED BY <3>2, <3>3
  <2> QED BY <1>2, <2>1, <2>2
<1> QED BY <1>3, <1>4, <1>5, <1>6 DEF MemorySafe

(* Whatever allocations and copies fail, every line and the staging entry  *)
(* own a live block of the recorded size each, and the line a sleeping     *)
(* reader copies from is still in the buffer: no use after free, no double *)
(* free, no read behind the end of a block.                                *)
THEOREM MemoryIsSafe == Spec => []MemorySafe
<1>1. DeviceInv => MemorySafe
  BY MemorySafeHolds
<1> QED BY <1>1, DeviceInductive, PTL


-----------------------------------------------------------------------------
(* Memory is neither lost nor kept, as long as krealloc does not fail. *)

(* The allocated blocks are the ones of the lines and of the staging       *)
(* entry, and none when the module is not inserted.                        *)
HeapOwned ==
  \A b \in Blocks : heap[b] # FREE =>
    /\ loaded
    /\ \/ b = staging.buffptr
       \/ \E i \in Slots : Used(i) /\ circular_buffer.entry[i].buffptr = b

(* Gathered bytes have a block. *)
StagingKept == loaded /\ staging.size # 0 => staging.buffptr \in Blocks

(* The allocation at the start of a write, as a step: AllocEffect with the *)
(* new state in place of the pointer and the heap it is made of.           *)
LEMMA WriteAllocEffect ==
  ASSUME DeviceInv, NEW p \in Procs, aesd_write_alloc(p)
  PROVE  /\ loaded /\ UNCHANGED <<loaded, circular_buffer>>
         /\ staging'.size = staging.size + Len(data[p])
         /\ \/ /\ staging'.size = 0
               /\ staging'.buffptr = ZERO_SIZE_PTR /\ heap' = heap
            \/ /\ staging'.size # 0
               /\ staging'.buffptr \in Blocks
               /\ heap[staging'.buffptr] = FREE \/ staging'.buffptr = staging.buffptr
               /\ heap'[staging'.buffptr] \in Seq(Cells)
               /\ Len(heap'[staging'.buffptr]) = staging'.size
               /\ \A b \in Blocks : b # staging'.buffptr =>
                    heap'[b] = IF b = staging.buffptr THEN FREE ELSE heap[b]
               /\ staging.buffptr \in Blocks =>
                    \A i \in 1 .. staging.size :
                      heap'[staging'.buffptr][i] = heap[staging.buffptr][i]
<1>1. pc[p] = "write_lock" /\ UNCHANGED <<loaded, circular_buffer>>
  BY DEF aesd_write_alloc
<1>2. loaded /\ TypeOK /\ StagingInv
  BY <1>1 DEF DeviceInv, UnloadedInv
<1>3. PICK n \in Nat : n = Len(data[p])
  BY DeviceTypes DEF DeviceInv
<1>4. PICK new \in StagingAlloc(n) :
        /\ new[1] # NULL
        /\ staging' = [buffptr |-> new[1], size |-> staging.size + n]
        /\ heap' = new[2]
  BY <1>3 DEF aesd_write_alloc
<1>5. staging'.buffptr = new[1] /\ staging'.size = staging.size + n
  BY <1>4
<1>6. CASE /\ staging.size + n = 0
           /\ new[1] = ZERO_SIZE_PTR /\ new[2] = heap
  BY <1>1, <1>2, <1>3, <1>4, <1>5, <1>6
<1>7. CASE /\ staging.size + n # 0
           /\ new[1] \in Blocks
           /\ heap[new[1]] = FREE \/ new[1] = staging.buffptr
           /\ new[2] \in [Blocks -> Seq(Cells) \cup {FREE}]
           /\ new[2][new[1]] \in Seq(Cells)
           /\ Len(new[2][new[1]]) = staging.size + n
           /\ \A b \in Blocks : b # new[1] =>
                new[2][b] = IF b = staging.buffptr THEN FREE ELSE heap[b]
           /\ staging.buffptr \in Blocks =>
                \A i \in 1 .. staging.size :
                  new[2][new[1]][i] = heap[staging.buffptr][i]
  BY <1>1, <1>2, <1>3, <1>4, <1>5, <1>7
<1> QED BY <1>2, <1>4, <1>6, <1>7, AllocEffect

(* Without a failing krealloc only the first allocation of a line fails:   *)
(* nothing has been gathered.                                              *)
LEMMA EnomemIsFirst ==
  ASSUME DeviceInv, "krealloc" \notin Faults, NEW p \in Procs, aesd_write_enomem(p)
  PROVE  loaded /\ staging.size = 0 /\ staging.buffptr \notin Blocks
<1>1. loaded
  BY DEF aesd_write_enomem, DeviceInv, UnloadedInv
<1>2. PICK new \in StagingAlloc(Len(data[p])) : new[1] = NULL
  BY DEF aesd_write_enomem
<1>3. NULL \notin Blocks
  BY DeviceAssumption
<1>4. ASSUME staging.size # 0 PROVE FALSE
  <2>1. PICK n : n = staging.size + Len(data[p])
    OBVIOUS
  <2>2. PICK h, g : /\ h = heap
                    /\ g = heap[staging.buffptr]
                             \o Uninitialised(n - Len(heap[staging.buffptr]))
    OBVIOUS
  <2>3. new \in krealloc(heap, staging.buffptr, n)
    BY <1>2, <1>4, <2>1 DEF StagingAlloc
  <2>4. CASE staging.buffptr = NULL
    <3>1. \E b \in FreeBlocks(heap) :
            new = <<b, [heap EXCEPT ![b] = Uninitialised(n)]>>
      BY <2>3, <2>4 DEF krealloc
    <3> QED BY <3>1, <1>2, <1>3 DEF FreeBlocks
  <2>5. CASE staging.buffptr # NULL
    <3>1. new \in {<<b, [heap EXCEPT ![staging.buffptr] = FREE, ![b] = g]>> :
                     b \in FreeBlocks(heap) \cup {staging.buffptr}}
                  \cup {<<NULL, heap>> : f \in Faults \cap {"krealloc"}}
      BY <2>2, <2>3, <2>5, Zenon DEF krealloc
    <3>2. PICK b \in FreeBlocks(heap) \cup {staging.buffptr} :
            new = <<b, [heap EXCEPT ![staging.buffptr] = FREE, ![b] = g]>>
      BY <3>1
    <3>3. new[1] = b
      BY <3>2
    <3> QED BY <3>2, <3>3, <1>2, <1>3, <2>5 DEF FreeBlocks
  <2> QED BY <2>4, <2>5
<1> QED BY <1>1, <1>4 DEF DeviceInv, StagingInv

(* Every step keeps HeapOwned and StagingKept. *)
LEMMA OwnedKeeps ==
  ASSUME DeviceInv, HeapOwned, StagingKept, "krealloc" \notin Faults, [Next]_vars
  PROVE  HeapOwned' /\ StagingKept'
<1>1. /\ heap \in [Blocks -> Seq(Cells) \cup {FREE}]
      /\ NULL \notin Blocks /\ ZERO_SIZE_PTR \notin Blocks
      /\ staging.size \in Nat
  BY DeviceTypes DEF DeviceInv
<1>2. CASE UNCHANGED <<loaded, circular_buffer, staging, heap>>
  BY <1>2 DEF HeapOwned, StagingKept, Used
<1>3. CASE aesd_init_module
  <2>1. /\ ~loaded /\ UNCHANGED heap
        /\ UNCHANGED staging \/ staging' = NoEntry
        /\ loaded' => staging' = NoEntry
    BY <1>3 DEF aesd_init_module
  <2>2. \A b \in Blocks : heap'[b] = FREE
    BY <2>1 DEF HeapOwned
  <2> QED BY <2>1, <2>2 DEF HeapOwned, StagingKept, NoEntry
<1>4. CASE aesd_cleanup_module
  <2>1. /\ loaded /\ ~loaded' /\ UNCHANGED <<circular_buffer, staging>>
        /\ \A b \in Blocks : heap'[b] = IF b \in Owned THEN FREE ELSE heap[b]
    BY <1>4 DEF aesd_cleanup_module, kfree
  <2>2. \A b \in Blocks : heap[b] # FREE => b \in Owned
    BY DEF HeapOwned, Owned
  <2> QED BY <2>1, <2>2 DEF HeapOwned, StagingKept
<1>5. ASSUME NEW p \in Procs, aesd_write_alloc(p) PROVE HeapOwned' /\ StagingKept'
  <2>1. /\ loaded /\ loaded' /\ circular_buffer' = circular_buffer
        /\ \/ /\ staging'.size = 0
              /\ staging'.buffptr = ZERO_SIZE_PTR /\ heap' = heap
           \/ /\ staging'.size # 0
              /\ staging'.buffptr \in Blocks
              /\ \A b \in Blocks : b # staging'.buffptr =>
                   heap'[b] = IF b = staging.buffptr THEN FREE ELSE heap[b]
    BY <1>5, WriteAllocEffect
  <2>2. StagingKept'
    BY <2>1 DEF StagingKept
  <2>3. \A i \in Slots : Used(i)' <=> Used(i)
    BY <2>1 DEF Used
  <2>4. staging'.size = 0 => staging.buffptr \notin Blocks
    <3>1. staging'.size = staging.size + Len(data[p]) /\ Len(data[p]) \in Nat
      BY <1>5, WriteAllocEffect, DeviceTypes DEF DeviceInv
    <3>2. staging'.size = 0 => staging.size = 0
      BY <3>1, <1>1
    <3> QED BY <3>2, <2>1 DEF DeviceInv, StagingInv
  <2>5. ASSUME NEW b \in Blocks, heap'[b] # FREE, b # staging'.buffptr
        PROVE  \E i \in Slots : Used(i) /\ circular_buffer.entry[i].buffptr = b
    <3>1. heap[b] # FREE /\ b # staging.buffptr
      BY <2>1, <2>4, <2>5
    <3> QED BY <3>1 DEF HeapOwned
  <2> QED BY <2>1, <2>2, <2>3, <2>5 DEF HeapOwned
<1>6. ASSUME NEW p \in Procs, aesd_write_enomem(p) PROVE HeapOwned' /\ StagingKept'
  <2>1. /\ UNCHANGED <<loaded, circular_buffer, heap>>
        /\ staging' = [staging EXCEPT !.buffptr = NULL]
    BY <1>6 DEF aesd_write_enomem
  <2>2. loaded /\ staging.size = 0 /\ staging.buffptr \notin Blocks
    BY <1>6, EnomemIsFirst
  <2>3. staging'.size = 0
    BY <2>1, <2>2 DEF DeviceInv, TypeOK, Entry
  <2> QED BY <2>1, <2>2, <2>3 DEF HeapOwned, StagingKept, Used
<1>7. ASSUME NEW p \in Procs, aesd_write_copy(p) PROVE HeapOwned' /\ StagingKept'
  <2>1. loaded /\ loaded'
    BY <1>7 DEF aesd_write_copy, DeviceInv, UnloadedInv
  <2>2. PICK bytes \in Seq(Cells) :
        \/ /\ UNCHANGED <<circular_buffer, staging>>
           /\ \A b \in Blocks :
                heap'[b] = IF b = staging.buffptr THEN bytes ELSE heap[b]
        \/ /\ staging.size # 0 /\ staging.buffptr \in Blocks
           /\ circular_buffer' = add_entry(circular_buffer, staging).buffer
           /\ staging' = NoEntry
           /\ \A b \in Blocks :
                heap'[b] = IF b = add_entry(circular_buffer, staging).replaced
                             THEN FREE
                           ELSE IF b = staging.buffptr THEN bytes ELSE heap[b]
    BY <1>7, WriteCopyEffect
  <2>3. CASE /\ UNCHANGED <<circular_buffer, staging>>
             /\ \A b \in Blocks :
                  heap'[b] = IF b = staging.buffptr THEN bytes ELSE heap[b]
    BY <2>1, <2>3 DEF HeapOwned, StagingKept, Used
  <2>4. CASE /\ staging.size # 0 /\ staging.buffptr \in Blocks
             /\ circular_buffer' = add_entry(circular_buffer, staging).buffer
             /\ staging' = NoEntry
             /\ \A b \in Blocks :
                  heap'[b] = IF b = add_entry(circular_buffer, staging).replaced
                               THEN FREE
                             ELSE IF b = staging.buffptr THEN bytes ELSE heap[b]
    <3> DEFINE i0 == circular_buffer.in_offs
    <3>1. RingShape(circular_buffer, Entry) /\ staging \in Entry
      BY <2>1 DEF DeviceInv, TypeOK, SlotsInv, RingShape
    <3>2. \A i \in Slots :
            /\ circular_buffer'.entry[i] = IF i = i0 THEN staging
                                                     ELSE circular_buffer.entry[i]
            /\ Used(i)' <=> Used(i) \/ i = i0
      BY <2>4, <3>1, AddEntrySlots DEF Used
    <3>3. /\ i0 \in Slots
          /\ add_entry(circular_buffer, staging).replaced =
               IF circular_buffer.full THEN circular_buffer.entry[i0].buffptr ELSE NULL
      <4>1. i0 \in Slots
        BY <3>1 DEF RingShape
      <4>2. add_entry(circular_buffer, staging).replaced =
              IF circular_buffer.full THEN circular_buffer.entry[i0].buffptr ELSE NULL
        BY <2>4 DEF add_entry
      <4> QED BY <4>1, <4>2
    <3>4. ASSUME NEW b \in Blocks, heap'[b] # FREE
          PROVE  \E i \in Slots : Used(i)' /\ circular_buffer'.entry[i].buffptr = b
      <4>1. CASE b = staging.buffptr
        BY <4>1, <3>2, <3>3
      <4>2. CASE b # staging.buffptr
        <5>1. heap[b] # FREE /\ b # add_entry(circular_buffer, staging).replaced
          BY <2>4, <3>4, <4>2
        <5>2. PICK i \in Slots : Used(i) /\ circular_buffer.entry[i].buffptr = b
          BY <4>2, <5>1 DEF HeapOwned
        <5>3. i # i0
          <6>1. SUFFICES ASSUME i = i0 PROVE FALSE
            OBVIOUS
          <6>2. ~circular_buffer.full
            BY <3>3, <5>1, <5>2, <6>1
          <6>3. i0 < i0
            BY <5>2, <6>1, <6>2 DEF Used
          <6> QED BY <6>3, <3>3 DEF Slots
        <5> QED BY <5>2, <5>3, <3>2
      <4> QED BY <4>1, <4>2
    <3>5. staging'.size = 0
      BY <2>4 DEF NoEntry
    <3> QED BY <2>1, <3>4, <3>5 DEF HeapOwned, StagingKept
  <2> QED BY <2>2, <2>3, <2>4
<1>8. ASSUME NEW p \in Procs,
             \/ aesd_open(p) \/ aesd_release(p) \/ read(p) \/ write(p)
             \/ aesd_read_find(p) \/ aesd_read_eof(p) \/ aesd_read_copy(p)
      PROVE  UNCHANGED <<loaded, circular_buffer, staging, heap>>
  BY <1>8 DEF aesd_open, aesd_release, read, write, aesd_read_find, aesd_read_eof,
              aesd_read_copy, device
<1>9. CASE UNCHANGED vars
  <2>1. UNCHANGED <<loaded, circular_buffer, staging, heap>>
    BY <1>9 DEF vars, device
  <2> QED BY <2>1, <1>2
<1> QED BY <1>2, <1>3, <1>4, <1>5, <1>6, <1>7, <1>8, <1>9 DEF Next

(* HeapOwned and StagingKept hold in every state. *)
LEMMA OwnedInductive ==
  ASSUME "krealloc" \notin Faults
  PROVE  Spec => [](DeviceInv /\ HeapOwned /\ StagingKept)
<1>1. Init => HeapOwned /\ StagingKept
  BY DEF Init, HeapOwned, StagingKept
<1>2. DeviceInv /\ HeapOwned /\ StagingKept /\ [Next]_vars
        => HeapOwned' /\ StagingKept'
  BY OwnedKeeps
<1> QED BY <1>1, <1>2, DeviceInductive, PTL DEF Spec

(* Unless krealloc fails, the kernel memory in use is the staging entry's  *)
(* and the lines', whatever else fails: the line the buffer drops is freed *)
(* exactly then, and removing the module frees the rest.                   *)
THEOREM NothingLeaks ==
  ASSUME "krealloc" \notin Faults
  PROVE  Spec => []NoLeak
<1>1. DeviceInv /\ HeapOwned /\ StagingKept => NoLeak
  <2> SUFFICES ASSUME DeviceInv, HeapOwned PROVE NoLeak
    OBVIOUS
  <2>1. CASE ~loaded
    BY <2>1 DEF HeapOwned, NoLeak
  <2>2. CASE loaded
    <3>1. ASSUME NEW b \in Blocks, heap[b] # FREE PROVE b \in Owned
      BY <3>1 DEF HeapOwned, Owned
    <3>2. ASSUME NEW b \in Blocks, b \in Owned PROVE heap[b] # FREE
      <4>1. CASE b = staging.buffptr
        BY <4>1, <2>2 DEF DeviceInv, StagingInv, Stored
      <4>2. ASSUME NEW i \in Slots, b = circular_buffer.entry[i].buffptr
            PROVE  heap[b] # FREE
        <5>1. CASE Used(i)
          BY <5>1, <4>2, <2>2 DEF DeviceInv, SlotsInv, Stored
        <5>2. CASE ~Used(i)
          BY <5>2, <4>2, <2>2, DeviceAssumption DEF DeviceInv, SlotsInv, NoEntry
        <5> QED BY <5>1, <5>2
      <4> QED BY <3>2, <4>1, <4>2 DEF Owned
    <3> QED BY <2>2, <3>1, <3>2 DEF NoLeak
  <2> QED BY <2>1, <2>2
<1> QED BY <1>1, OwnedInductive, PTL


-----------------------------------------------------------------------------
(* What the device promises its users: LineStore. *)

(* Gathered is the offset the writer found, while it copies, and otherwise *)
(* the size of the staging entry.                                          *)
GatheredMeans ==
  /\ \A p \in Procs : pc[p] = "write_copy" => Gathered = staging_offset[p]
  /\ (\A p \in Procs : pc[p] # "write_copy") => Gathered = staging.size

(* The mutex tells who is copying, so Gathered is well defined. *)
LEMMA GatheredIs == DeviceInv => GatheredMeans
<1> SUFFICES ASSUME TypeOK, MutexInv PROVE GatheredMeans
  BY DEF DeviceInv
<1>1. NULL \notin Procs /\ device_mutex \in Procs \cup {NULL}
  BY DeviceAssumption DEF TypeOK
<1>2. ASSUME NEW p \in Procs, pc[p] = "write_copy" PROVE Gathered = staging_offset[p]
  <2>1. device_mutex = p
    BY <1>2 DEF MutexInv
  <2> QED BY <1>1, <1>2, <2>1 DEF Gathered
<1>3. ASSUME \A p \in Procs : pc[p] # "write_copy" PROVE Gathered = staging.size
  BY <1>1, <1>3 DEF Gathered
<1> QED BY <1>2, <1>3 DEF GatheredMeans

(* The same of the next state. *)
LEMMA GatheredNext == DeviceInv' => GatheredMeans'
  BY GatheredIs, PTL

(* A prefix, position by position. *)
LEMMA PrefixOf ==
  ASSUME NEW S, NEW s \in Seq(S), NEW n \in 0 .. Len(s)
  PROVE  /\ SubSeq(s, 1, n) \in Seq(S) /\ Len(SubSeq(s, 1, n)) = n
         /\ \A i \in 1 .. n : SubSeq(s, 1, n)[i] = s[i]
<1>1. \A i \in 1 .. n : s[i] \in S
  OBVIOUS
<1>2. /\ SubSeq(s, 1, n) \in Seq(S)
      /\ Len(SubSeq(s, 1, n)) = IF 1 <= n THEN (n - 1) + 1 ELSE 0
      /\ \A i \in 1 .. (n - 1) + 1 : SubSeq(s, 1, n)[i] = s[(1 + i) - 1]
  BY <1>1, SubSeqProperties
<1> QED BY <1>2

(* The calls of readers and everything a caller does outside the handlers  *)
(* leave the device and what is gathered alone.                            *)
LEMMA QuietSteps ==
  ASSUME DeviceInv, DeviceInv', NEW p \in Procs,
         \/ aesd_open(p) \/ aesd_release(p) \/ read(p) \/ write(p)
         \/ aesd_read_find(p) \/ aesd_read_eof(p) \/ aesd_read_copy(p)
  PROVE  UNCHANGED <<loaded, circular_buffer, staging, heap, Gathered>>
<1>1. UNCHANGED <<loaded, circular_buffer, staging, heap>>
  BY DEF aesd_open, aesd_release, read, write, aesd_read_find, aesd_read_eof,
         aesd_read_copy, device
<1>2. GatheredMeans /\ GatheredMeans' /\ pc \in [Procs -> Pcs]
      /\ staging_offset \in [Procs -> Nat]
  BY GatheredIs, GatheredNext DEF DeviceInv, TypeOK
<1>3. /\ pc[p] # "write_copy" /\ pc'[p] # "write_copy"
      /\ \A q \in Procs : q # p => pc'[q] = pc[q] /\ staging_offset'[q] = staging_offset[q]
  BY <1>2 DEF aesd_open, aesd_release, read, write, aesd_read_find, aesd_read_eof,
              aesd_read_copy, Return, stack
<1>4. CASE \E q \in Procs : pc[q] = "write_copy"
  <2>1. PICK q \in Procs : pc[q] = "write_copy"
    BY <1>4
  <2>2. pc'[q] = "write_copy" /\ staging_offset'[q] = staging_offset[q]
    BY <1>3, <2>1
  <2>3. Gathered = staging_offset[q] /\ Gathered' = staging_offset'[q]
    BY <1>2, <2>1, <2>2 DEF GatheredMeans
  <2> QED BY <1>1, <2>2, <2>3
<1>5. CASE \A q \in Procs : pc[q] # "write_copy"
  <2>1. \A q \in Procs : pc'[q] # "write_copy"
    BY <1>3, <1>5
  <2>2. Gathered = staging.size /\ Gathered' = staging'.size
    BY <1>2, <1>5, <2>1 DEF GatheredMeans
  <2> QED BY <1>1, <2>2
<1> QED BY <1>4, <1>5

(* The lines are the same when the slots are and their blocks are. *)
LEMMA LinesUntouched ==
  ASSUME DeviceInv, loaded, UNCHANGED <<loaded, circular_buffer>>,
         \A i \in Slots : Used(i) =>
           heap'[circular_buffer.entry[i].buffptr]
             = heap[circular_buffer.entry[i].buffptr]
  PROVE  Lines' = Lines
<1>1. RingShape(circular_buffer, Entry)
  BY DEF DeviceInv, TypeOK, SlotsInv, RingShape
<1>2. \A i \in 1 .. Count(circular_buffer) :
        heap'[Contents(circular_buffer)[i].buffptr]
          = heap[Contents(circular_buffer)[i].buffptr]
  BY <1>1, ContentsSlots DEF Used
<1>3. /\ Count(circular_buffer)' = Count(circular_buffer)
      /\ Contents(circular_buffer)' = Contents(circular_buffer)
  BY DEF Count, Contents, peek
<1> QED BY <1>2, <1>3 DEF Lines

(* What is gathered is a sequence of cells, the first ones of the block. *)
PartialMeans ==
  /\ Gathered \in 0 .. staging.size
  /\ Partial \in Seq(Cells) /\ Len(Partial) = Gathered
  /\ \A i \in 1 .. Gathered : Partial[i] = heap[staging.buffptr][i]

(* The staging entry has a block for what is gathered. *)
LEMMA PartialIs == DeviceInv /\ StagingKept /\ loaded => PartialMeans
<1> SUFFICES ASSUME DeviceInv, StagingKept, loaded PROVE PartialMeans
  OBVIOUS
<1>1. staging.size \in Nat /\ heap \in [Blocks -> Seq(Cells) \cup {FREE}]
  BY DeviceTypes DEF DeviceInv
<1>2. Gathered \in 0 .. staging.size
  <2>1. CASE \E p \in Procs : pc[p] = "write_copy"
    <3>1. PICK p \in Procs : pc[p] = "write_copy"
      BY <2>1
    <3>2. /\ staging.size = staging_offset[p] + Len(data[p])
          /\ staging_offset[p] \in Nat /\ Len(data[p]) \in Nat
      BY <3>1, DeviceTypes DEF DeviceInv, TypeOK, WriterInv
    <3>3. Gathered = staging_offset[p]
      BY <3>1, GatheredIs DEF GatheredMeans
    <3> QED BY <3>2, <3>3
  <2>2. CASE \A p \in Procs : pc[p] # "write_copy"
    BY <1>1, <2>2, GatheredIs DEF GatheredMeans
  <2> QED BY <2>1, <2>2
<1>3. CASE Gathered = 0
  <2>1. Partial = <<>>
    BY <1>3 DEF Partial
  <2> QED BY <1>2, <1>3, <2>1 DEF PartialMeans
<1>4. CASE Gathered # 0
  <2>1. Stored(staging)
    BY <1>1, <1>2, <1>4 DEF StagingKept, DeviceInv, StagingInv
  <2>2. PICK s \in Seq(Cells) : s = heap[staging.buffptr] /\ Len(s) = staging.size
    BY <1>1, <2>1 DEF Stored
  <2>3. Partial = SubSeq(s, 1, Gathered)
    BY <1>4, <2>2 DEF Partial
  <2>4. PICK n \in 0 .. Len(s) : n = Gathered
    BY <1>2, <2>2
  <2>5. /\ SubSeq(s, 1, n) \in Seq(Cells) /\ Len(SubSeq(s, 1, n)) = n
        /\ \A i \in 1 .. n : SubSeq(s, 1, n)[i] = s[i]
    BY PrefixOf
  <2> QED BY <1>2, <2>2, <2>3, <2>4, <2>5 DEF PartialMeans
<1> QED BY <1>3, <1>4

(* The same of the next state. *)
LEMMA PartialNext == DeviceInv' /\ StagingKept' /\ loaded' => PartialMeans'
  BY PartialIs, PTL

(* What is gathered is the same when as much of it is and its bytes are. *)
LEMMA PartialUntouched ==
  ASSUME DeviceInv, DeviceInv', StagingKept, StagingKept', loaded, loaded',
         Gathered' = Gathered,
         \A i \in 1 .. Gathered :
           heap'[staging'.buffptr][i] = heap[staging.buffptr][i]
  PROVE  Partial' = Partial
<1>1. PartialMeans /\ PartialMeans'
  BY PartialIs, PartialNext
<1>2. PICK s \in Seq(Cells), t \in Seq(Cells) : s = Partial /\ t = Partial'
  BY <1>1 DEF PartialMeans
<1>3. Len(s) = Len(t) /\ \A i \in 1 .. Len(s) : s[i] = t[i]
  BY <1>1, <1>2 DEF PartialMeans
<1> QED BY <1>2, <1>3, SeqEqual


(* The allocation of a write moves what is gathered, and changes nothing a *)
(* user could see.                                                         *)
LEMMA AllocIsQuiet ==
  ASSUME DeviceInv, DeviceInv', StagingKept, StagingKept',
         NEW p \in Procs, aesd_write_alloc(p)
  PROVE  /\ loaded /\ loaded' /\ Gathered' = Gathered
         /\ Lines' = Lines
         /\ \A i \in 1 .. Gathered :
              heap'[staging'.buffptr][i] = heap[staging.buffptr][i]
<1>1. /\ loaded /\ loaded' /\ circular_buffer' = circular_buffer
      /\ \/ staging'.size = 0 /\ heap' = heap
         \/ /\ staging'.size # 0
            /\ staging'.buffptr \in Blocks
            /\ heap[staging'.buffptr] = FREE \/ staging'.buffptr = staging.buffptr
            /\ \A b \in Blocks : b # staging'.buffptr =>
                 heap'[b] = IF b = staging.buffptr THEN FREE ELSE heap[b]
            /\ staging.buffptr \in Blocks =>
                 \A i \in 1 .. staging.size :
                   heap'[staging'.buffptr][i] = heap[staging.buffptr][i]
  BY WriteAllocEffect
<1>2. /\ staging.size \in Nat /\ staging'.size = staging.size + Len(data[p])
      /\ Len(data[p]) \in Nat
      /\ pc \in [Procs -> Pcs] /\ staging_offset \in [Procs -> Nat]
  <2>1. TypeOK
    BY DEF DeviceInv
  <2>2. staging'.size = staging.size + Len(data[p])
    BY WriteAllocEffect
  <2>3. staging.size \in Nat /\ data[p] \in Seq(Bytes)
    BY <2>1, DeviceTypes
  <2>4. pc \in [Procs -> Pcs] /\ staging_offset \in [Procs -> Nat]
    BY <2>1 DEF TypeOK
  <2> QED BY <2>2, <2>3, <2>4
<1>3. Gathered = staging.size /\ Gathered' = staging.size
  <2>1. \A q \in Procs : pc[q] # "write_copy"
    BY HolderAlone DEF DeviceInv, aesd_write_alloc, Lock
  <2>2. pc'[p] = "write_copy" /\ staging_offset'[p] = staging.size
    BY <1>2 DEF aesd_write_alloc
  <2> QED BY <2>1, <2>2, GatheredIs, GatheredNext DEF GatheredMeans
<1>4. \A i \in 1 .. Gathered : heap'[staging'.buffptr][i] = heap[staging.buffptr][i]
  <2>1. CASE staging.size = 0
    BY <1>3, <2>1
  <2>2. CASE staging.size # 0
    <3>1. staging.buffptr \in Blocks /\ staging'.size # 0
      BY <1>1, <1>2, <2>2 DEF StagingKept
    <3> QED BY <1>1, <1>3, <3>1
  <2> QED BY <2>1, <2>2
<1>5. ASSUME NEW i \in Slots, Used(i)
      PROVE  heap'[circular_buffer.entry[i].buffptr]
               = heap[circular_buffer.entry[i].buffptr]
  <2>1. PICK b : b = circular_buffer.entry[i].buffptr
    OBVIOUS
  <2>2. b \in Blocks /\ heap[b] # FREE /\ b # staging.buffptr
    BY <1>1, <1>5, <2>1 DEF DeviceInv, SlotsInv, Stored
  <2> QED BY <1>1, <2>1, <2>2
<1>6. Lines' = Lines
  BY <1>1, <1>5, LinesUntouched
<1> QED BY <1>1, <1>3, <1>4, <1>6

(* While no copy from user space faults, a write puts all of its bytes     *)
(* behind what was gathered before.                                        *)
LEMMA CopyInAppends ==
  ASSUME DeviceInv, StagingKept, "copy_from_user" \notin Faults,
         NEW p \in Procs, aesd_write_copy(p),
         NEW bytes \in Seq(Cells), Len(bytes) = staging.size,
         staging.size # 0 =>
           \A i \in 1 .. staging_offset[p] : bytes[i] = heap[staging.buffptr][i],
         \A i \in 1 .. Len(data[p]) : bytes[staging_offset[p] + i] = data[p][i]
  PROVE  /\ bytes = Partial \o data[p]
         /\ EndOfLine(bytes, staging_offset[p], Len(data[p])) <=> Store!HasEOL(data[p])
<1>1. pc[p] = "write_copy" /\ loaded
  BY DEF aesd_write_copy, DeviceInv, UnloadedInv
<1>2. PICK off \in Nat, d \in Seq(Bytes) :
        /\ off = staging_offset[p] /\ d = data[p]
        /\ Len(d) \in Nat /\ Len(bytes) = off + Len(d)
  BY <1>1, DeviceTypes, SMTT(30) DEF DeviceInv, TypeOK, WriterInv
<1>3. Gathered = off
  BY <1>1, <1>2, GatheredIs DEF GatheredMeans
<1>4. PICK s \in Seq(Cells) :
        /\ s = Partial /\ Len(s) = off
        /\ \A i \in 1 .. off : s[i] = heap[staging.buffptr][i]
  BY <1>1, <1>3, PartialIs DEF PartialMeans
<1>5. d \in Seq(Cells)
  BY DEF Cells
<1>6. /\ s \o d \in Seq(Cells) /\ Len(s \o d) = off + Len(d)
      /\ \A i \in 1 .. off + Len(d) :
           (s \o d)[i] = IF i <= off THEN s[i] ELSE d[i - off]
  <2>1. /\ s \o d \in Seq(Cells) /\ Len(s \o d) = Len(s) + Len(d)
        /\ \A i \in 1 .. Len(s) + Len(d) :
             (s \o d)[i] = IF i <= Len(s) THEN s[i] ELSE d[i - Len(s)]
    BY <1>5, ConcatProperties
  <2> QED BY <2>1, <1>4
<1>7. ASSUME NEW i \in 1 .. off + Len(d) PROVE bytes[i] = (s \o d)[i]
  <2>1. CASE i <= off
    <3>1. staging.size # 0 /\ i \in 1 .. off
      BY <1>2, <1>7, <2>1
    <3> QED BY <1>2, <1>4, <1>6, <2>1, <3>1
  <2>2. CASE i > off
    <3>1. i - off \in 1 .. Len(d) /\ off + (i - off) = i
      BY <1>2, <1>7, <2>2
    <3>2. bytes[off + (i - off)] = d[i - off]
      BY <1>2, <3>1
    <3>3. (s \o d)[i] = d[i - off]
      <4>1. ~(i <= off)
        BY <1>7, <2>2
      <4> QED BY <1>6, <4>1
    <3> QED BY <3>1, <3>2, <3>3
  <2>3. i <= off \/ i > off
    BY <1>2
  <2> QED BY <2>1, <2>2, <2>3
<1>8. bytes = s \o d
  <2>1. PICK t \in Seq(Cells) : t = s \o d
    BY <1>6
  <2>2. Len(bytes) = Len(t) /\ \A i \in 1 .. Len(bytes) : bytes[i] = t[i]
    BY <1>2, <1>6, <1>7, <2>1
  <2> QED BY <2>1, <2>2, SeqEqual
<1>9. (\E i \in off + 1 .. off + Len(d) : bytes[i] = EOL)
        <=> (\E i \in 1 .. Len(d) : d[i] = EOL)
  <2>1. \A i \in 1 .. Len(d) : bytes[off + i] = d[i]
    BY <1>2
  <2>2. ASSUME NEW i \in off + 1 .. off + Len(d), bytes[i] = EOL
        PROVE  \E j \in 1 .. Len(d) : d[j] = EOL
    <3>1. i - off \in 1 .. Len(d) /\ off + (i - off) = i
      BY <1>2
    <3> QED BY <2>1, <2>2, <3>1
  <2>3. ASSUME NEW i \in 1 .. Len(d), d[i] = EOL
        PROVE  \E j \in off + 1 .. off + Len(d) : bytes[j] = EOL
    <3>1. off + i \in off + 1 .. off + Len(d)
      BY <1>2
    <3> QED BY <2>1, <2>3, <3>1
  <2> QED BY <2>2, <2>3
<1> QED BY <1>2, <1>4, <1>8, <1>9, SMTT(30) DEF EndOfLine, Store!HasEOL

(* When the entry goes to the buffer, the lines are the old ones without   *)
(* the one that drops out, and the new one.                                *)
LEMMA LinePushed ==
  ASSUME DeviceInv, loaded, loaded', NEW bytes \in Seq(Cells),
         staging.size # 0, staging.buffptr \in Blocks,
         circular_buffer' = add_entry(circular_buffer, staging).buffer,
         \A b \in Blocks :
           heap'[b] = IF b = add_entry(circular_buffer, staging).replaced
                        THEN FREE
                      ELSE IF b = staging.buffptr THEN bytes ELSE heap[b]
  PROVE  Lines' = Store!Push(Lines, bytes)
<1>1. RingShape(circular_buffer, Entry) /\ staging \in Entry
  BY DEF DeviceInv, TypeOK, SlotsInv, RingShape
<1>2. RingShape(circular_buffer', Entry)
  BY <1>1, AddEntryShape
<1>3. PICK n \in 0 .. MaxOps, c \in Seq(Entry) :
        n = Count(circular_buffer) /\ c = Contents(circular_buffer) /\ Len(c) = n
  BY <1>1, ContentsIsSeq
<1>4. PICK m \in 0 .. MaxOps, e \in Seq(Entry) :
        m = Count(circular_buffer') /\ e = Contents(circular_buffer') /\ Len(e) = m
  BY <1>2, ContentsIsSeq
<1>5. /\ e = IF n < MaxOps THEN Append(c, staging) ELSE Append(Tail(c), staging)
      /\ add_entry(circular_buffer, staging).replaced =
           IF n < MaxOps THEN NULL ELSE Head(c).buffptr
  BY <1>1, <1>3, <1>4, AddEntryPushes
<1>6. /\ heap \in [Blocks -> Seq(Cells) \cup {FREE}] /\ NULL \notin Blocks
      /\ MaxOps \in Nat \ {0}
  <2>1. heap \in [Blocks -> Seq(Cells) \cup {FREE}] /\ NULL \notin Blocks
    BY DeviceTypes DEF DeviceInv
  <2>2. MaxOps \in Nat \ {0}
    <3> HIDE DEF DeviceInv
    <3> QED BY MaxOpsAssumption
  <2> QED BY <2>1, <2>2, Zenon
<1>7. \A i \in 1 .. n :
        /\ c[i].buffptr \in Blocks /\ heap[c[i].buffptr] \in Seq(Cells)
        /\ c[i].buffptr # staging.buffptr
        /\ \A j \in 1 .. n : c[i].buffptr = c[j].buffptr => i = j
  BY <1>3, <1>6, MemorySafeHolds DEF MemorySafe, Stored
<1>8. /\ Lines = [i \in 1 .. n |-> heap[c[i].buffptr]]
      /\ Lines' = [i \in 1 .. m |-> heap'[e[i].buffptr]]
  <2>1. Lines = [i \in 1 .. n |-> heap[c[i].buffptr]]
    BY <1>3 DEF Lines
  <2>2. m = Count(circular_buffer)' /\ e = Contents(circular_buffer)'
    BY <1>4 DEF Count, Contents, peek
  <2>3. Lines' = [i \in 1 .. m |-> heap'[e[i].buffptr]]
    BY <2>2 DEF Lines
  <2> QED BY <2>1, <2>3
<1>9. PICK l \in Seq(Seq(Cells)) :
        l = Lines /\ Len(l) = n /\ \A i \in 1 .. n : l[i] = heap[c[i].buffptr]
  <2>1. Lines \in [1 .. n -> Seq(Cells)]
    BY <1>7, <1>8
  <2>2. n \in Nat
    OBVIOUS
  <2>3. Lines \in Seq(Seq(Cells)) /\ Len(Lines) = n
    BY <2>1, <2>2
  <2>4. \A i \in 1 .. n : Lines[i] = heap[c[i].buffptr]
    BY <1>8
  <2> QED BY <2>3, <2>4
<1>10. CASE n < MaxOps
  <2>1. e = Append(c, staging) /\ \A b \in Blocks :
          heap'[b] = IF b = staging.buffptr THEN bytes ELSE heap[b]
    BY <1>5, <1>6, <1>10
  <2>2. /\ Len(e) = n + 1 /\ e[n + 1] = staging
        /\ \A i \in 1 .. n : e[i] = c[i]
    BY <1>1, <1>3, <2>1, AppendProperties
  <2>3. m = n + 1
    BY <1>4, <2>2
  <2>4. /\ Append(l, bytes) \in Seq(Seq(Cells)) /\ Len(Append(l, bytes)) = n + 1
        /\ \A i \in 1 .. n : Append(l, bytes)[i] = l[i]
        /\ Append(l, bytes)[n + 1] = bytes
    BY <1>9, AppendProperties
  <2>5. ASSUME NEW i \in 1 .. m PROVE heap'[e[i].buffptr] = Append(l, bytes)[i]
    <3>1. CASE i \in 1 .. n
      <4>1. /\ e[i] = c[i] /\ Append(l, bytes)[i] = l[i] /\ l[i] = heap[c[i].buffptr]
            /\ c[i].buffptr \in Blocks /\ c[i].buffptr # staging.buffptr
        BY <1>7, <1>9, <2>2, <2>4, <3>1
      <4>2. heap'[c[i].buffptr] = heap[c[i].buffptr]
        BY <2>1, <4>1
      <4> QED BY <4>1, <4>2
    <3>2. CASE i = n + 1
      BY <2>1, <2>2, <2>4, <3>2
    <3>3. i \in 1 .. n \/ i = n + 1
      BY <2>3
    <3> QED BY <3>1, <3>2, <3>3
  <2>6. Lines' = Append(l, bytes)
    <3>1. PICK a \in Seq(Seq(Cells)) : a = Append(l, bytes)
      BY <2>4
    <3>2. Len(a) = m
      BY <2>3, <2>4, <3>1
    <3>3. a = [i \in 1 .. m |-> a[i]]
      BY <3>2, LenProperties
    <3> QED BY <1>8, <2>5, <3>1, <3>3
  <2> QED BY <1>9, <1>10, <2>6 DEF Store!Push
<1>11. CASE ~(n < MaxOps)
  <2>1. n = MaxOps /\ c # <<>> /\ l # <<>>
    BY <1>3, <1>6, <1>9, <1>11
  <2>2. e = Append(Tail(c), staging) /\ \A b \in Blocks :
          heap'[b] = IF b = c[1].buffptr THEN FREE
                     ELSE IF b = staging.buffptr THEN bytes ELSE heap[b]
    <3>1. Head(c) = c[1]
      BY <2>1
    <3> QED BY <1>5, <1>11, <3>1
  <2>3. /\ Tail(c) \in Seq(Entry) /\ Len(Tail(c)) = n - 1
        /\ \A i \in 1 .. n - 1 : Tail(c)[i] = c[i + 1]
    BY <1>3, <2>1, HeadTailProperties
  <2>4. /\ Len(e) = n /\ e[n] = staging
        /\ \A i \in 1 .. n - 1 : e[i] = c[i + 1]
    <3>1. /\ Len(Append(Tail(c), staging)) = (n - 1) + 1
          /\ Append(Tail(c), staging)[(n - 1) + 1] = staging
          /\ \A i \in 1 .. n - 1 : Append(Tail(c), staging)[i] = Tail(c)[i]
      BY <1>1, <2>3, AppendProperties
    <3>2. (n - 1) + 1 = n
      OBVIOUS
    <3> QED BY <2>2, <2>3, <3>1, <3>2
  <2>5. m = n
    BY <1>4, <2>4
  <2>6. /\ Tail(l) \in Seq(Seq(Cells)) /\ Len(Tail(l)) = n - 1
        /\ \A i \in 1 .. n - 1 : Tail(l)[i] = l[i + 1]
    BY <1>9, <2>1, HeadTailProperties
  <2>7. PICK a \in Seq(Seq(Cells)) :
          /\ a = Append(Tail(l), bytes)
          /\ Len(a) = n /\ a[n] = bytes
          /\ \A i \in 1 .. n - 1 : a[i] = l[i + 1]
    <3>1. /\ Append(Tail(l), bytes) \in Seq(Seq(Cells))
          /\ Len(Append(Tail(l), bytes)) = (n - 1) + 1
          /\ Append(Tail(l), bytes)[(n - 1) + 1] = bytes
          /\ \A i \in 1 .. n - 1 : Append(Tail(l), bytes)[i] = Tail(l)[i]
      BY <2>6, AppendProperties
    <3>2. (n - 1) + 1 = n
      OBVIOUS
    <3> QED BY <2>6, <3>1, <3>2, ZenonT(60)
  <2>8. ASSUME NEW i \in 1 .. n PROVE heap'[e[i].buffptr] = a[i]
    <3>1. CASE i \in 1 .. n - 1
      <4>1. i + 1 \in 1 .. n /\ i + 1 # 1 /\ 1 \in 1 .. n
        BY <3>1
      <4>2. /\ c[i + 1].buffptr \in Blocks /\ c[i + 1].buffptr # staging.buffptr
            /\ c[i + 1].buffptr # c[1].buffptr
        BY <1>7, <4>1
      <4>3. /\ e[i] = c[i + 1] /\ a[i] = l[i + 1]
            /\ l[i + 1] = heap[c[i + 1].buffptr]
        BY <1>9, <2>4, <2>7, <3>1, <4>1
      <4>4. heap'[c[i + 1].buffptr] = heap[c[i + 1].buffptr]
        BY <2>2, <4>2
      <4> QED BY <4>3, <4>4
    <3>2. CASE i = n
      <4>1. 1 \in 1 .. n
        BY <2>1, <1>6
      <4>2. c[1].buffptr # staging.buffptr
        BY <1>7, <4>1
      <4> QED BY <2>2, <2>4, <2>7, <3>2, <4>2
    <3> QED BY <3>1, <3>2
  <2>9. Lines' = a
    <3>1. a = [i \in 1 .. n |-> a[i]]
      BY <2>7, LenProperties
    <3> QED BY <1>8, <2>5, <2>8, <3>1
  <2> QED BY <1>9, <1>11, <2>7, <2>9 DEF Store!Push
<1> QED BY <1>10, <1>11


(* The copy of a write is the instant at which the write happens: its      *)
(* bytes follow what was gathered, and a newline among them makes a line   *)
(* of it all.                                                              *)
LEMMA WriteHappens ==
  ASSUME DeviceInv, DeviceInv', StagingKept, StagingKept',
         "copy_from_user" \notin Faults, NEW p \in Procs, aesd_write_copy(p)
  PROVE  /\ ~Store!HasEOL(data[p]) => Lines' = Lines /\ Partial' = Partial \o data[p]
         /\ Store!HasEOL(data[p]) =>
              /\ Lines' = Store!Push(Lines, Partial \o data[p])
              /\ Partial' = <<>>
<1>1. /\ pc[p] = "write_copy" /\ loaded /\ loaded' /\ Return(p)
  BY DEF aesd_write_copy, DeviceInv, UnloadedInv
<1>2. Gathered' = staging'.size
  <2>1. \A q \in Procs : pc'[q] # "write_copy"
    <3>1. pc'[p] = "idle" /\ \A q \in Procs : q # p => pc'[q] = pc[q]
      BY <1>1, ReturnEffect DEF DeviceInv
    <3> QED BY <1>1, <3>1, HolderAlone DEF DeviceInv
  <2> QED BY <2>1, GatheredNext DEF GatheredMeans
<1>3. PICK bytes \in Seq(Cells) :
        /\ Len(bytes) = staging.size
        /\ staging.size # 0 =>
             \A i \in 1 .. staging_offset[p] : bytes[i] = heap[staging.buffptr][i]
        /\ \A i \in 1 .. Len(data[p]) : bytes[staging_offset[p] + i] = data[p][i]
        /\ \/ /\ ~EndOfLine(bytes, staging_offset[p], Len(data[p]))
              /\ UNCHANGED <<circular_buffer, staging>>
              /\ \A b \in Blocks :
                   heap'[b] = IF b = staging.buffptr THEN bytes ELSE heap[b]
           \/ /\ EndOfLine(bytes, staging_offset[p], Len(data[p]))
              /\ staging.size # 0 /\ staging.buffptr \in Blocks
              /\ circular_buffer' = add_entry(circular_buffer, staging).buffer
              /\ staging' = NoEntry
              /\ \A b \in Blocks :
                   heap'[b] = IF b = add_entry(circular_buffer, staging).replaced
                                THEN FREE
                              ELSE IF b = staging.buffptr THEN bytes ELSE heap[b]
  BY WriteCopyEffect DEF Copied
<1>4. /\ bytes = Partial \o data[p]
      /\ EndOfLine(bytes, staging_offset[p], Len(data[p])) <=> Store!HasEOL(data[p])
  BY <1>3, CopyInAppends
<1>5. CASE /\ ~EndOfLine(bytes, staging_offset[p], Len(data[p]))
           /\ UNCHANGED <<circular_buffer, staging>>
           /\ \A b \in Blocks :
                heap'[b] = IF b = staging.buffptr THEN bytes ELSE heap[b]
  <2>1. Lines' = Lines
    <3>1. ASSUME NEW i \in Slots, Used(i)
          PROVE  heap'[circular_buffer.entry[i].buffptr]
                   = heap[circular_buffer.entry[i].buffptr]
      BY <1>1, <1>5, <3>1 DEF DeviceInv, SlotsInv, Stored
    <3> QED BY <1>1, <1>5, <3>1, LinesUntouched
  <2>2. Partial' = bytes
    <3>1. /\ Partial' \in Seq(Cells) /\ Len(Partial') = staging.size
          /\ \A i \in 1 .. staging.size : Partial'[i] = heap'[staging.buffptr][i]
      BY <1>1, <1>2, <1>5, PartialNext DEF PartialMeans
    <3>2. staging.size \in Nat /\ (staging.size # 0 => staging.buffptr \in Blocks)
      BY <1>1, DeviceTypes DEF DeviceInv, StagingKept
    <3>3. \A i \in 1 .. staging.size : Partial'[i] = bytes[i]
      BY <1>5, <3>1, <3>2
    <3>4. PICK s \in Seq(Cells) : s = Partial'
      BY <3>1
    <3>5. Len(s) = Len(bytes) /\ \A i \in 1 .. Len(s) : s[i] = bytes[i]
      BY <1>3, <3>1, <3>3, <3>4
    <3> QED BY <3>4, <3>5, SeqEqual
  <2> QED BY <1>4, <1>5, <2>1, <2>2
<1>6. CASE /\ EndOfLine(bytes, staging_offset[p], Len(data[p]))
           /\ staging.size # 0 /\ staging.buffptr \in Blocks
           /\ circular_buffer' = add_entry(circular_buffer, staging).buffer
           /\ staging' = NoEntry
           /\ \A b \in Blocks :
                heap'[b] = IF b = add_entry(circular_buffer, staging).replaced
                             THEN FREE
                           ELSE IF b = staging.buffptr THEN bytes ELSE heap[b]
  <2>1. Lines' = Store!Push(Lines, bytes)
    BY <1>1, <1>6, LinePushed
  <2>2. Partial' = <<>>
    BY <1>2, <1>6 DEF Partial, NoEntry
  <2> QED BY <1>4, <1>6, <2>1, <2>2
<1> QED BY <1>3, <1>5, <1>6

(* Every step of the driver is a step of LineStore, or none. *)
LEMMA StepImplements ==
  ASSUME DeviceInv, DeviceInv', StagingKept, StagingKept',
         "krealloc" \notin Faults, "copy_from_user" \notin Faults, [Next]_vars
  PROVE  [Store!Next]_<<Lines, Partial>>
<1>1. ASSUME UNCHANGED <<loaded, circular_buffer, staging, heap, Gathered>>
      PROVE  UNCHANGED <<Lines, Partial>>
  <2>1. /\ Count(circular_buffer)' = Count(circular_buffer)
        /\ Contents(circular_buffer)' = Contents(circular_buffer)
    BY <1>1 DEF Count, Contents, peek
  <2> QED BY <1>1, <2>1 DEF Lines, Partial
<1>2. CASE UNCHANGED vars
  BY <1>1, <1>2 DEF vars, device, caller, stack, Gathered
<1>3. CASE aesd_init_module
  <2>1. ~loaded /\ Lines = <<>> /\ Partial = <<>>
    BY <1>3 DEF aesd_init_module, Lines, Partial
  <2>2. CASE ~loaded'
    BY <2>1, <2>2 DEF Lines, Partial
  <2>3. CASE loaded'
    <3>1. /\ circular_buffer' = aesd_circular_buffer_init
          /\ staging' = NoEntry /\ device_mutex' = NULL
      BY <1>3, <2>1, <2>3 DEF aesd_init_module
    <3>2. Count(circular_buffer)' = 0 /\ Gathered' = 0
      BY <3>1 DEF Count, aesd_circular_buffer_init, Gathered, NoEntry
    <3>3. Lines' = <<>> /\ Partial' = <<>>
      BY <2>3, <3>2 DEF Lines, Partial
    <3> QED BY <2>1, <3>3
  <2> QED BY <2>2, <2>3
<1>4. CASE aesd_cleanup_module
  <2>1. Lines' = <<>> /\ Partial' = <<>>
    BY <1>4 DEF aesd_cleanup_module, Lines, Partial
  <2> QED BY <2>1 DEF Store!Next, Store!Reset
<1>5. ASSUME NEW p \in Procs,
             \/ aesd_open(p) \/ aesd_release(p) \/ read(p) \/ write(p)
             \/ aesd_read_find(p) \/ aesd_read_eof(p) \/ aesd_read_copy(p)
      PROVE  UNCHANGED <<Lines, Partial>>
  BY <1>1, <1>5, QuietSteps
<1>6. ASSUME NEW p \in Procs, aesd_write_alloc(p) PROVE UNCHANGED <<Lines, Partial>>
  BY <1>6, AllocIsQuiet, PartialUntouched
<1>7. ASSUME NEW p \in Procs, aesd_write_enomem(p) PROVE UNCHANGED <<Lines, Partial>>
  <2>1. /\ UNCHANGED <<loaded, circular_buffer, heap, device_mutex>>
        /\ device_mutex = NULL /\ staging' = [staging EXCEPT !.buffptr = NULL]
    BY <1>7 DEF aesd_write_enomem, FailAlloc
  <2>2. loaded /\ staging.size = 0
    BY <1>7, EnomemIsFirst
  <2>3. staging'.size = 0
    BY <2>1, <2>2 DEF DeviceInv, TypeOK, Entry
  <2>4. Partial = <<>> /\ Partial' = <<>>
    BY <2>1, <2>2, <2>3 DEF Partial, Gathered
  <2>5. Lines' = Lines
    BY <2>1, <2>2, LinesUntouched
  <2> QED BY <2>4, <2>5
<1>8. ASSUME NEW p \in Procs, aesd_write_copy(p)
      PROVE  [Store!Next]_<<Lines, Partial>>
  <2>1. PICK d \in Payloads \cup {<<>>} : d = data[p]
    BY DEF DeviceInv, TypeOK
  <2>2. /\ ~Store!HasEOL(d) => Lines' = Lines /\ Partial' = Partial \o d
        /\ Store!HasEOL(d) => /\ Lines' = Store!Push(Lines, Partial \o d)
                              /\ Partial' = <<>>
    BY <1>8, <2>1, WriteHappens
  <2>3. CASE d \in Payloads
    <3>1. Store!Gather(d) \/ Store!Complete(d)
      BY <2>2 DEF Store!Gather, Store!Complete
    <3> QED BY <2>3, <3>1 DEF Store!Next
  <2>4. CASE d = <<>>
    <3>1. ~Store!HasEOL(d)
      BY <2>4 DEF Store!HasEOL
    <3>2. loaded
      BY <1>8 DEF aesd_write_copy, DeviceInv, UnloadedInv
    <3>3. Partial \o d = Partial
      BY <2>4, <3>2, PartialIs, ConcatEmptySeq DEF PartialMeans
    <3> QED BY <2>2, <3>1, <3>3
  <2> QED BY <2>3, <2>4
<1> QED BY <1>2, <1>3, <1>4, <1>5, <1>6, <1>7, <1>8 DEF Next

(* As long as neither krealloc nor a copy from user space fails, the       *)
(* driver implements LineStore, for every number of processes, whatever    *)
(* they write and wherever the kernel puts it: writes happen one at a      *)
(* time, in full, and the lines are the newest MaxOps ones. Both           *)
(* hypotheses are needed: the driver loses bytes when either fails.        *)
THEOREM DriverImplementsStore ==
  ASSUME "krealloc" \notin Faults, "copy_from_user" \notin Faults
  PROVE  Spec => ImplementsLineStore
<1>1. Init => Store!Init
  BY DEF Init, Store!Init, Lines, Partial
<1>2. /\ DeviceInv /\ StagingKept /\ DeviceInv' /\ StagingKept'
      /\ [Next]_vars
      => [Store!Next]_<<Lines, Partial>>
  BY StepImplements
<1> QED BY <1>1, <1>2, OwnedInductive, PTL DEF Spec, ImplementsLineStore, Store!Spec

(* Everything gathered was put there by a write. *)
GatheredBytes == Partial \in Seq(Bytes)

(* Under the same hypotheses, between two calls the size of the staging    *)
(* entry is what its comment in aesd-circular-buffer.h says: the number of *)
(* bytes stored in its block, every one of them written by a user.         *)
THEOREM StagingIsWritten ==
  ASSUME "krealloc" \notin Faults, "copy_from_user" \notin Faults
  PROVE  Spec => []SizeIsStored
<1>1. Init => GatheredBytes
  BY DEF Init, Partial, GatheredBytes
<1>2. GatheredBytes /\ [Store!Next]_<<Lines, Partial>> => GatheredBytes'
  <2> SUFFICES ASSUME Partial \in Seq(Bytes), [Store!Next]_<<Lines, Partial>>
               PROVE  Partial' \in Seq(Bytes)
    BY DEF GatheredBytes
  <2>1. ASSUME NEW d \in Payloads, Partial' = Partial \o d
        PROVE  Partial' \in Seq(Bytes)
    BY <2>1, PayloadsAssumption, ConcatProperties
  <2>2. Partial' = Partial \/ Partial' = <<>> \/ \E d \in Payloads : Partial' = Partial \o d
    BY DEF Store!Next, Store!Reset, Store!Gather, Store!Complete
  <2>3. <<>> \in Seq(Bytes)
    OBVIOUS
  <2> QED BY <2>1, <2>2, <2>3, Zenon
<1>3. DeviceInv /\ StagingKept /\ GatheredBytes => SizeIsStored
  <2> SUFFICES ASSUME DeviceInv, StagingKept, Partial \in Seq(Bytes),
                      loaded, device_mutex = NULL, staging.size # 0
               PROVE  /\ Stored(staging)
                      /\ \A i \in 1 .. staging.size : heap[staging.buffptr][i] \in Bytes
    BY DEF SizeIsStored, GatheredBytes
  <2>1. Stored(staging)
    BY DEF StagingKept, DeviceInv, StagingInv
  <2>2. Gathered = staging.size
    BY DEF Gathered
  <2>3. Len(Partial) = staging.size
        /\ \A i \in 1 .. staging.size : Partial[i] = heap[staging.buffptr][i]
    BY <2>2, PartialIs DEF PartialMeans
  <2>4. \A i \in 1 .. Len(Partial) : Partial[i] \in Bytes
    OBVIOUS
  <2> QED BY <2>1, <2>3, <2>4
<1>4. Spec => [][Store!Next]_<<Lines, Partial>>
  BY DriverImplementsStore, PTL DEF ImplementsLineStore, Store!Spec
<1>5. Spec => Init
  BY DEF Spec
<1>6. Spec => []GatheredBytes
  BY <1>1, <1>2, <1>4, <1>5, PTL
<1> QED BY <1>3, <1>6, OwnedInductive, PTL

-----------------------------------------------------------------------------
(* What a reader is given, when its buffer takes any line. *)

(* The writers whose bytes are not in the staging entry yet. *)
Writing == {p \in Procs : pc[p] = "write_lock"}

(* No line grows beyond MaxLine: whoever has started a write did so when   *)
(* at most MaxPartial bytes were gathered, and adds its payload once.      *)
SizeInv ==
  /\ staging.size + Cardinality(Writing) * MaxPayload <= MaxLine
  /\ \A i \in Slots : circular_buffer.entry[i].size <= MaxLine

(* A process starts afresh with every open, and reads with a buffer it     *)
(* may pass.                                                               *)
HistoryInv ==
  /\ steady \in [Procs -> BOOLEAN]
  /\ received \in [Procs -> Seq(Cells)]
  /\ seen \in [Procs -> Nat]
  /\ \A p \in Procs :
       /\ pc[p] = "closed" => /\ f_pos[p] = 0 /\ seen[p] = 0
                              /\ ~steady[p] /\ received[p] = <<>>
       /\ pc[p] \in {"read_lock", "read_copy"} => count[p] \in Counts

(* The file position at which the line after the i oldest ones starts. *)
Before(i) == Starts(circular_buffer)[i]

(* The line a reader is copying is the one its file position falls in. *)
FoundInv ==
  \A p \in Procs : pc[p] = "read_copy" =>
    \E i \in 1 .. Count(circular_buffer) :
      /\ buffer_entry[p] = Contents(circular_buffer)[i]
      /\ Before(i - 1) <= f_pos[p] /\ f_pos[p] < Before(i)

(* The file position is not in front of the end of the last line given. *)
SeenInv ==
  \A p \in Procs : pc[p] # "closed" =>
    seen[p] \in 0 .. Count(circular_buffer) /\ Before(seen[p]) <= f_pos[p]

(* The first i of some lines end to end, for every i. *)
Joined(l) ==
  LET upto[i \in 0 .. Len(l)] == IF i = 0 THEN <<>> ELSE upto[i - 1] \o l[i]
  IN  upto

(* A steady reader has received the oldest lines and stands behind them. *)
SteadyInv ==
  \A p \in Procs : steady[p] =>
    \E k \in 0 .. Count(circular_buffer) :
      f_pos[p] = Before(k) /\ received[p] = Joined(Lines)[k]

(* The bounds are natural numbers. *)
LEMMA MaxLineNat == MaxLine \in Nat /\ MaxPartial \in Nat /\ MaxPayload \in Nat
<1>1. Cardinality(Procs) \in Nat
  BY ReadersAssumption, FS_CardinalityType
<1>2. MaxPayload \in Nat /\ MaxPartial \in Nat
  BY ReadersAssumption, DeviceAssumption
<1> QED BY <1>1, <1>2 DEF MaxLine

(* A part of the writers needs no more than all of them, and one writer    *)
(* fewer needs one payload less.                                           *)
LEMMA RoomForWriters ==
  ASSUME NEW W, W \subseteq Procs
  PROVE  /\ Cardinality(W) * MaxPayload \in Nat
         /\ MaxPartial + Cardinality(W) * MaxPayload <= MaxLine
         /\ \A p \in W :
              Cardinality(W \ {p}) * MaxPayload + MaxPayload
                = Cardinality(W) * MaxPayload
<1>1. IsFiniteSet(W) /\ Cardinality(W) <= Cardinality(Procs)
  BY ReadersAssumption, FS_Subset
<1>2. Cardinality(W) \in Nat /\ Cardinality(Procs) \in Nat
  BY <1>1, ReadersAssumption, FS_CardinalityType
<1>3. PICK k \in Nat, n \in Nat, z \in Nat, m \in Nat :
        /\ k = Cardinality(W) /\ n = Cardinality(Procs) /\ k <= n
        /\ z = MaxPayload /\ m = MaxPartial
  BY <1>1, <1>2, MaxLineNat
<1>4. k * z \in Nat /\ k * z <= n * z
  BY <1>3
<1>5. m + k * z <= m + n * z
  <2>1. n * z \in Nat
    OBVIOUS
  <2>2. PICK a \in Nat, b \in Nat : a = k * z /\ b = n * z
    BY <1>4, <2>1
  <2> QED BY <1>4, <2>2
<1>6. ASSUME NEW p \in W
      PROVE  Cardinality(W \ {p}) * MaxPayload + MaxPayload = Cardinality(W) * MaxPayload
  <2>1. Cardinality(W \ {p}) = k - 1
    BY <1>1, <1>3, FS_RemoveElement
  <2>2. (k - 1) * z + z = k * z
    OBVIOUS
  <2> QED BY <2>1, <2>2, <1>3
<1> QED BY <1>3, <1>4, <1>5, <1>6 DEF MaxLine

(* Nothing is gathered and nothing stored at first. *)
LEMMA SizeInit == Init => SizeInv
<1> SUFFICES ASSUME Init PROVE SizeInv
  OBVIOUS
<1>1. Writing = {} /\ staging.size = 0
  BY DEF Init, Writing, NoEntry
<1>2. Cardinality(Writing) * MaxPayload = 0
  BY <1>1, MaxLineNat, FS_EmptySet
<1>3. \A i \in Slots : circular_buffer.entry[i].size = 0
  BY DEF Init, aesd_circular_buffer_init, NoEntry
<1> QED BY <1>1, <1>2, <1>3, MaxLineNat DEF SizeInv

(* What one step does to the sizes. *)
LEMMA SizeKept ==
  ASSUME DeviceInv, DeviceInv', SizeInv, [Next]_vars
  PROVE  SizeInv'
<1> USE MaxLineNat
<1>0. /\ staging.size \in Nat /\ staging'.size \in Nat
      /\ \A i \in Slots : circular_buffer.entry[i].size \in Nat
      /\ Writing \subseteq Procs /\ Writing' \subseteq Procs
      /\ pc \in [Procs -> Pcs]
  BY DEF DeviceInv, TypeOK, Entry, Writing
<1>1. ASSUME UNCHANGED circular_buffer, Writing' = Writing, staging'.size <= staging.size
      PROVE  SizeInv'
  <2>1. staging.size + Cardinality(Writing) * MaxPayload <= MaxLine
    BY DEF SizeInv
  <2>2. Cardinality(Writing) * MaxPayload \in Nat
    BY <1>0, RoomForWriters
  <2>3. staging'.size + Cardinality(Writing') * MaxPayload <= MaxLine
    BY <1>0, <1>1, <2>1, <2>2
  <2> QED BY <1>1, <2>3 DEF SizeInv
<1>2. CASE UNCHANGED vars
  <2>1. UNCHANGED <<circular_buffer, pc, staging>>
    BY <1>2 DEF vars, device, caller
  <2> QED BY <1>0, <1>1, <2>1 DEF Writing
<1>3. CASE aesd_init_module
  <2>1. UNCHANGED pc
    BY <1>3 DEF aesd_init_module, caller
  <2>2. CASE UNCHANGED <<circular_buffer, staging>>
    BY <1>0, <1>1, <2>1, <2>2 DEF Writing
  <2>3. CASE circular_buffer' = aesd_circular_buffer_init /\ staging' = NoEntry
    <3>1. \A i \in Slots : circular_buffer'.entry[i].size = 0
      BY <2>3 DEF aesd_circular_buffer_init, NoEntry
    <3>2. staging'.size = 0 /\ Writing' = Writing
      BY <2>1, <2>3 DEF NoEntry, Writing
    <3>3. Cardinality(Writing) * MaxPayload \in Nat
      BY <1>0, RoomForWriters
    <3>4. staging'.size + Cardinality(Writing') * MaxPayload <= MaxLine
      BY <1>0, <3>2, <3>3 DEF SizeInv
    <3> QED BY <3>1, <3>4 DEF SizeInv
  <2> QED BY <1>3, <2>2, <2>3 DEF aesd_init_module
<1>4. CASE aesd_cleanup_module
  <2>1. UNCHANGED <<circular_buffer, pc, staging>>
    BY <1>4 DEF aesd_cleanup_module, caller
  <2> QED BY <1>0, <1>1, <2>1 DEF Writing
<1>5. ASSUME NEW p \in Procs, \/ aesd_open(p) \/ aesd_release(p) \/ read(p)
                               \/ aesd_read_find(p) \/ aesd_read_eof(p) \/ aesd_read_copy(p)
      PROVE  SizeInv'
  <2>1. UNCHANGED <<circular_buffer, staging>>
    BY <1>5 DEF aesd_open, aesd_release, read, aesd_read_find, aesd_read_eof,
        aesd_read_copy, device
  <2>2. /\ pc[p] # "write_lock" /\ pc'[p] # "write_lock"
        /\ \A q \in Procs \ {p} : pc'[q] = pc[q]
    BY <1>0, <1>5 DEF aesd_open, aesd_release, read, aesd_read_find, aesd_read_eof,
        aesd_read_copy, Return
  <2>3. Writing' = Writing
    BY <2>2 DEF Writing
  <2> QED BY <1>0, <1>1, <2>1, <2>3
<1>6. ASSUME NEW p \in Procs, write(p) PROVE SizeInv'
  <2>1. UNCHANGED <<circular_buffer, staging>> /\ staging.size <= MaxPartial
    BY <1>6 DEF write, device
  <2>2. /\ Cardinality(Writing') * MaxPayload \in Nat
        /\ MaxPartial + Cardinality(Writing') * MaxPayload <= MaxLine
    BY <1>0, RoomForWriters
  <2>3. staging'.size + Cardinality(Writing') * MaxPayload <= MaxLine
    BY <1>0, <2>1, <2>2
  <2> QED BY <2>1, <2>3 DEF SizeInv
<1>7. ASSUME NEW p \in Procs, pc[p] = "write_lock", pc'[p] # "write_lock",
             \A q \in Procs \ {p} : pc'[q] = pc[q], UNCHANGED circular_buffer,
             staging'.size <= staging.size + MaxPayload
      PROVE  SizeInv'
  <2>1. p \in Writing /\ Writing' = Writing \ {p}
    BY <1>7 DEF Writing
  <2>2. /\ Cardinality(Writing) * MaxPayload \in Nat
        /\ Cardinality(Writing \ {p}) * MaxPayload + MaxPayload
             = Cardinality(Writing) * MaxPayload
    BY <1>0, <2>1, RoomForWriters
  <2>3. Cardinality(Writing \ {p}) * MaxPayload \in Nat
    <3>1. Writing \ {p} \subseteq Procs
      BY <1>0
    <3> QED BY <3>1, RoomForWriters
  <2>4. staging.size + Cardinality(Writing) * MaxPayload <= MaxLine
    BY DEF SizeInv
  <2>5. staging'.size + Cardinality(Writing \ {p}) * MaxPayload <= MaxLine
    BY <1>0, <1>7, <2>2, <2>3, <2>4
  <2> QED BY <1>7, <2>1, <2>5 DEF SizeInv
<1>8. ASSUME NEW p \in Procs, aesd_write_alloc(p) PROVE SizeInv'
  <2>1. staging'.size = staging.size + Len(data[p]) /\ UNCHANGED circular_buffer
    BY <1>8, WriteAllocEffect
  <2>2. data[p] \in Payloads \cup {<<>>}
    BY DEF DeviceInv, TypeOK
  <2>3. Len(data[p]) <= MaxPayload /\ Len(data[p]) \in Nat
    <3>1. CASE data[p] \in Payloads
      BY <3>1, ReadersAssumption, PayloadsAssumption
    <3>2. CASE data[p] = <<>>
      BY <3>2
    <3> QED BY <2>2, <3>1, <3>2
  <2>4. /\ pc[p] = "write_lock" /\ pc'[p] = "write_copy"
        /\ \A q \in Procs \ {p} : pc'[q] = pc[q]
    BY <1>0, <1>8 DEF aesd_write_alloc
  <2>5. staging'.size <= staging.size + MaxPayload
    BY <1>0, <2>1, <2>3
  <2> QED BY <1>7, <2>1, <2>4, <2>5
<1>9. ASSUME NEW p \in Procs, aesd_write_enomem(p) PROVE SizeInv'
  <2>1. UNCHANGED circular_buffer /\ staging' = [staging EXCEPT !.buffptr = NULL]
    BY <1>9 DEF aesd_write_enomem
  <2>2. staging'.size = staging.size
    BY <2>1 DEF DeviceInv, TypeOK, Entry
  <2>3. /\ pc[p] = "write_lock" /\ pc'[p] = "idle"
        /\ \A q \in Procs \ {p} : pc'[q] = pc[q]
    BY <1>0, <1>9 DEF aesd_write_enomem, Return
  <2>4. staging'.size <= staging.size + MaxPayload
    BY <1>0, <2>2
  <2> QED BY <1>7, <2>1, <2>3, <2>4
<1>10. ASSUME NEW p \in Procs, aesd_write_copy(p) PROVE SizeInv'
  <2>1. /\ pc[p] = "write_copy" /\ pc'[p] = "idle"
        /\ \A q \in Procs \ {p} : pc'[q] = pc[q]
    BY <1>0, <1>10 DEF aesd_write_copy, Return
  <2>2. Writing' = Writing
    BY <2>1 DEF Writing
  <2>3. \/ UNCHANGED <<circular_buffer, staging>>
        \/ /\ circular_buffer' = add_entry(circular_buffer, staging).buffer
           /\ staging.size # 0 /\ staging' = NoEntry
    BY <1>10, WriteCopyEffect
  <2>4. CASE UNCHANGED <<circular_buffer, staging>>
    BY <1>0, <1>1, <2>2, <2>4
  <2>5. CASE /\ circular_buffer' = add_entry(circular_buffer, staging).buffer
             /\ staging.size # 0 /\ staging' = NoEntry
    <3>1. circular_buffer'.entry
            = [circular_buffer.entry EXCEPT ![circular_buffer.in_offs] = staging]
      BY <2>5, AddEntryFields
    <3>2. Cardinality(Writing) * MaxPayload \in Nat
      BY <1>0, RoomForWriters
    <3>3. staging.size <= MaxLine
      BY <1>0, <3>2 DEF SizeInv
    <3>4. circular_buffer.entry \in [Slots -> Entry]
      BY DeviceTypes DEF DeviceInv
    <3>5. ASSUME NEW i \in Slots PROVE circular_buffer'.entry[i].size <= MaxLine
      <4>1. circular_buffer'.entry[i] \in {staging, circular_buffer.entry[i]}
        BY <3>1, <3>4
      <4> QED BY <3>3, <4>1 DEF SizeInv
    <3>6. staging'.size = 0
      BY <2>5 DEF NoEntry
    <3>7. staging'.size + Cardinality(Writing') * MaxPayload <= MaxLine
      BY <1>0, <2>2, <3>2, <3>6 DEF SizeInv
    <3> QED BY <3>5, <3>7 DEF SizeInv
  <2> QED BY <2>3, <2>4, <2>5
<1> QED BY <1>2, <1>3, <1>4, <1>5, <1>6, <1>8, <1>9, <1>10 DEF Next

-----------------------------------------------------------------------------
(* The steps, as a reader and as the lines see them. *)

(* The buffer is one the search was shown to work on. *)
Searchable ==
  /\ RingShape(circular_buffer, Entry)
  /\ UsedHaveBytes(circular_buffer)
  /\ SizesBounded(circular_buffer, MaxLine)

(* How many lines there may be, and where they may start. *)
LEMMA PlacesTyped ==
  ASSUME NEW b, RingShape(b, Entry), SizesBounded(b, MaxLine)
  PROVE  /\ Count(b) \in 0 .. MaxOps /\ MaxOps \in Nat \ {0} /\ SizeMod \in Nat
         /\ Starts(b) \in [0 .. MaxOps -> 0 .. SizeMod - 1] /\ Starts(b)[0] = 0
<1>1. Count(b) \in 0 .. MaxOps
  BY ContentsIsSeq
<1>2. Starts(b) \in [0 .. MaxOps -> 0 .. SizeMod - 1] /\ Starts(b)[0] = 0
  BY StartsAreSums
<1>3. MaxOps \in Nat \ {0} /\ SizeMod \in Nat
  BY MaxOpsAssumption, SizeModAssumption
<1> QED BY <1>1, <1>2, <1>3

(* The buffer is searchable as long as no line is longer than MaxLine. *)
LEMMA BufferReady ==
  DeviceInv /\ SizeInv /\ loaded /\ BuffersSuffice => Searchable
<1> SUFFICES ASSUME DeviceInv, SizeInv, loaded, BuffersSuffice PROVE Searchable
  OBVIOUS
<1> DEFINE b == circular_buffer
<1>1. RingShape(b, Entry)
  BY DEF DeviceInv, TypeOK, SlotsInv, RingShape
<1>2. UsedHaveBytes(b)
  <2> SUFFICES ASSUME NEW i \in Slots
               PROVE  (b.full \/ i < b.in_offs) <=> b.entry[i].size # 0
    BY DEF UsedHaveBytes
  <2>1. CASE Used(i)
    BY <2>1 DEF Used, DeviceInv, SlotsInv
  <2>2. CASE ~Used(i)
    <3>1. b.entry[i] = NoEntry
      BY <2>2 DEF DeviceInv, SlotsInv
    <3> QED BY <2>2, <3>1 DEF Used, NoEntry
  <2> QED BY <2>1, <2>2
<1>3. SizesBounded(b, MaxLine)
  <2>1. ASSUME NEW i \in Slots PROVE peek(b, i).size \in 0 .. MaxLine
    <3>1. b.entry \in [Slots -> Entry]
      BY <1>1, RingFields
    <3>2. b.out_offs + i \in 0 .. 2 * MaxOps - 1
      <4>1. b.out_offs \in 0 .. MaxOps - 1
        BY <1>1, RingFields
      <4> QED BY <4>1, MaxOpsAssumption DEF Slots
    <3>3. Wrap(b.out_offs + i) \in Slots
      BY <3>2, MaxOpsAssumption DEF Wrap, Slots
    <3>4. PICK j \in Slots : peek(b, i) = b.entry[j]
      BY <3>2, <3>3, WrapOnce DEF peek
    <3>5. b.entry[j].size \in Nat /\ b.entry[j].size <= MaxLine
      BY <3>1 DEF SizeInv, Entry
    <3> QED BY <3>4, <3>5, MaxLineNat
  <2> QED BY <2>1, MaxLineNat DEF SizesBounded, BuffersSuffice
<1> QED BY <1>1, <1>2, <1>3 DEF Searchable

(* The same of the next state. *)
LEMMA BufferReadyNext ==
  ASSUME DeviceInv', SizeInv', loaded', BuffersSuffice
  PROVE  Searchable'
<1>1. DeviceInv' /\ SizeInv' /\ loaded' /\ BuffersSuffice' => Searchable'
  BY BufferReady, PTL
<1>2. BuffersSuffice'
  BY DEF BuffersSuffice, MaxLine
<1> QED BY <1>1, <1>2

-----------------------------------------------------------------------------
(* What a step may be for one process. *)

Rests(q) == /\ pc'[q] = pc[q] /\ f_pos'[q] = f_pos[q]
            /\ count'[q] = count[q] /\ buffer_entry'[q] = buffer_entry[q]

Opens(q) == pc[q] = "closed" /\ pc'[q] = "idle" /\ f_pos'[q] = f_pos[q]

Releases(q) == pc[q] = "idle" /\ pc'[q] = "closed" /\ f_pos'[q] = 0

(* A call begins or moves on, and no line is read. *)
Proceeds(q) ==
  /\ pc[q] \notin {"closed", "read_copy"} /\ pc'[q] \notin {"closed", "read_copy"}
  /\ pc'[q] = "read_lock" => count'[q] \in Counts
  /\ f_pos'[q] >= f_pos[q]
  /\ pc[q] # "write_copy" => f_pos'[q] = f_pos[q]

Finds(q) ==
  LET found == find_entry_offset_for_fpos(circular_buffer, f_pos[q])
  IN  /\ pc[q] = "read_lock" /\ pc'[q] = "read_copy" /\ device_mutex = NULL
      /\ found # NULL /\ buffer_entry'[q] = found.entry
      /\ f_pos'[q] = f_pos[q] /\ count'[q] = count[q]

(* There is no other step for a process, whoever takes the step. *)
LEMMA ProcessSteps ==
  ASSUME DeviceInv, Next, NEW q \in Procs
  PROVE  \/ Rests(q) \/ Opens(q) \/ Releases(q) \/ Proceeds(q) \/ Finds(q)
         \/ aesd_read_copy(q)
<1>0. /\ pc \in [Procs -> Pcs] /\ count \in [Procs -> Nat]
      /\ buffer_entry \in [Procs -> Entry] /\ f_pos \in [Procs -> Nat]
  BY DEF DeviceInv, TypeOK
<1>1. CASE aesd_init_module \/ aesd_cleanup_module
  BY <1>1 DEF aesd_init_module, aesd_cleanup_module, caller, stack, Rests
<1>2. ASSUME NEW p \in Procs, p # q,
             \/ aesd_open(p) \/ aesd_release(p) \/ read(p) \/ aesd_read_find(p)
             \/ aesd_read_eof(p) \/ aesd_read_copy(p) \/ write(p)
             \/ aesd_write_alloc(p) \/ aesd_write_enomem(p) \/ aesd_write_copy(p)
      PROVE  Rests(q)
  <2>1. CASE aesd_open(p) \/ aesd_release(p) \/ read(p) \/ aesd_read_find(p)
    BY <1>0, <1>2, <2>1 DEF aesd_open, aesd_release, read, aesd_read_find, stack, Rests
  <2>2. CASE aesd_read_eof(p) \/ aesd_write_enomem(p)
    BY <1>0, <1>2, <2>2 DEF aesd_read_eof, aesd_write_enomem, Return, Rests
  <2>3. CASE write(p) \/ aesd_write_alloc(p)
    BY <1>0, <1>2, <2>3 DEF write, aesd_write_alloc, Rests
  <2>4. CASE aesd_read_copy(p)
    <3>1. PICK k : f_pos' = [f_pos EXCEPT ![p] = @ + k]
      BY <2>4 DEF aesd_read_copy
    <3>2. Return(p)
      BY <2>4 DEF aesd_read_copy
    <3> QED BY <1>0, <1>2, <3>1, <3>2 DEF Return, Rests
  <2>5. CASE aesd_write_copy(p)
    <3>1. PICK k : f_pos' = [f_pos EXCEPT ![p] = @ + k]
      BY <2>5 DEF aesd_write_copy
    <3>2. Return(p)
      BY <2>5 DEF aesd_write_copy
    <3> QED BY <1>0, <1>2, <3>1, <3>2 DEF Return, Rests
  <2> QED BY <1>2, <2>1, <2>2, <2>3, <2>4, <2>5
<1>3. CASE aesd_open(q)
  BY <1>0, <1>3 DEF aesd_open, Opens
<1>4. CASE aesd_release(q)
  BY <1>0, <1>4 DEF aesd_release, Releases
<1>5. CASE read(q)
  <2>1. PICK n \in Counts : count' = [count EXCEPT ![q] = n]
    BY <1>5 DEF read
  <2> QED BY <1>0, <1>5, <2>1 DEF read, Proceeds
<1>6. CASE aesd_read_find(q)
  BY <1>0, <1>6 DEF aesd_read_find, Lock, Finds
<1>7. CASE aesd_read_eof(q) \/ aesd_write_enomem(q)
  BY <1>0, <1>7 DEF aesd_read_eof, aesd_write_enomem, Return, Proceeds
<1>8. CASE write(q) \/ aesd_write_alloc(q)
  BY <1>0, <1>8 DEF write, aesd_write_alloc, Proceeds
<1>9. CASE aesd_write_copy(q)
  <2>1. PICK k \in 0 .. Len(data[q]) : f_pos' = [f_pos EXCEPT ![q] = @ + k]
    BY <1>9, WriteCopyEffect
  <2>2. Return(q) /\ pc[q] = "write_copy" /\ Len(data[q]) \in Nat
    BY <1>9, DeviceTypes DEF aesd_write_copy, DeviceInv
  <2>3. pc'[q] = "idle" /\ f_pos'[q] = f_pos[q] + k
    BY <1>0, <2>1, <2>2 DEF Return
  <2>4. f_pos'[q] >= f_pos[q]
    BY <1>0, <2>1, <2>2, <2>3
  <2> QED BY <2>2, <2>3, <2>4 DEF Proceeds
<1> QED BY <1>1, <1>2, <1>3, <1>4, <1>5, <1>6, <1>7, <1>8, <1>9 DEF Next

(* What a step may be for the lines. *)
Gains ==
  /\ loaded /\ loaded'
  /\ \E p \in Procs : pc[p] = "write_copy"
  /\ staging \in Entry /\ staging.size # 0
  /\ circular_buffer' = add_entry(circular_buffer, staging).buffer
  /\ circular_buffer' # circular_buffer

(* A step leaves the lines alone, or is one of the module while the device *)
(* is open nowhere, or completes a line.                                   *)
LEMMA LineSteps ==
  ASSUME DeviceInv, DeviceInv', Next
  PROVE  \/ UNCHANGED <<loaded, circular_buffer, Lines>>
         \/ \A q \in Procs : pc[q] = "closed" /\ pc'[q] = "closed"
         \/ Gains
<1>0. TypeOK
  BY DEF DeviceInv
<1>1. CASE aesd_init_module
  BY <1>1 DEF aesd_init_module, caller, DeviceInv, UnloadedInv
<1>2. CASE aesd_cleanup_module
  BY <1>2 DEF aesd_cleanup_module, caller
<1>3. ASSUME NEW p \in Procs,
             \/ aesd_open(p) \/ aesd_release(p) \/ read(p) \/ write(p)
             \/ aesd_read_find(p) \/ aesd_read_eof(p) \/ aesd_read_copy(p)
      PROVE  UNCHANGED <<loaded, circular_buffer, Lines>>
  <2>1. UNCHANGED <<loaded, circular_buffer, heap>>
    BY <1>3, QuietSteps
  <2> QED BY <2>1 DEF Lines, Count, Contents, peek
<1>4. ASSUME NEW p \in Procs, aesd_write_alloc(p)
      PROVE  UNCHANGED <<loaded, circular_buffer, Lines>>
  <2>1. /\ loaded /\ UNCHANGED <<loaded, circular_buffer>>
        /\ \/ heap' = heap
           \/ /\ staging'.buffptr \in Blocks
              /\ heap[staging'.buffptr] = FREE \/ staging'.buffptr = staging.buffptr
              /\ \A b \in Blocks : b # staging'.buffptr =>
                   heap'[b] = IF b = staging.buffptr THEN FREE ELSE heap[b]
    BY <1>4, WriteAllocEffect
  <2>2. ASSUME NEW i \in Slots, Used(i)
        PROVE  heap'[circular_buffer.entry[i].buffptr]
                 = heap[circular_buffer.entry[i].buffptr]
    <3>1. PICK b : b = circular_buffer.entry[i].buffptr
      OBVIOUS
    <3>2. b \in Blocks /\ heap[b] # FREE /\ b # staging.buffptr
      BY <2>1, <2>2, <3>1 DEF DeviceInv, SlotsInv, Stored
    <3> QED BY <2>1, <3>1, <3>2
  <2> QED BY <2>1, <2>2, LinesUntouched
<1>5. ASSUME NEW p \in Procs, aesd_write_enomem(p)
      PROVE  UNCHANGED <<loaded, circular_buffer, Lines>>
  <2>1. UNCHANGED <<loaded, circular_buffer, heap>>
    BY <1>5 DEF aesd_write_enomem
  <2> QED BY <2>1 DEF Lines, Count, Contents, peek
<1>6. ASSUME NEW p \in Procs, aesd_write_copy(p)
      PROVE  UNCHANGED <<loaded, circular_buffer, Lines>> \/ Gains
  <2>1. pc[p] = "write_copy" /\ loaded /\ loaded' = loaded
    BY <1>6 DEF aesd_write_copy, DeviceInv, UnloadedInv
  <2>2. \/ /\ UNCHANGED circular_buffer
           /\ \A b \in Blocks : b # staging.buffptr => heap'[b] = heap[b]
        \/ /\ staging.size # 0 /\ staging.buffptr \in Blocks
           /\ circular_buffer' = add_entry(circular_buffer, staging).buffer
    BY <1>6, WriteCopyEffect
  <2>3. CASE /\ UNCHANGED circular_buffer
             /\ \A b \in Blocks : b # staging.buffptr => heap'[b] = heap[b]
    <3>1. \A i \in Slots : Used(i) =>
            heap'[circular_buffer.entry[i].buffptr]
              = heap[circular_buffer.entry[i].buffptr]
      BY <2>1, <2>3 DEF DeviceInv, SlotsInv, Stored
    <3> QED BY <2>1, <2>3, <3>1, LinesUntouched
  <2>4. CASE /\ staging.size # 0 /\ staging.buffptr \in Blocks
             /\ circular_buffer' = add_entry(circular_buffer, staging).buffer
    <3> DEFINE i == circular_buffer.in_offs
    <3>1. i \in Slots /\ circular_buffer.entry \in [Slots -> Entry] /\ staging \in Entry
      BY <1>0, DeviceTypes DEF TypeOK
    <3>2. circular_buffer'.entry[i] = staging
      <4>1. circular_buffer'.entry = [circular_buffer.entry EXCEPT ![i] = staging]
        BY <2>4, AddEntryFields
      <4> QED BY <3>1, <4>1
    <3>3. circular_buffer.entry[i] # staging
      <4>1. CASE Used(i)
        BY <2>1, <3>1, <4>1 DEF DeviceInv, SlotsInv
      <4>2. CASE ~Used(i)
        <5>1. circular_buffer.entry[i].size = 0
          BY <2>1, <3>1, <4>2 DEF DeviceInv, SlotsInv, NoEntry
        <5> QED BY <2>4, <5>1
      <4> QED BY <4>1, <4>2
    <3> QED BY <2>1, <2>4, <3>1, <3>2, <3>3 DEF Gains
  <2> QED BY <2>2, <2>3, <2>4
<1> QED BY <1>1, <1>2, <1>3, <1>4, <1>5, <1>6 DEF Next

(* The device is open only while the module is inserted. *)
LEMMA OpenIsLoaded ==
  DeviceInv => \A q \in Procs : pc[q] # "closed" => loaded
  BY DEF DeviceInv, UnloadedInv

(* The same of the next state. *)
LEMMA OpenIsLoadedNext ==
  DeviceInv' => \A q \in Procs : pc'[q] # "closed" => loaded'
  BY DEF DeviceInv, UnloadedInv

(* The entry being copied is in one place only. *)
LEMMA PlaceIs ==
  ASSUME DeviceInv, loaded, NEW q \in Procs,
         NEW i \in 1 .. Count(circular_buffer),
         buffer_entry[q] = Contents(circular_buffer)[i]
  PROVE  PlaceOf(q) = i
<1>1. \A j \in 1 .. Count(circular_buffer) :
        Contents(circular_buffer)[j] = buffer_entry[q] => j = i
  BY MemorySafeHolds DEF MemorySafe
<1> QED BY <1>1 DEF PlaceOf

(* What a reader copies from is a line of the buffer. *)
LEMMA PlaceExists ==
  ASSUME DeviceInv, NEW q \in Procs, pc[q] = "read_copy"
  PROVE  /\ loaded /\ PlaceOf(q) \in 1 .. Count(circular_buffer)
         /\ PlaceOf(q) \in Nat
         /\ buffer_entry[q] = Contents(circular_buffer)[PlaceOf(q)]
         /\ Stored(buffer_entry[q])
<1>1. loaded
  BY OpenIsLoaded
<1>2. PICK i \in 1 .. Count(circular_buffer) :
        buffer_entry[q] = Contents(circular_buffer)[i] /\ Stored(Contents(circular_buffer)[i])
  BY <1>1, MemorySafeHolds DEF MemorySafe
<1>3. PlaceOf(q) = i
  BY <1>1, <1>2, PlaceIs
<1>4. RingShape(circular_buffer, Entry)
  BY <1>1 DEF DeviceInv, TypeOK, SlotsInv, RingShape
<1>5. Count(circular_buffer) \in Nat
  BY <1>4, ContentsIsSeq, MaxOpsAssumption
<1> QED BY <1>1, <1>2, <1>3, <1>5

(* A buffer that takes any line gets the whole line. *)
LEMMA ReadCopyEffect ==
  ASSUME DeviceInv, SizeInv, HistoryInv, BuffersSuffice,
         NEW q \in Procs, aesd_read_copy(q)
  PROVE  /\ pc[q] = "read_copy" /\ pc'[q] = "idle"
         /\ UNCHANGED <<loaded, circular_buffer>>
         /\ f_pos'[q] = f_pos[q] + buffer_entry[q].size
         /\ userbuf'[q] = heap[buffer_entry[q].buffptr]
<1>1. pc[q] = "read_copy" /\ Return(q) /\ UNCHANGED <<loaded, circular_buffer>>
  BY DEF aesd_read_copy
<1>2. /\ pc \in [Procs -> Pcs] /\ f_pos \in [Procs -> Nat]
      /\ userbuf \in [Procs -> Seq(Cells)]
      /\ heap \in [Blocks -> Seq(Cells) \cup {FREE}]
      /\ buffer_entry[q] \in Entry
  BY DEF DeviceInv, TypeOK, Cells
<1>3. PICK n \in Nat : n = buffer_entry[q].size
  BY <1>2 DEF Entry
<1>4. n <= MaxLine
  <2>1. PICK i \in Slots : buffer_entry[q] = circular_buffer.entry[i]
    BY <1>1 DEF DeviceInv, ReaderInv
  <2> QED BY <1>3, <2>1 DEF SizeInv
<1>5. BytesToCopy(count[q], n) = n
  <2>1. count[q] \in Nat /\ count[q] >= MaxLine
    BY <1>1, DeviceAssumption DEF HistoryInv, BuffersSuffice
  <2> QED BY <1>4, <2>1, MaxLineNat DEF BytesToCopy
<1>6. Copied("copy_to_user", n) = {n}
  BY DEF Copied, BuffersSuffice
<1>7. /\ userbuf' = [userbuf EXCEPT ![q] = SubSeq(heap[buffer_entry[q].buffptr], 1, n)]
      /\ f_pos' = [f_pos EXCEPT ![q] = @ + n]
  BY <1>3, <1>5, <1>6 DEF aesd_read_copy
<1>8. PICK s \in Seq(Cells) : s = heap[buffer_entry[q].buffptr] /\ Len(s) = n
  BY <1>1, <1>2, <1>3, PlaceExists DEF Stored
<1>9. SubSeq(s, 1, n) = s
  <2>1. n \in 0 .. Len(s)
    BY <1>8
  <2>2. /\ SubSeq(s, 1, n) \in Seq(Cells) /\ Len(SubSeq(s, 1, n)) = n
        /\ \A i \in 1 .. n : SubSeq(s, 1, n)[i] = s[i]
    BY <2>1, PrefixOf, Zenon
  <2>3. PICK t \in Seq(Cells) :
          t = SubSeq(s, 1, n) /\ Len(t) = n /\ \A i \in 1 .. n : t[i] = s[i]
    BY <2>2, Zenon
  <2> QED BY <1>8, <2>3, SeqEqual
<1>10. pc'[q] = "idle"
  BY <1>1, <1>2 DEF Return
<1> QED BY <1>1, <1>2, <1>3, <1>7, <1>8, <1>9, <1>10

-----------------------------------------------------------------------------
(* Every step keeps the histories in their types, and empties those of a   *)
(* process that closes the device.                                         *)
LEMMA HistoryKept ==
  ASSUME DeviceInv, DeviceInv', HistoryInv, ReadersNext
  PROVE  HistoryInv'
<1>1. Next
  BY DEF ReadersNext
<1>2. steady' \in [Procs -> BOOLEAN]
  BY DEF ReadersNext, HistoryInv
<1>3. received' \in [Procs -> Seq(Cells)]
  <2>1. userbuf' \in [Procs -> Seq(Cells)]
    BY DEF DeviceInv, TypeOK, Cells
  <2>2. received \in [Procs -> Seq(Cells)]
    BY DEF HistoryInv
  <2>3. \A q \in Procs : received[q] \o userbuf'[q] \in Seq(Cells)
    BY <2>1, <2>2
  <2>4. <<>> \in Seq(Cells)
    OBVIOUS
  <2> QED BY <2>2, <2>3, <2>4 DEF ReadersNext
<1>4. seen' \in [Procs -> Nat]
  <2>1. seen \in [Procs -> Nat]
    BY DEF HistoryInv
  <2>2. \A q \in Procs : pc[q] = "read_copy" => PlaceOf(q) \in Nat
    BY PlaceExists
  <2>3. \A q \in Procs : seen[q] > 0 => seen[q] - 1 \in Nat
    BY <2>1
  <2> QED BY <2>1, <2>2, <2>3 DEF ReadersNext
<1>5. ASSUME NEW q \in Procs, pc'[q] = "closed"
      PROVE  /\ f_pos'[q] = 0 /\ seen'[q] = 0
             /\ ~steady'[q] /\ received'[q] = <<>>
  <2>1. f_pos'[q] = 0
    <3>1. aesd_read_copy(q) => pc'[q] = "idle"
      BY DEF aesd_read_copy, Return, DeviceInv, TypeOK
    <3> QED BY <1>1, <1>5, <3>1, ProcessSteps
        DEF Rests, Opens, Releases, Proceeds, Finds, HistoryInv
  <2>2. ~steady'[q] /\ seen'[q] = 0
    BY <1>5 DEF ReadersNext
  <2>3. received'[q] = <<>>
    BY <2>2 DEF ReadersNext
  <2> QED BY <2>1, <2>2, <2>3
<1>6. ASSUME NEW q \in Procs, pc'[q] \in {"read_lock", "read_copy"}
      PROVE  count'[q] \in Counts
  <2>1. aesd_read_copy(q) => pc'[q] = "idle"
    BY DEF aesd_read_copy, Return, DeviceInv, TypeOK
  <2> QED BY <1>1, <1>6, <2>1, ProcessSteps
      DEF Rests, Opens, Releases, Proceeds, Finds, HistoryInv
<1> QED BY <1>2, <1>3, <1>4, <1>5, <1>6 DEF HistoryInv

(* While a reader copies, and when it gets the mutex, no line is added. *)
LEMMA ReaderHoldsLines ==
  ASSUME DeviceInv, DeviceInv', Next, NEW q \in Procs,
         \/ pc[q] = "read_copy"
         \/ device_mutex = NULL /\ pc[q] # "closed"
  PROVE  UNCHANGED <<loaded, circular_buffer, Lines>>
<1>1. \A p \in Procs : pc[p] # "write_copy"
  BY HolderAlone DEF DeviceInv
<1> QED BY <1>1, LineSteps DEF Gains

(* The search finds the line around the file position, and neither the     *)
(* position nor the lines change before that line is copied.               *)
LEMMA FoundKept ==
  ASSUME DeviceInv, DeviceInv', SizeInv, BuffersSuffice, FoundInv, Next
  PROVE  FoundInv'
<1> SUFFICES ASSUME NEW q \in Procs, pc'[q] = "read_copy"
             PROVE  \E i \in 1 .. Count(circular_buffer') :
                      /\ buffer_entry'[q] = Contents(circular_buffer')[i]
                      /\ Starts(circular_buffer')[i - 1] <= f_pos'[q]
                      /\ f_pos'[q] < Starts(circular_buffer')[i]
  BY DEF FoundInv, Before
<1>1. aesd_read_copy(q) => pc'[q] = "idle"
  BY DEF aesd_read_copy, Return, DeviceInv, TypeOK
<1>2. Rests(q) \/ Finds(q)
  BY <1>1, ProcessSteps DEF Opens, Releases, Proceeds
<1>3. CASE Rests(q)
  <2>1. pc[q] = "read_copy" /\ UNCHANGED circular_buffer
    BY <1>3, ReaderHoldsLines DEF Rests
  <2> QED BY <1>3, <2>1 DEF Rests, FoundInv, Before
<1>4. CASE Finds(q)
  <2>1. UNCHANGED circular_buffer /\ loaded
    BY <1>4, ReaderHoldsLines, OpenIsLoaded DEF Finds
  <2>2. Searchable /\ f_pos[q] \in Nat
    BY <2>1, BufferReady DEF DeviceInv, TypeOK
  <2>3. PICK i \in 0 .. Count(circular_buffer) - 1 :
          /\ Starts(circular_buffer)[i] <= f_pos[q]
          /\ f_pos[q] < Starts(circular_buffer)[i + 1]
          /\ buffer_entry'[q] = Contents(circular_buffer)[i + 1]
    BY <1>4, <2>2, FindsByPosition DEF Searchable, Finds
  <2>4. i + 1 \in 1 .. Count(circular_buffer) /\ (i + 1) - 1 = i
    <3>1. Count(circular_buffer) \in Nat
      BY <2>2, ContentsIsSeq, MaxOpsAssumption DEF Searchable
    <3> QED BY <3>1
  <2> QED BY <1>4, <2>1, <2>3, <2>4 DEF Finds
<1> QED BY <1>2, <1>3, <1>4

-----------------------------------------------------------------------------
(* SeenInv is kept: when the oldest line drops out, every line starts      *)
(* earlier, so a position behind the end of a line stays behind it.        *)
LEMMA SeenKept ==
  ASSUME DeviceInv, DeviceInv', SizeInv, SizeInv', BuffersSuffice,
         HistoryInv, FoundInv, SeenInv, ReadersNext
  PROVE  SeenInv'
<1> SUFFICES ASSUME NEW q \in Procs, pc'[q] # "closed"
             PROVE  /\ seen'[q] \in 0 .. Count(circular_buffer')
                    /\ Starts(circular_buffer')[seen'[q]] <= f_pos'[q]
  BY DEF SeenInv, Before
<1>1. Next
  BY DEF ReadersNext
<1>2. loaded' /\ (UNCHANGED <<loaded, circular_buffer>> \/ Gains)
  BY <1>1, LineSteps, OpenIsLoadedNext
<1>3. loaded
  BY <1>2 DEF Gains
<1>4. Searchable /\ Searchable'
  BY <1>2, <1>3, BufferReady, BufferReadyNext
<1>5. /\ Count(circular_buffer) \in 0 .. MaxOps
      /\ Starts(circular_buffer) \in [0 .. MaxOps -> 0 .. SizeMod - 1]
      /\ Starts(circular_buffer)[0] = 0
      /\ Starts(circular_buffer') \in [0 .. MaxOps -> 0 .. SizeMod - 1]
      /\ Starts(circular_buffer')[0] = 0
      /\ MaxOps \in Nat \ {0} /\ SizeMod \in Nat
      /\ Count(circular_buffer') \in 0 .. MaxOps
  BY <1>4, PlacesTyped DEF Searchable
<1>6. /\ f_pos[q] \in Nat /\ f_pos'[q] \in Nat /\ seen[q] \in Nat
  BY DEF DeviceInv, TypeOK, HistoryInv
<1>7. CASE aesd_read_copy(q)
  <2>1. PICK i \in 1 .. Count(circular_buffer) :
          /\ buffer_entry[q] = Contents(circular_buffer)[i]
          /\ Starts(circular_buffer)[i - 1] <= f_pos[q]
    BY <1>7 DEF aesd_read_copy, FoundInv, Before
  <2>2. /\ pc[q] = "read_copy" /\ pc'[q] = "idle" /\ UNCHANGED circular_buffer
        /\ f_pos'[q] = f_pos[q] + buffer_entry[q].size
    BY <1>7, ReadCopyEffect
  <2>3. seen'[q] = i
    <3>1. seen'[q] = PlaceOf(q)
      BY <2>2 DEF ReadersNext
    <3> QED BY <1>3, <2>1, <3>1, PlaceIs
  <2>4. i - 1 \in Slots /\ (i - 1) + 1 = i /\ i \in 0 .. Count(circular_buffer)
    BY <1>5 DEF Slots
  <2>5. Contents(circular_buffer)[i] = peek(circular_buffer, i - 1)
    BY <2>4 DEF Contents
  <2>6. Starts(circular_buffer)[i] = Starts(circular_buffer)[i - 1] + buffer_entry[q].size
    BY <1>4, <2>1, <2>4, <2>5, StartsAreSums DEF Searchable
  <2>7. buffer_entry[q].size \in Nat /\ Starts(circular_buffer)[i - 1] \in Nat
    <3>1. buffer_entry[q].size \in Nat
      BY DEF DeviceInv, TypeOK, Entry
    <3>2. i - 1 \in 0 .. MaxOps
      BY <1>5, <2>4
    <3> QED BY <1>5, <3>1, <3>2
  <2>8. Starts(circular_buffer)[i] <= f_pos'[q]
    BY <1>6, <2>1, <2>2, <2>6, <2>7
  <2> QED BY <2>2, <2>3, <2>4, <2>8
<1>8. CASE ~aesd_read_copy(q)
  <2>1. /\ f_pos'[q] >= f_pos[q]
        /\ pc[q] = "read_copy" => pc'[q] # "idle"
    BY <1>1, <1>6, <1>8, ProcessSteps DEF Rests, Opens, Releases, Proceeds, Finds
  <2>2. seen'[q] = IF Evicts /\ seen[q] > 0 THEN seen[q] - 1 ELSE seen[q]
    BY <2>1 DEF ReadersNext
  <2>3. /\ seen[q] \in 0 .. Count(circular_buffer)
        /\ Starts(circular_buffer)[seen[q]] <= f_pos[q]
    <3>1. CASE pc[q] = "closed"
      <4>1. seen[q] = 0
        BY <3>1 DEF HistoryInv
      <4>2. 0 \in 0 .. Count(circular_buffer)
        BY <1>5
      <4> QED BY <1>5, <1>6, <4>1, <4>2
    <3>2. CASE pc[q] # "closed"
      BY <3>2 DEF SeenInv, Before
    <3> QED BY <3>1, <3>2
  <2>4. CASE UNCHANGED <<loaded, circular_buffer>>
    <3>1. seen'[q] = seen[q]
      BY <2>2, <2>4 DEF Evicts
    <3>2. Starts(circular_buffer)[seen[q]] \in Nat
      BY <1>5, <2>3
    <3> QED BY <1>6, <2>1, <2>3, <2>4, <3>1, <3>2
  <2>5. CASE Gains
    <3> DEFINE s == Starts(circular_buffer)
               t == Starts(circular_buffer')
               n == Count(circular_buffer)
               m == Count(circular_buffer')
    <3>1. /\ circular_buffer' = add_entry(circular_buffer, staging).buffer
          /\ staging \in Entry /\ staging.size # 0
          /\ circular_buffer' # circular_buffer
      BY <2>5 DEF Gains
    <3>2. /\ ~circular_buffer.full => m = n + 1 /\ \A j \in 0 .. n : t[j] = s[j]
          /\ circular_buffer.full => /\ n = MaxOps /\ m = MaxOps
                                     /\ \A j \in 0 .. MaxOps - 1 : t[j] <= s[j + 1]
      BY <1>4, <3>1, StartsAfterAdd DEF Searchable
    <3> HIDE DEF s, t, n, m
    <3>3. CASE ~circular_buffer.full
      <4>1. seen'[q] = seen[q] /\ t[seen[q]] = s[seen[q]]
        BY <2>2, <2>3, <3>2, <3>3 DEF Evicts, n
      <4>2. s[seen[q]] \in Nat /\ s[seen[q]] <= f_pos[q]
        BY <1>5, <2>3 DEF s, n
      <4>3. seen'[q] \in 0 .. m
        BY <1>5, <2>3, <3>2, <3>3, <4>1 DEF n, m
      <4> QED BY <1>6, <2>1, <4>1, <4>2, <4>3 DEF t, m
    <3>4. CASE circular_buffer.full /\ seen[q] = 0
      <4>1. seen'[q] = 0
        BY <2>2, <3>4, <1>6
      <4> QED BY <1>5, <1>6, <4>1
    <3>5. CASE circular_buffer.full /\ seen[q] # 0
      <4>1. seen'[q] = seen[q] - 1
        BY <1>6, <2>2, <3>1, <3>5 DEF Evicts
      <4>2. /\ seen[q] - 1 \in 0 .. MaxOps - 1 /\ (seen[q] - 1) + 1 = seen[q]
            /\ seen[q] - 1 \in 0 .. m
        <5>1. n = MaxOps /\ m = MaxOps /\ seen[q] \in 0 .. n /\ seen[q] # 0
          BY <2>3, <3>2, <3>5 DEF n
        <5>2. MaxOps \in Nat
          BY <1>5
        <5> QED BY <5>1, <5>2
      <4>3. t[seen[q] - 1] <= s[seen[q]]
        BY <3>2, <3>5, <4>2
      <4>4. /\ s[seen[q]] \in Nat /\ t[seen[q] - 1] \in Nat /\ s[seen[q]] <= f_pos[q]
        <5>1. seen[q] \in 0 .. MaxOps /\ seen[q] - 1 \in 0 .. MaxOps
          <6>1. MaxOps \in Nat /\ n = MaxOps
            BY <1>5, <3>2, <3>5
          <6> QED BY <2>3, <4>2, <6>1 DEF n
        <5>2. s[seen[q]] \in 0 .. SizeMod - 1 /\ t[seen[q] - 1] \in 0 .. SizeMod - 1
          BY <1>5, <5>1 DEF s, t
        <5> QED BY <1>5, <2>3, <5>2 DEF s
      <4>5. t[seen[q] - 1] <= f_pos'[q]
        BY <1>6, <2>1, <4>3, <4>4
      <4> QED BY <4>1, <4>2, <4>5 DEF t, m
    <3> QED BY <3>3, <3>4, <3>5
  <2> QED BY <1>2, <2>4, <2>5
<1> QED BY <1>7, <1>8

(* The line found is around a position behind the last line given, so it   *)
(* is a later one.                                                         *)
LEMMA NeverRepeatHolds ==
  ASSUME DeviceInv, SizeInv, BuffersSuffice, HistoryInv, FoundInv, SeenInv
  PROVE  ReadsNeverRepeat
<1> SUFFICES ASSUME NEW q \in Procs, pc[q] = "read_copy" PROVE PlaceOf(q) > seen[q]
  BY DEF ReadsNeverRepeat
<1>1. loaded
  BY OpenIsLoaded
<1>2. Searchable
  BY <1>1, BufferReady
<1> DEFINE s == Starts(circular_buffer)
           n == Count(circular_buffer)
<1>3. PICK i \in 1 .. n :
        buffer_entry[q] = Contents(circular_buffer)[i] /\ f_pos[q] < s[i]
  BY DEF FoundInv, Before
<1>4. seen[q] \in 0 .. n /\ s[seen[q]] <= f_pos[q] /\ f_pos[q] \in Nat
  BY DEF SeenInv, Before, DeviceInv, TypeOK
<1>5. PlaceOf(q) = i
  BY <1>1, <1>3, PlaceIs
<1>6. /\ n \in 0 .. MaxOps /\ MaxOps \in Nat /\ SizeMod \in Nat
      /\ s \in [0 .. MaxOps -> 0 .. SizeMod - 1]
  BY <1>2, PlacesTyped DEF Searchable
<1>7. \A j, k \in 0 .. n : j < k => s[j] < s[k]
  BY <1>2, StartsIncrease DEF Searchable
<1> HIDE DEF s, n
<1>8. s[seen[q]] \in Nat /\ s[i] \in Nat
  BY <1>3, <1>4, <1>6
<1>9. s[seen[q]] < s[i]
  BY <1>3, <1>4, <1>8
<1>10. ~(i < seen[q]) /\ i # seen[q]
  <2>1. i \in 0 .. n
    BY <1>6
  <2>2. i < seen[q] => s[i] < s[seen[q]]
    BY <1>4, <1>7, <2>1
  <2> QED BY <1>8, <1>9, <2>2
<1> QED BY <1>4, <1>5, <1>6, <1>10

-----------------------------------------------------------------------------
(* Lines end to end. *)

(* The definition of Joined has a solution. *)
LEMMA JoinedLoop ==
  ASSUME NEW S, NEW l \in Seq(Seq(S))
  PROVE  /\ Len(l) \in Nat /\ \A i \in 1 .. Len(l) : l[i] \in Seq(S)
         /\ Joined(l) \in [0 .. Len(l) -> Seq(S)]
         /\ Joined(l)[0] = <<>>
         /\ \A i \in 1 .. Len(l) : Joined(l)[i] = Joined(l)[i - 1] \o l[i]
<1> DEFINE n == Len(l)
           Z == Seq(S)
           step == [i \in 1 .. n |-> [v \in Z |-> v \o l[i]]]
           Body(f) == [i \in 0 .. n |-> IF i = 0 THEN <<>> ELSE f[i - 1] \o l[i]]
<1>1. n \in Nat /\ \A i \in 1 .. n : l[i] \in Z
  OBVIOUS
<1>2. <<>> \in Z /\ \A v \in Z, i \in 1 .. n : v \o l[i] \in Z
  BY <1>1
<1> HIDE DEF Z, n
<1>3. step \in [1 .. n -> [Z -> Z]]
  BY <1>2
<1>4. PICK g \in [0 .. n -> Z] : LoopTrace(g, n, <<>>, step)
  <2> HIDE DEF step
  <2> QED BY <1>1, <1>2, <1>3, LoopValues
<1>5. g[0] = <<>> /\ \A i \in 1 .. n : g[i] = g[i - 1] \o l[i]
  <2>1. g[0] = <<>> /\ \A i \in 1 .. n : g[i] = step[i][g[i - 1]]
    BY <1>4, Zenon DEF LoopTrace
  <2>2. ASSUME NEW i \in 1 .. n PROVE g[i] = g[i - 1] \o l[i]
    <3>1. i - 1 \in 0 .. n
      BY <1>1
    <3>2. g[i - 1] \in Z
      BY <3>1
    <3> QED BY <2>1, <3>2
  <2> QED BY <2>1, <2>2
<1>6. g = Body(g)
  <2>1. ASSUME NEW i \in 0 .. n
        PROVE  g[i] = IF i = 0 THEN <<>> ELSE g[i - 1] \o l[i]
    <3>1. i = 0 \/ (i # 0 /\ i \in 1 .. n)
      BY <1>1
    <3> QED BY <3>1, <1>5, Zenon
  <2>2. g = [i \in 0 .. n |-> g[i]]
    OBVIOUS
  <2> QED BY <2>1, <2>2, Zenon
<1> DEFINE f == CHOOSE h : h = Body(h)
<1>7. f = Body(f)
  <2> HIDE DEF Body
  <2> QED BY <1>6, Zenon
<1>8. Joined(l) = f
  BY DEF Joined, n
<1> HIDE DEF f
<1>9. f[0] = <<>> /\ \A i \in 1 .. n : f[i] = f[i - 1] \o l[i]
  <2>1. f[0] = <<>>
    BY <1>1, <1>7
  <2>2. ASSUME NEW i \in 1 .. n PROVE f[i] = f[i - 1] \o l[i]
    <3>1. i \in 0 .. n /\ i # 0
      BY <1>1
    <3> QED BY <3>1, <1>7
  <2> QED BY <2>1, <2>2
<1>10. f \in [0 .. n -> Z]
  <2> DEFINE T == {i \in Nat : f[i] \in Z}
  <2>1. 0 \in T
    BY <1>9, <1>2
  <2>2. ASSUME NEW i \in 0 .. n - 1, i \in T PROVE i + 1 \in T
    <3>1. i + 1 \in 1 .. n /\ (i + 1) - 1 = i
      BY <1>1
    <3>2. f[i + 1] = f[i] \o l[i + 1]
      BY <1>9, <3>1
    <3>3. f[i] \in Z
      BY <2>2
    <3>4. f[i + 1] \in Z
      BY <1>2, <3>1, <3>2, <3>3
    <3> QED BY <3>4
  <2>3. \A i \in 0 .. n : i \in T
    <3>1. \A i \in 0 .. n - 1 : i \in T => i + 1 \in T
      BY <2>2
    <3> HIDE DEF T
    <3> QED BY <1>1, <2>1, <3>1, SetInduction
  <2>4. \A i \in 0 .. n : f[i] \in Z
    BY <2>3
  <2>5. f = [i \in 0 .. n |-> f[i]]
    <3>1. f = Body(f)
      BY <1>7
    <3>2. \A i \in 0 .. n : f[i] = IF i = 0 THEN <<>> ELSE f[i - 1] \o l[i]
      BY <3>1
    <3> QED BY <3>1, <3>2, Zenon
  <2> QED BY <2>4, <2>5, Zenon
<1> QED BY <1>1, <1>8, <1>9, <1>10 DEF n, Z

(* FlattenSeq puts all of them end to end. *)
LEMMA FlattenIsJoined ==
  ASSUME NEW S, NEW l \in Seq(Seq(S))
  PROVE  Seqs!FlattenSeq(l) = Joined(l)[Len(l)]
<1> DEFINE n == Len(l)
           J == Joined(l)
           Body(f) == [i \in 1 .. n |-> IF i = 1 THEN l[i] ELSE f[i - 1] \o l[i]]
           flatten == CHOOSE h : h = Body(h)
           g == [i \in 1 .. n |-> J[i]]
<1>1. /\ n \in Nat /\ J \in [0 .. n -> Seq(S)] /\ J[0] = <<>>
      /\ \A i \in 1 .. n : J[i] = J[i - 1] \o l[i]
      /\ \A i \in 1 .. n : l[i] \in Seq(S)
  BY JoinedLoop
<1>2. CASE n = 0
  <2>1. l = <<>>
    BY <1>2
  <2> QED BY <1>1, <1>2, <2>1 DEF Seqs!FlattenSeq
<1>3. CASE n # 0
  <2>1. Seqs!FlattenSeq(l) = flatten[n]
    BY <1>3 DEF Seqs!FlattenSeq
  <2> HIDE DEF J, n
  <2>2. ASSUME NEW i \in 1 .. n
        PROVE  J[i] = IF i = 1 THEN l[i] ELSE g[i - 1] \o l[i]
    <3>1. CASE i = 1
      <4>1. PICK t \in Seq(S) : t = l[i]
        BY <1>1, Zenon
      <4>2. J[i] = <<>> \o t
        <5>1. i - 1 = 0
          BY <3>1
        <5>2. J[i] = J[i - 1] \o l[i]
          BY <1>1, Zenon
        <5> QED BY <1>1, <4>1, <5>1, <5>2
      <4>3. <<>> \o t = t
        OBVIOUS
      <4> QED BY <3>1, <4>1, <4>2, <4>3
    <3>2. CASE i # 1
      <4>1. i - 1 \in 1 .. n
        BY <1>1, <3>2
      <4> QED BY <1>1, <3>2, <4>1
    <3> QED BY <3>1, <3>2
  <2>3. g = Body(g)
    <3>1. \A i \in 1 .. n : J[i] = IF i = 1 THEN l[i] ELSE g[i - 1] \o l[i]
      BY <2>2
    <3>2. \A i \in 1 .. n : g[i] = J[i]
      OBVIOUS
    <3> QED BY <3>1, Zenon
  <2>4. flatten = Body(flatten)
    <3> HIDE DEF Body, g
    <3> QED BY <2>3, Zenon
  <2> HIDE DEF flatten
  <2> DEFINE T == {i \in Nat : i = 0 \/ flatten[i] = J[i]}
  <2>5. ASSUME NEW i \in 0 .. n - 1, i \in T PROVE i + 1 \in T
    <3>1. i + 1 \in 1 .. n /\ (i + 1) - 1 = i /\ (i + 1 = 1 <=> i = 0)
      BY <1>1
    <3>2. flatten[i + 1] = IF i + 1 = 1 THEN l[i + 1] ELSE flatten[i] \o l[i + 1]
      BY <2>4, <3>1
    <3>3. CASE i = 0
      <4>1. J[i + 1] = l[i + 1]
        BY <2>2, <3>1, <3>3
      <4>2. flatten[i + 1] = J[i + 1]
        BY <3>1, <3>2, <3>3, <4>1
      <4> QED BY <3>1, <4>2
    <3>4. CASE i # 0
      <4>1. J[i + 1] = J[i] \o l[i + 1] /\ flatten[i] = J[i]
        BY <1>1, <2>5, <3>1, <3>4
      <4>2. flatten[i + 1] = J[i + 1]
        BY <3>1, <3>2, <3>4, <4>1
      <4> QED BY <3>1, <4>2
    <3> QED BY <3>3, <3>4
  <2>6. \A i \in 0 .. n : i \in T
    <3>1. 0 \in T /\ \A i \in 0 .. n - 1 : i \in T => i + 1 \in T
      BY <2>5
    <3> HIDE DEF T
    <3> QED BY <1>1, <3>1, SetInduction
  <2>7. flatten[n] = J[n]
    <3>1. n \in T
      <4> HIDE DEF T
      <4> QED BY <1>1, <2>6
    <3> QED BY <1>3, <3>1
  <2> QED BY <2>1, <2>7 DEF J, n
<1> QED BY <1>2, <1>3

(* The first lines are a prefix of all of them. *)
LEMMA JoinedPrefix ==
  ASSUME NEW S, NEW l \in Seq(Seq(S)), NEW k \in 0 .. Len(l)
  PROVE  Seqs!IsPrefix(Joined(l)[k], Joined(l)[Len(l)])
<1> DEFINE n == Len(l)
           J == Joined(l)
           s == J[k]
           T == {m \in Nat : m >= k =>
                   /\ Len(s) <= Len(J[m])
                   /\ \A i \in 1 .. Len(s) : J[m][i] = s[i]}
<1>1. /\ n \in Nat /\ J \in [0 .. n -> Seq(S)] /\ J[0] = <<>>
      /\ \A i \in 1 .. n : J[i] = J[i - 1] \o l[i]
      /\ \A i \in 1 .. n : l[i] \in Seq(S)
  BY JoinedLoop
<1> HIDE DEF J
<1>2. s \in Seq(S) /\ Len(s) \in Nat /\ k \in 0 .. n
  <2>1. s \in Seq(S)
    BY <1>1, Zenon
  <2> HIDE DEF s
  <2> QED BY <2>1
<1> HIDE DEF s, n
<1>3. 0 \in T
  <2>1. CASE k = 0
    BY <1>1, <1>2, <2>1 DEF s
  <2>2. CASE k # 0
    BY <1>2, <2>2
  <2> QED BY <2>1, <2>2
<1>4. ASSUME NEW m \in 0 .. n - 1, m \in T PROVE m + 1 \in T
  <2>1. m + 1 \in 1 .. n /\ m + 1 \in 0 .. n /\ m \in 0 .. n /\ (m + 1) - 1 = m /\ m + 1 \in Nat
    BY <1>1
  <2>2. PICK a \in Seq(S), c \in Seq(S) : a = J[m] /\ c = l[m + 1]
    BY <1>1, <2>1
  <2>3. J[m + 1] = a \o c
    BY <1>1, <2>1, <2>2
  <2>4. CASE k <= m
    <3>1. Len(s) <= Len(a) /\ \A i \in 1 .. Len(s) : a[i] = s[i]
      BY <1>2, <1>4, <2>1, <2>2, <2>4
    <3>2. /\ Len(a \o c) = Len(a) + Len(c) /\ Len(a) \in Nat /\ Len(c) \in Nat
          /\ \A i \in 1 .. Len(a) : (a \o c)[i] = a[i]
      OBVIOUS
    <3>3. Len(s) <= Len(a \o c)
      BY <1>2, <3>1, <3>2
    <3>4. ASSUME NEW i \in 1 .. Len(s) PROVE (a \o c)[i] = s[i]
      <4>1. i \in 1 .. Len(a)
        BY <1>2, <3>1, <3>2
      <4> QED BY <3>1, <3>2, <4>1
    <3> QED BY <2>1, <2>3, <3>3, <3>4
  <2>5. CASE k = m + 1
    <3>1. J[m + 1] = s
      BY <2>5 DEF s
    <3> QED BY <1>2, <2>1, <3>1
  <2>6. CASE k > m + 1
    BY <1>2, <2>1, <2>6
  <2> QED BY <1>2, <2>1, <2>4, <2>5, <2>6
<1>5. n \in T
  <2>1. \A m \in 0 .. n - 1 : m \in T => m + 1 \in T
    BY <1>4
  <2> HIDE DEF T
  <2>2. \A m \in 0 .. n : m \in T
    BY <1>1, <1>3, <2>1, SetInduction
  <2> QED BY <1>1, <2>2
<1>6. PICK t \in Seq(S) : t = J[n]
  BY <1>1
<1>7. Len(s) <= Len(t) /\ \A i \in 1 .. Len(s) : t[i] = s[i]
  BY <1>1, <1>2, <1>5, <1>6
<1>8. SubSeq(s, 1, Len(s)) = SubSeq(t, 1, Len(s))
  <2>1. PICK z \in Nat : z = Len(s)
    BY <1>2
  <2>2. z \in 0 .. Len(s) /\ z \in 0 .. Len(t)
    BY <1>2, <1>6, <1>7, <2>1
  <2>3. PICK u \in Seq(S) :
          u = SubSeq(s, 1, z) /\ Len(u) = z /\ \A i \in 1 .. z : u[i] = s[i]
    <3>1. /\ SubSeq(s, 1, z) \in Seq(S) /\ Len(SubSeq(s, 1, z)) = z
          /\ \A i \in 1 .. z : SubSeq(s, 1, z)[i] = s[i]
      BY <1>2, <2>2, PrefixOf, Zenon
    <3> QED BY <3>1, Zenon
  <2>4. PICK v \in Seq(S) :
          v = SubSeq(t, 1, z) /\ Len(v) = z /\ \A i \in 1 .. z : v[i] = t[i]
    <3>1. /\ SubSeq(t, 1, z) \in Seq(S) /\ Len(SubSeq(t, 1, z)) = z
          /\ \A i \in 1 .. z : SubSeq(t, 1, z)[i] = t[i]
      BY <2>2, PrefixOf, Zenon
    <3> QED BY <3>1, Zenon
  <2>5. u = v
    BY <1>7, <2>1, <2>3, <2>4, SeqEqual
  <2> QED BY <2>1, <2>3, <2>4, <2>5
<1> QED BY <1>6, <1>7, <1>8 DEF Seqs!IsPrefix, s, J, n

-----------------------------------------------------------------------------
(* The lines are sequences of cells, as long as their entries say. *)
LEMMA LinesAre ==
  ASSUME DeviceInv, loaded
  PROVE  /\ Lines \in Seq(Seq(Cells)) /\ Len(Lines) = Count(circular_buffer)
         /\ Count(circular_buffer) \in Nat
         /\ \A i \in 1 .. Count(circular_buffer) :
              /\ Lines[i] = heap[Contents(circular_buffer)[i].buffptr]
              /\ Len(Lines[i]) = Contents(circular_buffer)[i].size
<1>1. RingShape(circular_buffer, Entry)
  BY DEF DeviceInv, TypeOK, SlotsInv, RingShape
<1>2. PICK n \in Nat : n = Count(circular_buffer)
  BY <1>1, ContentsIsSeq, MaxOpsAssumption
<1>3. heap \in [Blocks -> Seq(Cells) \cup {FREE}]
  BY DeviceTypes DEF DeviceInv
<1>4. \A i \in 1 .. n :
        /\ heap[Contents(circular_buffer)[i].buffptr] \in Seq(Cells)
        /\ Len(heap[Contents(circular_buffer)[i].buffptr]) = Contents(circular_buffer)[i].size
  BY <1>2, <1>3, MemorySafeHolds DEF MemorySafe, Stored
<1>5. Lines = [i \in 1 .. n |-> heap[Contents(circular_buffer)[i].buffptr]]
  BY <1>2 DEF Lines
<1>6. Lines \in Seq(Seq(Cells)) /\ Len(Lines) = n
  BY <1>4, <1>5
<1> QED BY <1>2, <1>4, <1>5, <1>6

(* The same of the next state. *)
LEMMA LinesAreNext == DeviceInv' /\ loaded' => Lines' \in Seq(Seq(Cells))
<1>1. DeviceInv /\ loaded => Lines \in Seq(Seq(Cells))
  BY LinesAre
<1>2. (DeviceInv /\ loaded => Lines \in Seq(Seq(Cells)))'
  BY <1>1, PTL
<1> QED BY <1>2 DEF Cells, Bytes

(* The i oldest lines have as many bytes as the position behind them says. *)
LEMMA JoinedLength ==
  ASSUME DeviceInv, SizeInv, BuffersSuffice, loaded
  PROVE  \A i \in 0 .. Count(circular_buffer) :
           /\ Joined(Lines)[i] \in Seq(Cells)
           /\ Len(Joined(Lines)[i]) = Before(i)
<1> DEFINE n == Count(circular_buffer)
           J == Joined(Lines)
           s == Starts(circular_buffer)
           T == {i \in Nat : Len(J[i]) = s[i]}
<1>1. Searchable
  BY BufferReady
<1>2. /\ n \in Nat /\ Len(Lines) = n /\ Lines \in Seq(Seq(Cells))
      /\ \A i \in 1 .. n : Len(Lines[i]) = Contents(circular_buffer)[i].size
  BY LinesAre
<1>3. /\ J \in [0 .. n -> Seq(Cells)] /\ J[0] = <<>>
      /\ \A i \in 1 .. n : J[i] = J[i - 1] \o Lines[i]
  BY <1>2, JoinedLoop
<1>4. s[0] = 0 /\ \A i \in Slots : s[i + 1] = s[i] + peek(circular_buffer, i).size
  BY <1>1, StartsAreSums DEF Searchable
<1>5. \A i \in 0 .. n - 1 : /\ i \in Slots
                            /\ Contents(circular_buffer)[i + 1] = peek(circular_buffer, i)
  BY <1>1, StoredHaveBytes DEF Searchable
<1> HIDE DEF J, s, n
<1>6. ASSUME NEW i \in 0 .. n - 1, i \in T PROVE i + 1 \in T
  <2>1. i + 1 \in 1 .. n /\ (i + 1) - 1 = i /\ i \in 0 .. n
    BY <1>2
  <2>2. PICK a \in Seq(Cells), c \in Seq(Cells) : a = J[i] /\ c = Lines[i + 1]
    <3>1. J[i] \in Seq(Cells)
      BY <1>3, <2>1
    <3>2. Lines[i + 1] \in Seq(Cells)
      BY <1>2, <2>1, JoinedLoop
    <3> QED BY <3>1, <3>2
  <2>3. J[i + 1] = a \o c
    BY <1>3, <2>1, <2>2
  <2>4. Len(a) = s[i] /\ Len(c) = Contents(circular_buffer)[i + 1].size
    BY <1>2, <1>6, <2>1, <2>2
  <2>5. Contents(circular_buffer)[i + 1] = peek(circular_buffer, i)
        /\ s[i + 1] = s[i] + peek(circular_buffer, i).size
    BY <1>4, <1>5
  <2>6. Len(a \o c) = Len(a) + Len(c)
    OBVIOUS
  <2>7. Len(J[i + 1]) = s[i + 1]
    BY <2>3, <2>4, <2>5, <2>6
  <2> QED BY <2>1, <2>7
<1>7. \A i \in 0 .. n : i \in T
  <2>1. 0 \in T /\ \A i \in 0 .. n - 1 : i \in T => i + 1 \in T
    BY <1>3, <1>4, <1>6
  <2> HIDE DEF T
  <2> QED BY <1>2, <2>1, SetInduction
<1> QED BY <1>3, <1>7 DEF Before, J, s, n

-----------------------------------------------------------------------------
(* Where a reader that nobody disturbs stands. *)

(* A reader that stands behind the oldest k lines and finds a line finds   *)
(* the next one.                                                           *)
LEMMA FindsNextLine ==
  ASSUME DeviceInv, SizeInv, BuffersSuffice, loaded,
         NEW k \in 0 .. Count(circular_buffer),
         NEW i \in 1 .. Count(circular_buffer),
         Before(i - 1) <= Before(k), Before(k) < Before(i)
  PROVE  k = i - 1
<1> DEFINE n == Count(circular_buffer)
           s == Starts(circular_buffer)
<1>1. Searchable
  BY BufferReady
<1>2. /\ n \in 0 .. MaxOps /\ MaxOps \in Nat /\ SizeMod \in Nat
      /\ s \in [0 .. MaxOps -> 0 .. SizeMod - 1]
  BY <1>1, PlacesTyped DEF Searchable
<1>3. \A j, m \in 0 .. n : j < m => s[j] < s[m]
  BY <1>1, StartsIncrease DEF Searchable
<1>4. s[i - 1] <= s[k] /\ s[k] < s[i]
  BY DEF Before
<1> HIDE DEF s, n
<1>5. i \in 0 .. n /\ i - 1 \in 0 .. n /\ k \in 0 .. n
  BY <1>2 DEF n
<1>6. s[i] \in Nat /\ s[i - 1] \in Nat /\ s[k] \in Nat
  <2>1. i \in 0 .. MaxOps /\ i - 1 \in 0 .. MaxOps /\ k \in 0 .. MaxOps
    BY <1>2, <1>5
  <2> QED BY <1>2, <2>1
<1>7. ~(k < i - 1)
  <2>1. k < i - 1 => s[k] < s[i - 1]
    BY <1>3, <1>5
  <2> QED BY <1>4, <1>6, <2>1
<1>8. ~(i < k) /\ i # k
  <2>1. i < k => s[i] < s[k]
    BY <1>3, <1>5
  <2> QED BY <1>4, <1>6, <2>1
<1> QED BY <1>2, <1>5, <1>7, <1>8

(* A steady reader is given the line behind the ones it has, and then      *)
(* stands behind that line.                                                *)
LEMMA SteadyKept ==
  ASSUME DeviceInv, DeviceInv', SizeInv, SizeInv', BuffersSuffice,
         HistoryInv, FoundInv, SteadyInv, ReadersNext
  PROVE  SteadyInv'
<1> SUFFICES ASSUME NEW q \in Procs, steady'[q]
             PROVE  \E k \in 0 .. Count(circular_buffer') :
                      /\ f_pos'[q] = Starts(circular_buffer')[k]
                      /\ received'[q] = Joined(Lines')[k]
  BY DEF SteadyInv, Before, Joined
<1>1. Next
  BY DEF ReadersNext
<1>2. \/ pc[q] = "closed" /\ pc'[q] = "idle"
      \/ /\ steady[q] /\ pc[q] # "write_copy" /\ pc'[q] # "closed"
         /\ circular_buffer' = circular_buffer
  BY DEF ReadersNext
<1>3. received'[q] = IF pc[q] = "read_copy" /\ pc'[q] = "idle"
                       THEN received[q] \o userbuf'[q] ELSE received[q]
  BY DEF ReadersNext
<1>4. pc'[q] # "closed" /\ loaded'
  BY <1>2, OpenIsLoadedNext
<1>5. CASE pc[q] = "closed" /\ pc'[q] = "idle"
  <2>1. f_pos'[q] = 0
    <3>1. f_pos[q] = 0
      BY <1>5 DEF HistoryInv
    <3> QED BY <1>1, <1>5, <3>1, ProcessSteps
        DEF Rests, Opens, Releases, Proceeds, Finds, aesd_read_copy
  <2>2. received'[q] = <<>>
    BY <1>3, <1>5 DEF HistoryInv
  <2>3. Searchable'
    BY <1>4, BufferReadyNext
  <2>4. Starts(circular_buffer')[0] = 0
    BY <2>3, StartsAreSums DEF Searchable
  <2>5. 0 \in 0 .. Count(circular_buffer')
    BY <2>3, ContentsIsSeq DEF Searchable
  <2>6. Lines' \in Seq(Seq(Cells))
    BY <1>4, LinesAreNext
  <2>7. Joined(Lines')[0] = <<>>
    BY <2>6, JoinedLoop
  <2> QED BY <2>1, <2>2, <2>4, <2>5, <2>7
<1>6. CASE /\ steady[q] /\ pc[q] # "write_copy" /\ pc'[q] # "closed"
           /\ circular_buffer' = circular_buffer
  <2>1. UNCHANGED <<loaded, Lines>>
    BY <1>1, <1>6, LineSteps DEF Gains
  <2>2. loaded
    BY <1>4, <2>1
  <2>3. PICK k \in 0 .. Count(circular_buffer) :
          f_pos[q] = Before(k) /\ received[q] = Joined(Lines)[k]
    BY <1>6 DEF SteadyInv
  <2>4. CASE aesd_read_copy(q)
    <3>1. /\ pc[q] = "read_copy" /\ pc'[q] = "idle"
          /\ f_pos'[q] = f_pos[q] + buffer_entry[q].size
          /\ userbuf'[q] = heap[buffer_entry[q].buffptr]
      BY <2>4, ReadCopyEffect
    <3>2. PICK i \in 1 .. Count(circular_buffer) :
            /\ buffer_entry[q] = Contents(circular_buffer)[i]
            /\ Before(i - 1) <= f_pos[q] /\ f_pos[q] < Before(i)
      BY <3>1 DEF FoundInv
    <3>3. k = i - 1
      BY <2>2, <2>3, <3>2, FindsNextLine
    <3>4. userbuf'[q] = Lines[i] /\ Len(Lines[i]) = buffer_entry[q].size
      BY <2>2, <3>1, <3>2, LinesAre
    <3>5. Joined(Lines)[i] = Joined(Lines)[i - 1] \o Lines[i]
      BY <2>2, LinesAre, JoinedLoop
    <3>6. received'[q] = Joined(Lines)[i]
      BY <1>3, <2>3, <3>1, <3>3, <3>4, <3>5
    <3>7. Before(i) = Before(i - 1) + buffer_entry[q].size
      <4>1. Searchable
        BY <2>2, BufferReady
      <4>2. Count(circular_buffer) \in 0 .. MaxOps /\ MaxOps \in Nat
        BY <4>1, ContentsIsSeq, MaxOpsAssumption DEF Searchable
      <4>3. i - 1 \in Slots /\ (i - 1) + 1 = i
        BY <4>2 DEF Slots
      <4>4. Contents(circular_buffer)[i] = peek(circular_buffer, i - 1)
        BY DEF Contents
      <4> QED BY <3>2, <4>1, <4>3, <4>4, StartsAreSums DEF Searchable, Before
    <3>8. f_pos'[q] = Starts(circular_buffer)[i]
      BY <2>3, <3>1, <3>3, <3>7 DEF Before
    <3>9. i \in 0 .. Count(circular_buffer)
      BY <2>2, LinesAre
    <3> QED BY <1>6, <2>1, <3>6, <3>8, <3>9
  <2>5. CASE ~aesd_read_copy(q)
    <3>1. f_pos'[q] = f_pos[q] /\ ~(pc[q] = "read_copy" /\ pc'[q] = "idle")
      BY <1>1, <1>6, <2>5, ProcessSteps DEF Rests, Opens, Releases, Proceeds, Finds
    <3> QED BY <1>3, <1>6, <2>1, <2>3, <3>1 DEF Before
  <2> QED BY <2>4, <2>5
<1> QED BY <1>2, <1>5, <1>6

-----------------------------------------------------------------------------
(* What the search returns for a line is not NULL. *)
LEMMA FoundIsNotNull ==
  ASSUME DeviceInv, SizeInv, BuffersSuffice, loaded, NEW pos \in Nat
  PROVE  find_entry_offset_for_fpos(circular_buffer, pos) = NULL
           <=> ~(pos < Before(Count(circular_buffer)))
<1> DEFINE b == circular_buffer
           s == Starts(b)
<1>1. Searchable
  BY BufferReady
<1>2. /\ Count(b) \in 0 .. MaxOps /\ MaxOps \in Nat /\ SizeMod \in Nat
      /\ s \in [0 .. MaxOps -> 0 .. SizeMod - 1]
  BY <1>1, PlacesTyped DEF Searchable
<1>3. CASE pos < s[Count(b)]
  <2>1. PICK i \in 0 .. Count(b) - 1 :
          /\ s[i] <= pos /\ pos < s[i + 1]
          /\ find_entry_offset_for_fpos(b, pos) =
               [entry |-> Contents(b)[i + 1], offset |-> pos - s[i]]
    BY <1>1, <1>3, FindsByPosition DEF Searchable
  <2> HIDE DEF s
  <2>2. pos - s[i] \in 0 .. SizeMod - 1
    <3>1. i \in 0 .. MaxOps /\ i + 1 \in 0 .. MaxOps
      BY <1>2
    <3>2. s[i] \in 0 .. SizeMod - 1 /\ s[i + 1] \in 0 .. SizeMod - 1
      BY <1>2, <3>1
    <3> QED BY <1>2, <2>1, <3>2
  <2>3. Contents(b)[i + 1] \in [buffptr : Pointers, size : 0 .. MaxLine]
    <3>1. i \in Slots /\ i + 1 \in 1 .. Count(b) /\ Contents(b)[i + 1] = peek(b, i)
      BY <1>1, StoredHaveBytes DEF Searchable
    <3>2. peek(b, i).size \in 0 .. MaxLine
      BY <1>1, <3>1 DEF Searchable, SizesBounded
    <3>3. Contents(b)[i + 1] \in Entry
      BY <1>1, <3>1, ContentsIsSeq DEF Searchable
    <3>4. PICK e \in Entry : e = Contents(b)[i + 1] /\ e.size \in 0 .. MaxLine
      BY <3>1, <3>2, <3>3
    <3>5. e \in [buffptr : Pointers, size : 0 .. MaxLine]
      BY <3>4 DEF Entry
    <3> QED BY <3>4, <3>5
  <2>4. find_entry_offset_for_fpos(b, pos) \in
          [entry  : [buffptr : Pointers, size : 0 .. MaxLine], offset : 0 .. SizeMod - 1]
    BY <2>1, <2>2, <2>3
  <2>5. find_entry_offset_for_fpos(b, pos) # NULL
    BY <2>4, NullAssumption
  <2> QED BY <1>3, <2>5 DEF Before, s
<1>4. CASE ~(pos < s[Count(b)])
  BY <1>1, <1>4, FindsByPosition DEF Searchable, Before
<1> QED BY <1>3, <1>4

(* A reader behind the oldest k lines has received them; the search has    *)
(* nothing for it exactly when these are all.                              *)
LEMMA SeeLinesHolds ==
  ASSUME DeviceInv, SizeInv, BuffersSuffice, HistoryInv, SteadyInv
  PROVE  ReadsSeeLines
<1> SUFFICES ASSUME NEW q \in Procs, pc[q] # "closed", steady[q]
             PROVE  /\ Seqs!IsPrefix(received[q], Seqs!FlattenSeq(Lines))
                    /\ find_entry_offset_for_fpos(circular_buffer, f_pos[q]) = NULL
                         <=> received[q] = Seqs!FlattenSeq(Lines)
  BY DEF ReadsSeeLines
<1> DEFINE n == Count(circular_buffer)
           s == Starts(circular_buffer)
           J == Joined(Lines)
<1>1. loaded
  BY OpenIsLoaded
<1>2. Lines \in Seq(Seq(Cells)) /\ Len(Lines) = n /\ n \in Nat
  BY <1>1, LinesAre
<1>3. Seqs!FlattenSeq(Lines) = J[n]
  BY <1>2, FlattenIsJoined
<1>4. PICK k \in 0 .. n : f_pos[q] = s[k] /\ received[q] = J[k]
  BY DEF SteadyInv, Before
<1>5. Seqs!IsPrefix(received[q], J[n])
  BY <1>2, <1>4, JoinedPrefix
<1>6. Len(J[k]) = s[k] /\ Len(J[n]) = s[n]
  BY <1>1, <1>2, JoinedLength DEF Before
<1>7. Searchable
  BY <1>1, BufferReady
<1>8. \A i, j \in 0 .. n : i < j => s[i] < s[j]
  BY <1>7, StartsIncrease DEF Searchable
<1>9. s[k] \in Nat /\ s[n] \in Nat
  <2>1. /\ s \in [0 .. MaxOps -> 0 .. SizeMod - 1] /\ n \in 0 .. MaxOps
        /\ MaxOps \in Nat /\ SizeMod \in Nat
    BY <1>7, PlacesTyped DEF Searchable
  <2> HIDE DEF s, n
  <2>2. k \in 0 .. MaxOps
    BY <2>1
  <2> QED BY <2>1, <2>2
<1>10. find_entry_offset_for_fpos(circular_buffer, f_pos[q]) = NULL <=> ~(s[k] < s[n])
  BY <1>1, <1>4, <1>9, FoundIsNotNull DEF Before
<1> HIDE DEF s, n, J
<1>11. CASE k = n
  BY <1>3, <1>4, <1>5, <1>9, <1>10, <1>11
<1>12. CASE k # n
  <2>1. k < n /\ n \in 0 .. n
    BY <1>2, <1>12
  <2>2. s[k] < s[n]
    BY <1>8, <2>1
  <2>3. J[k] # J[n]
    BY <1>6, <1>9, <2>2
  <2> QED BY <1>3, <1>4, <1>5, <1>10, <2>2, <2>3
<1> QED BY <1>11, <1>12

-----------------------------------------------------------------------------
(* The histories are right in every state of ReadersSpec. *)
ReadersInv == SizeInv /\ HistoryInv /\ FoundInv /\ SeenInv /\ SteadyInv

(* No process has the device open at first. *)
LEMMA ReadersStart == ReadersInit => ReadersInv
<1> SUFFICES ASSUME ReadersInit PROVE ReadersInv
  OBVIOUS
<1>1. SizeInv
  BY SizeInit DEF ReadersInit
<1>2. HistoryInv
  BY DEF ReadersInit, Init, HistoryInv
<1>3. FoundInv /\ SeenInv /\ SteadyInv
  BY DEF ReadersInit, Init, FoundInv, SeenInv, SteadyInv
<1> QED BY <1>1, <1>2, <1>3 DEF ReadersInv

(* Every step keeps them right. *)
LEMMA ReadersKept ==
  ASSUME BuffersSuffice, DeviceInv, DeviceInv', ReadersInv, [ReadersNext]_readers
  PROVE  ReadersInv'
<1>1. SizeInv'
  <2>1. [Next]_vars
    BY DEF ReadersNext, readers
  <2> QED BY <2>1, SizeKept DEF ReadersInv
<1>2. CASE ReadersNext
  <2>1. Next
    BY <1>2 DEF ReadersNext
  <2> QED BY <1>1, <1>2, <2>1, HistoryKept, FoundKept, SeenKept, SteadyKept DEF ReadersInv
<1>3. CASE UNCHANGED readers
  <2>1. /\ UNCHANGED <<loaded, circular_buffer, staging, device_mutex, heap>>
        /\ UNCHANGED <<pc, count, buffer_entry, f_pos, userbuf>>
        /\ UNCHANGED <<steady, received, seen>>
    BY <1>3 DEF readers, vars, history, device, caller, stack
  <2>2. HistoryInv'
    BY <2>1 DEF ReadersInv, HistoryInv, Cells, Bytes
  <2>3. UNCHANGED Lines
    BY <2>1 DEF Lines, Count, Contents, peek
  <2>4. FoundInv' /\ SeenInv'
    BY <2>1 DEF ReadersInv, FoundInv, SeenInv, Before
  <2>5. SteadyInv'
    <3> SUFFICES ASSUME NEW q \in Procs, steady'[q]
                 PROVE  \E k \in 0 .. Count(circular_buffer') :
                          /\ f_pos'[q] = Starts(circular_buffer')[k]
                          /\ received'[q] = Joined(Lines')[k]
      BY DEF SteadyInv, Before, Joined
    <3> QED BY <2>1, <2>3 DEF ReadersInv, SteadyInv, Before
  <2> QED BY <1>1, <2>2, <2>4, <2>5 DEF ReadersInv
<1> QED BY <1>2, <1>3

(* They are right, whichever allocations and writes fail. *)
LEMMA ReadersInductive ==
  ASSUME BuffersSuffice PROVE ReadersSpec => [](DeviceInv /\ ReadersInv)
<1>1. ReadersInit => Init
  BY DEF ReadersInit
<1>2. [ReadersNext]_readers => [Next]_vars
  BY DEF ReadersNext, readers
<1>3. ReadersInit => ReadersInv
  BY ReadersStart
<1>4. DeviceInv /\ DeviceInv' /\ ReadersInv /\ [ReadersNext]_readers => ReadersInv'
  BY ReadersKept
<1> QED BY <1>1, <1>2, <1>3, <1>4, DeviceInductive, PTL DEF ReadersSpec, Spec

(* A reader whose buffer takes any line is never given a line a second     *)
(* time, nor an older one than the last: when the oldest line is evicted   *)
(* between two of its reads, the file position that aesd_read advanced is  *)
(* counted from a later line, and the reader skips lines but does not go   *)
(* back. With a shorter buffer it does: aesd_read copies from the start of *)
(* the entry it finds.                                                     *)
THEOREM LinesNeverRepeat ==
  ASSUME BuffersSuffice PROVE ReadersSpec => []ReadsNeverRepeat
<1>1. DeviceInv /\ ReadersInv => ReadsNeverRepeat
  BY NeverRepeatHolds DEF ReadersInv
<1> QED BY <1>1, ReadersInductive, PTL

(* A reader whose buffer takes any line, and whom nobody disturbs from     *)
(* open on, receives the lines end to end, and aesd_read returns 0, end of *)
(* file, exactly when it has received all of them.                         *)
THEOREM LinesAreSeen ==
  ASSUME BuffersSuffice PROVE ReadersSpec => []ReadsSeeLines
<1>1. DeviceInv /\ ReadersInv => ReadsSeeLines
  BY SeeLinesHolds DEF ReadersInv
<1> QED BY <1>1, ReadersInductive, PTL
=============================================================================
