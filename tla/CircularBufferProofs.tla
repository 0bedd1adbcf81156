------------------------ MODULE CircularBufferProofs ------------------------
(***************************************************************************)
(* For every capacity, every set of entries and every width of size_t: the *)
(* indices of the circular buffer stay inside its array, the full flag and *)
(* the two indices always agree, and the buffer implements RecentLog.      *)
(***************************************************************************)
EXTENDS CircularBufferSpec, CircularBufferLemmas

(* The struct never leaves its type: above all, in_offs and out_offs index *)
(* into the array after any number of calls of add_entry.                  *)
THEOREM TypeCorrect == Spec => []TypeOK
<1>1. Init => TypeOK
  BY MaxOpsAssumption, EntryAssumption
     DEF Init, TypeOK, aesd_circular_buffer_init, NoEntry, Entries, Slots
<1>2. TypeOK /\ [Next]_vars => TypeOK'
  <2> SUFFICES ASSUME TypeOK, [Next]_vars PROVE TypeOK'
    OBVIOUS
  <2>1. CASE UNCHANGED vars
    BY <2>1 DEF TypeOK, vars
  <2>2. ASSUME NEW e \in Entries, Add(e), e.size = 0 PROVE TypeOK'
    BY <2>2 DEF TypeOK, Add, add_entry
  <2>3. ASSUME NEW e \in Entries, Add(e), e.size # 0 PROVE TypeOK'
    <3>1. buffer.in_offs \in Slots /\ next_idx(buffer.in_offs) \in Slots
      BY NextIdxInRange DEF TypeOK
    <3>2. buffer' \in [entry    : [Slots -> Entries \cup {NoEntry}],
                       in_offs  : Slots,
                       out_offs : Slots,
                       full     : BOOLEAN]
      BY <2>3, <3>1 DEF TypeOK, Add, add_entry
    <3>3. buffer.entry[buffer.in_offs] \in Entries \cup {NoEntry}
      BY <3>1 DEF TypeOK
    <3>4. buffer.entry[buffer.in_offs].buffptr \in Buffptrs \cup {NULL}
      BY <3>3 DEF Entries, NoEntry
    <3>5. replaced' = IF buffer.full
                        THEN buffer.entry[buffer.in_offs].buffptr ELSE NULL
      BY <2>3, AddEntryFields, ZenonT(60) DEF Add
    <3> QED BY <3>2, <3>4, <3>5 DEF TypeOK
  <2> QED BY <2>1, <2>2, <2>3 DEF Next
<1> QED BY <1>1, <1>2, PTL DEF Spec

(* The full flag and the indices agree in every reachable state, so that   *)
(* is_empty, and the search that relies on it, answer correctly.           *)
THEOREM RingCorrect == Spec => []RingInv
<1>1. Init => RingInv
  BY MaxOpsAssumption
     DEF Init, RingInv, aesd_circular_buffer_init, NoEntry, Slots
<1>2. TypeOK /\ RingInv /\ [Next]_vars => RingInv'
  <2> SUFFICES ASSUME TypeOK, RingInv, [Next]_vars PROVE RingInv'
    OBVIOUS
  <2>1. CASE UNCHANGED vars
    BY <2>1 DEF RingInv, vars
  <2>2. ASSUME NEW e \in Entries, Add(e), e.size = 0 PROVE RingInv'
    BY <2>2 DEF RingInv, Add, add_entry
  <2>3. ASSUME NEW e \in Entries, Add(e), e.size # 0 PROVE RingInv'
    <3> DEFINE i0 == buffer.in_offs
    <3>1. /\ i0 \in Slots
          /\ next_idx(i0) = IF i0 = MaxOps - 1 THEN 0 ELSE i0 + 1
          /\ buffer.full \in BOOLEAN
      BY NextIdxInRange DEF TypeOK
    <3>2. /\ buffer'.entry = [buffer.entry EXCEPT ![i0] = e]
          /\ buffer'.in_offs = next_idx(i0)
          /\ buffer'.out_offs = IF buffer.full THEN next_idx(i0)
                                               ELSE buffer.out_offs
          /\ buffer'.full = (buffer.full \/ next_idx(i0) = buffer.out_offs)
      BY <2>3, AddEntryFields DEF Add
    <3>3. \A i \in Slots : buffer'.entry[i] = IF i = i0 THEN e
                                                        ELSE buffer.entry[i]
      BY <3>1, <3>2 DEF TypeOK
    <3>4. /\ buffer.full => i0 = buffer.out_offs
          /\ ~buffer.full => buffer.out_offs = 0
      BY DEF RingInv
    <3>5. buffer'.full => buffer'.in_offs = buffer'.out_offs
      BY <3>1, <3>2, <3>4
    <3>6. ~buffer'.full => buffer'.out_offs = 0
      BY <3>1, <3>2, <3>4
    <3>7. ASSUME NEW i \in Slots
          PROVE  (buffer'.full \/ i < buffer'.in_offs)
                   <=> buffer'.entry[i].size # 0
      <4>1. (buffer.full \/ i < i0) <=> buffer.entry[i].size # 0
        BY DEF RingInv
      <4>2. (buffer'.full \/ i < buffer'.in_offs)
              <=> (buffer.full \/ i < i0 \/ i = i0)
        <5>1. CASE buffer.full
          BY <5>1, <3>2
        <5>2. CASE ~buffer.full /\ i0 = MaxOps - 1
          <6>1. buffer'.full
            BY <5>2, <3>1, <3>2, <3>4
          <6>2. i < i0 \/ i = i0
            BY <5>2, MaxOpsAssumption DEF Slots
          <6> QED BY <6>1, <6>2
        <5>3. CASE ~buffer.full /\ i0 # MaxOps - 1
          <6>1. ~buffer'.full /\ buffer'.in_offs = i0 + 1
            BY <5>3, <3>1, <3>2, <3>4 DEF Slots
          <6>2. i < i0 + 1 <=> i < i0 \/ i = i0
            BY <3>1 DEF Slots
          <6> QED BY <5>3, <6>1, <6>2
        <5> QED BY <5>1, <5>2, <5>3
      <4>3. buffer'.entry[i].size # 0 <=> (i = i0 \/ buffer.entry[i].size # 0)
        BY <2>3, <3>3
      <4> QED BY <4>1, <4>2, <4>3
    <3> QED BY <3>5, <3>6, <3>7 DEF RingInv
  <2> QED BY <2>1, <2>2, <2>3 DEF Next
<1> QED BY <1>1, <1>2, TypeCorrect, PTL DEF Spec

(* Whatever is added, in whatever order and however often the indices have *)
(* wrapped: the buffer stands for the newest MaxOps entries, oldest first, *)
(* and add_entry hands back exactly the pointer that dropped out.          *)
THEOREM BufferImplementsLog == Spec => ImplementsRecentLog
<1> DEFINE AllEntries == Entries \cup {NoEntry}
<1>1. Init => Log!Init
  <2> SUFFICES ASSUME Init PROVE Log!Init
    OBVIOUS
  <2>1. Count(buffer) = 0
    BY DEF Init, Count, aesd_circular_buffer_init
  <2>2. Contents(buffer) = <<>>
    BY <2>1 DEF Contents
  <2> QED BY <2>2 DEF Init, Log!Init
<1>2. TypeOK /\ RingInv => RingShape(buffer, AllEntries)
  BY DEF TypeOK, RingInv, RingShape
<1>3. RingShape(buffer, AllEntries) /\ [Next]_vars
        => [Log!Next]_<<Contents(buffer), replaced>>
  <2> SUFFICES ASSUME RingShape(buffer, AllEntries), [Next]_vars
               PROVE  [Log!Next]_<<Contents(buffer), replaced>>
    OBVIOUS
  <2>1. CASE UNCHANGED vars
    BY <2>1 DEF vars, Contents, Count, peek
  <2>2. ASSUME NEW e \in Entries, Add(e), e.size = 0 PROVE Log!Add(e)
    <3>1. buffer' = buffer /\ replaced' = NULL
      BY <2>2 DEF Add, add_entry
    <3>2. Contents(buffer)' = Contents(buffer)
      BY <3>1 DEF Contents, Count, peek
    <3> QED BY <2>2, <3>1, <3>2 DEF Log!Add
  <2>3. ASSUME NEW e \in Entries, Add(e), e.size # 0 PROVE Log!Add(e)
    <3>1. /\ Contents(add_entry(buffer, e).buffer) =
                IF Len(Contents(buffer)) < MaxOps
                  THEN Append(Contents(buffer), e)
                  ELSE Append(Tail(Contents(buffer)), e)
          /\ add_entry(buffer, e).replaced =
                IF Len(Contents(buffer)) < MaxOps
                  THEN NULL
                  ELSE Head(Contents(buffer)).buffptr
      BY <2>3, AddEntryPushes
    <3>2. Contents(buffer)' = Contents(add_entry(buffer, e).buffer)
      BY <2>3 DEF Add, Contents, Count, peek
    <3> QED BY <2>3, <3>1, <3>2 DEF Add, Log!Add, Log!Push
  <2> QED BY <2>1, <2>2, <2>3 DEF Next, Log!Next
<1> QED BY <1>1, <1>2, <1>3, TypeCorrect, RingCorrect, PTL
        DEF Spec, ImplementsRecentLog, Log!Spec

-----------------------------------------------------------------------------
(* The search. *)

(* The definition of EndToEnd has a solution: there are sequences, one for *)
(* each number of entries, each the one before it followed by the bytes of *)
(* the next entry; EndToEnd is the last of them.                           *)
LEMMA EndToEndBuilds ==
  ASSUME TypeOK, RingInv
  PROVE  \E cat \in [0 .. Count(buffer) -> Seq(Nat \X Nat)] :
           /\ cat[0] = <<>>
           /\ \A i \in 1 .. Count(buffer) :
                cat[i] = cat[i - 1] \o
                  [k \in 1 .. Contents(buffer)[i].size |-> <<i, k - 1>>]
           /\ EndToEnd = cat[Count(buffer)]
<1> DEFINE n == Count(buffer)
           S == Seq(Nat \X Nat)
           Piece(i) == [k \in 1 .. Contents(buffer)[i].size |-> <<i, k - 1>>]
           step == [i \in 1 .. n |-> [v \in S |-> v \o Piece(i)]]
           Body(f) == [i \in 0 .. n |-> IF i = 0 THEN <<>>
                                        ELSE f[i - 1] \o Piece(i)]
<1>1. RingShape(buffer, Entries \cup {NoEntry})
  BY DEF TypeOK, RingInv, RingShape
<1>2. /\ n \in 0 .. MaxOps /\ n \in Nat
      /\ Contents(buffer) \in Seq(Entries \cup {NoEntry})
      /\ Len(Contents(buffer)) = n
  BY <1>1, ContentsIsSeq, MaxOpsAssumption
<1>3. ASSUME NEW i \in 1 .. n PROVE Piece(i) \in S
  <2>1. Contents(buffer)[i] \in Entries \cup {NoEntry}
    BY <1>2
  <2>2. Contents(buffer)[i].size \in Nat
    BY <2>1, EntryAssumption DEF Entries, NoEntry
  <2>3. PICK z \in Nat : z = Contents(buffer)[i].size
    BY <2>2
  <2>4. [k \in 1 .. z |-> <<i, k - 1>>] \in Seq(Nat \X Nat)
    BY <1>2
  <2> QED BY <2>3, <2>4
<1> HIDE DEF Piece, S
<1>4. <<>> \in S /\ \A v \in S, i \in 1 .. n : v \o Piece(i) \in S
  BY <1>3 DEF S
<1>5. step \in [1 .. n -> [S -> S]]
  BY <1>4
<1>6. PICK g \in [0 .. n -> S] : LoopTrace(g, n, <<>>, step)
  <2> HIDE DEF step, n
  <2> QED BY <1>2, <1>4, <1>5, LoopValues
<1>7. /\ g[0] = <<>>
      /\ \A i \in 1 .. n : g[i] = g[i - 1] \o Piece(i)
  <2>1. g[0] = <<>> /\ \A i \in 1 .. n : g[i] = step[i][g[i - 1]]
    BY <1>6, Zenon DEF LoopTrace
  <2>2. ASSUME NEW i \in 1 .. n PROVE g[i] = g[i - 1] \o Piece(i)
    <3>1. i - 1 \in 0 .. n
      BY <1>2
    <3>2. g[i - 1] \in S
      BY <3>1
    <3> QED BY <2>1, <3>2
  <2> QED BY <2>1, <2>2
<1>8. g = Body(g)
  <2>1. ASSUME NEW i \in 0 .. n
        PROVE  g[i] = IF i = 0 THEN <<>> ELSE g[i - 1] \o Piece(i)
    <3>1. i = 0 \/ (i # 0 /\ i \in 1 .. n)
      BY <1>2
    <3> QED BY <3>1, <1>7, Zenon
  <2>2. g = [i \in 0 .. n |-> g[i]]
    OBVIOUS
  <2> QED BY <2>1, <2>2, Zenon
<1> DEFINE f == CHOOSE h : h = Body(h)
<1>9. f = Body(f)
  <2> HIDE DEF Body
  <2> QED BY <1>8, Zenon
<1>10. EndToEnd = f[n]
  BY DEF EndToEnd, Piece
<1> HIDE DEF f
<1>11. f[0] = <<>> /\ \A i \in 1 .. n : f[i] = f[i - 1] \o Piece(i)
  <2>1. f[0] = <<>>
    BY <1>2, <1>9
  <2>2. ASSUME NEW i \in 1 .. n PROVE f[i] = f[i - 1] \o Piece(i)
    <3>1. i \in 0 .. n /\ i # 0
      BY <1>2
    <3> QED BY <3>1, <1>9
  <2> QED BY <2>1, <2>2
<1>12. f \in [0 .. n -> S]
  <2> DEFINE T == {i \in Nat : f[i] \in S}
  <2>1. 0 \in T
    BY <1>11, <1>4
  <2>2. ASSUME NEW i \in 0 .. n - 1, i \in T PROVE i + 1 \in T
    <3>1. i + 1 \in 1 .. n /\ (i + 1) - 1 = i
      BY <1>2
    <3>2. f[i + 1] = f[i] \o Piece(i + 1)
      BY <3>1, <1>11
    <3>3. f[i] \in S
      BY <2>2
    <3>4. f[i + 1] \in S
      BY <3>1, <3>2, <3>3, <1>4
    <3>5. i + 1 \in Nat
      BY <3>1
    <3> QED BY <3>4, <3>5
  <2>3. \A i \in 0 .. n : i \in T
    <3>1. \A i \in 0 .. n - 1 : i \in T => i + 1 \in T
      BY <2>2
    <3> HIDE DEF T, n
    <3> QED BY <1>2, <2>1, <3>1, SetInduction
  <2>4. f = [i \in 0 .. n |-> f[i]]
    BY <1>9
  <2>5. \A i \in 0 .. n : f[i] \in S
    BY <2>3
  <2> HIDE DEF n, Body
  <2> QED BY <2>4, <2>5
<1> QED
  <2>1. \A i \in 1 .. n : f[i] = f[i - 1] \o
                  [k \in 1 .. Contents(buffer)[i].size |-> <<i, k - 1>>]
    BY <1>11 DEF Piece
  <2>2. f \in [0 .. n -> Seq(Nat \X Nat)]
    BY <1>12 DEF S
  <2> QED BY <2>1, <2>2, <1>10, <1>11

(* The buffer is one the lemmas about the search are about.                *)
LEMMA BufferIsBounded ==
  ASSUME TypeOK, RingInv, SizesFit
  PROVE  /\ RingShape(buffer, Entries \cup {NoEntry})
         /\ UsedHaveBytes(buffer)
         /\ SizesBounded(buffer, MaxSize)
<1>1. RingShape(buffer, Entries \cup {NoEntry})
  BY DEF TypeOK, RingInv, RingShape
<1>2. ASSUME NEW i \in Slots PROVE peek(buffer, i).size \in 0 .. MaxSize
  <2>1. buffer.out_offs \in Slots /\ buffer.entry \in [Slots -> Entries \cup {NoEntry}]
    BY DEF TypeOK
  <2>2. (buffer.out_offs + i) % MaxOps \in Slots
    BY <2>1, MaxOpsAssumption, Z3 DEF Slots
  <2>3. peek(buffer, i) \in Entries \cup {NoEntry}
    BY <2>1, <2>2 DEF peek
  <2> QED BY <2>3, EntryAssumption DEF Entries, NoEntry
<1>3. SizesBounded(buffer, MaxSize)
  BY <1>2, EntryAssumption DEF SizesBounded, SizesFit
<1>4. UsedHaveBytes(buffer)
  BY DEF RingInv, UsedHaveBytes
<1> QED BY <1>1, <1>3, <1>4

(* EndToEnd is as long as the entries together, and byte k of entry i is   *)
(* where the search starts that entry, k bytes on.                         *)
LEMMA EndToEndIndexed ==
  ASSUME TypeOK, RingInv, SizesFit
  PROVE  /\ Len(EndToEnd) = Starts(buffer)[Count(buffer)]
         /\ \A i \in 0 .. Count(buffer) - 1 :
              /\ Starts(buffer)[i] + peek(buffer, i).size
                   <= Starts(buffer)[Count(buffer)]
              /\ \A k \in 0 .. peek(buffer, i).size - 1 :
                   EndToEnd[Starts(buffer)[i] + k + 1] = <<i + 1, k>>
<1> DEFINE n == Count(buffer)
           s == Starts(buffer)
           z(i) == peek(buffer, i).size
           Piece(i) == [k \in 1 .. Contents(buffer)[i].size |-> <<i, k - 1>>]
<1>1. RingShape(buffer, Entries \cup {NoEntry})
  BY DEF TypeOK, RingInv, RingShape
<1>2. n \in 0 .. MaxOps /\ n \in Nat /\ MaxOps \in Nat
  <2>1. n \in 0 .. MaxOps
    BY <1>1, ContentsIsSeq
  <2>2. MaxOps \in Nat
    BY MaxOpsAssumption
  <2> HIDE DEF n
  <2> QED BY <2>1, <2>2
<1>3. /\ \A i \in 0 .. MaxOps : s[i] \in Nat
      /\ s[0] = 0
      /\ \A i \in Slots : s[i + 1] = s[i] + z(i) /\ z(i) \in Nat
  <2>1. /\ s \in [0 .. MaxOps -> 0 .. SizeMod - 1]
        /\ s[0] = 0
        /\ \A i \in Slots : s[i + 1] = s[i] + z(i)
    BY BufferIsBounded, StartsAreSums
  <2>2. \A i \in Slots : z(i) \in Nat
    BY BufferIsBounded, StartsAreSums DEF Sized
  <2>3. \A i \in 0 .. MaxOps : s[i] \in Nat
    BY <2>1, SizeModAssumption
  <2> QED BY <2>1, <2>2, <2>3
<1>4. PICK cat \in [0 .. n -> Seq(Nat \X Nat)] :
        /\ cat[0] = <<>>
        /\ \A i \in 1 .. n : cat[i] = cat[i - 1] \o Piece(i)
        /\ EndToEnd = cat[n]
  BY EndToEndBuilds
<1> DEFINE Good(m) ==
             /\ Len(cat[m]) = s[m]
             /\ \A i \in 0 .. m - 1 :
                  /\ s[i] + z(i) <= s[m]
                  /\ \A k \in 0 .. z(i) - 1 : cat[m][s[i] + k + 1] = <<i + 1, k>>
           T == {m \in Nat : Good(m)}
<1>5. 0 \in T
  <2>1. Len(cat[0]) = s[0]
    BY <1>3, <1>4
  <2> QED BY <2>1
<1>6. ASSUME NEW m \in 0 .. n - 1, Good(m) PROVE Good(m + 1)
  <2>1. m \in Slots /\ m + 1 \in 1 .. n /\ m \in 0 .. n /\ m + 1 \in 0 .. n
        /\ (m + 1) - 1 = m /\ m \in Nat
    BY <1>2 DEF Slots
  <2>2. Contents(buffer)[m + 1] = peek(buffer, m)
    BY <2>1 DEF Contents
  <2>3. PICK p : p = [k \in 1 .. z(m) |-> <<m + 1, k - 1>>]
    OBVIOUS
  <2>4. cat[m + 1] = cat[m] \o p
    BY <1>4, <2>1, <2>2, <2>3
  <2>5. z(m) \in Nat /\ s[m] \in Nat /\ s[m + 1] = s[m] + z(m)
    BY <1>2, <1>3, <2>1
  <2>6. PICK c \in Seq(Nat \X Nat) : c = cat[m]
    BY <2>1
  <2>7. PICK w \in Nat : w = z(m)
    BY <2>5
  <2>8. p \in Seq(Nat \X Nat) /\ Len(p) = w /\ \A k \in 1 .. w : p[k] = <<m + 1, k - 1>>
    <3>1. p = [k \in 1 .. w |-> <<m + 1, k - 1>>]
      BY <2>3, <2>7
    <3>2. p \in [1 .. w -> Nat \X Nat]
      BY <3>1, <2>1
    <3>3. p \in Seq(Nat \X Nat) /\ Len(p) = w
      BY <3>2
    <3> QED BY <3>1, <3>3
  <2>9. Len(c) = s[m] /\ Len(c \o p) = s[m + 1]
    <3>1. Len(cat[m]) = s[m]
      BY <1>6
    <3>2. Len(c \o p) = Len(c) + Len(p)
      BY <2>8, ConcatProperties
    <3> QED BY <3>1, <3>2, <2>5, <2>6, <2>7, <2>8
  <2>10. Len(cat[m + 1]) = s[m + 1]
    BY <2>4, <2>6, <2>9
  <2>11. ASSUME NEW i \in 0 .. m
         PROVE  /\ s[i] + z(i) <= s[m + 1]
                /\ \A k \in 0 .. z(i) - 1 : cat[m + 1][s[i] + k + 1] = <<i + 1, k>>
    <3>1. i \in Slots /\ i \in 0 .. MaxOps
      BY <1>2, <2>1 DEF Slots
    <3>2. s[i] \in Nat /\ z(i) \in Nat
      BY <1>3, <3>1
    <3>3. CASE i = m
      <4>1. s[i] + z(i) <= s[m + 1]
        BY <3>2, <3>3, <2>5
      <4>2. ASSUME NEW k \in 0 .. z(i) - 1
            PROVE  cat[m + 1][s[i] + k + 1] = <<i + 1, k>>
        <5>1. k + 1 \in 1 .. w /\ (k + 1) - 1 = k /\ k \in Nat
          BY <3>2, <3>3, <2>7
        <5>2. (c \o p)[Len(c) + (k + 1)] = p[k + 1]
          BY <5>1, <2>8
        <5>3. Len(c) + (k + 1) = s[i] + k + 1
          <6>1. PICK a \in Nat : a = s[i]
            BY <3>2
          <6>2. Len(c) = a
            BY <6>1, <2>9, <3>3
          <6>3. a + (k + 1) = a + k + 1
            BY <5>1
          <6> QED BY <6>1, <6>2, <6>3
        <5> QED BY <5>1, <5>2, <5>3, <2>4, <2>6, <2>8, <3>3
      <4> QED BY <4>1, <4>2
    <3>4. CASE i # m
      <4>1. i \in 0 .. m - 1
        BY <3>4, <2>1
      <4>2. s[i] + z(i) <= s[m]
        BY <4>1, <1>6
      <4>3. s[i] + z(i) <= s[m + 1]
        BY <4>2, <3>2, <2>5
      <4>4. ASSUME NEW k \in 0 .. z(i) - 1
            PROVE  cat[m + 1][s[i] + k + 1] = <<i + 1, k>>
        <5>1. s[i] + k + 1 \in 1 .. Len(c)
          <6>1. PICK a \in Nat, y \in Nat, l \in Nat :
                  a = s[i] /\ y = z(i) /\ l = Len(c)
            BY <3>2
          <6>2. k \in 0 .. y - 1 /\ a + y <= l
            BY <6>1, <4>2, <2>9
          <6>3. a + k + 1 \in 1 .. l
            BY <6>2
          <6> QED BY <6>1, <6>3
        <5>2. (c \o p)[s[i] + k + 1] = c[s[i] + k + 1]
          BY <5>1, <2>8
        <5>3. cat[m][s[i] + k + 1] = <<i + 1, k>>
          BY <4>1, <1>6
        <5> QED BY <5>2, <5>3, <2>4, <2>6
      <4> QED BY <4>3, <4>4
    <3> QED BY <3>3, <3>4
  <2> QED BY <2>1, <2>10, <2>11
<1>7. n \in T
  <2>1. \A m \in 0 .. n - 1 : m \in T => m + 1 \in T
    <3> HIDE DEF Good, n
    <3> QED BY <1>2, <1>6
  <2> HIDE DEF T, n
  <2>2. \A m \in 0 .. n : m \in T
    BY <1>2, <1>5, <2>1, SetInduction
  <2> QED BY <1>2, <2>2
<1> QED BY <1>4, <1>7

(* The search finds, for every position, the byte that stands there when   *)
(* the entries are laid end to end, and NULL behind the last one; the only *)
(* condition is that so many bytes can be counted by a size_t.             *)
THEOREM SearchCorrect ==
  ASSUME SizesFit
  PROVE  Spec => []FindMatchesConcatenation
<1>1. ASSUME TypeOK, RingInv PROVE FindMatchesConcatenation
  <2> DEFINE n == Count(buffer)
             s == Starts(buffer)
             z(i) == peek(buffer, i).size
  <2> SUFFICES ASSUME NEW pos \in 0 .. SizeMod - 1
               PROVE  LET found == find_entry_offset_for_fpos(buffer, pos)
                      IN  IF pos < Len(EndToEnd)
                            THEN LET at == EndToEnd[pos + 1]
                                 IN  found = [entry  |-> Contents(buffer)[at[1]],
                                              offset |-> at[2]]
                            ELSE found = NULL
    BY DEF FindMatchesConcatenation
  <2> DEFINE found == find_entry_offset_for_fpos(buffer, pos)
  <2>1. /\ RingShape(buffer, Entries \cup {NoEntry})
        /\ UsedHaveBytes(buffer) /\ SizesBounded(buffer, MaxSize)
    BY <1>1, BufferIsBounded
  <2>2. n \in 0 .. MaxOps /\ MaxOps \in Nat \ {0} /\ SizeMod \in Nat \ {0}
    <3>1. n \in 0 .. MaxOps
      BY <2>1, ContentsIsSeq
    <3> QED BY <3>1, MaxOpsAssumption, SizeModAssumption
  <2>3. /\ s \in [0 .. MaxOps -> 0 .. SizeMod - 1]
        /\ \A i \in Slots : s[i + 1] = s[i] + z(i) /\ z(i) \in Nat
    BY <2>1, StartsAreSums DEF Sized
  <2>4. /\ Len(EndToEnd) = s[n]
        /\ \A i \in 0 .. n - 1, k \in Nat :
             k \in 0 .. z(i) - 1 => EndToEnd[s[i] + k + 1] = <<i + 1, k>>
    BY <1>1, EndToEndIndexed
  <2>5. pos \in Nat
    BY <2>2
  <2>6. IF pos < s[n]
          THEN \E i \in 0 .. n - 1 :
                 /\ s[i] <= pos /\ pos < s[i + 1]
                 /\ found = [entry |-> Contents(buffer)[i + 1], offset |-> pos - s[i]]
          ELSE found = NULL
    BY <2>1, <2>5, FindsByPosition
  <2> HIDE DEF found, s, n, z
  <2>7. ASSUME NEW i \in 0 .. n - 1, s[i] <= pos, pos < s[i + 1]
        PROVE  EndToEnd[pos + 1] = <<i + 1, pos - s[i]>>
    <3>1. i \in Slots /\ i \in 0 .. MaxOps
      BY <2>2 DEF Slots
    <3>2. PICK a \in Nat, y \in Nat : a = s[i] /\ y = z(i) /\ s[i + 1] = a + y
      BY <3>1, <2>2, <2>3
    <3>3. PICK k \in Nat : k = pos - a /\ k \in 0 .. y - 1 /\ a + k + 1 = pos + 1
      BY <2>5, <2>7, <3>2
    <3>4. EndToEnd[a + k + 1] = <<i + 1, k>>
      BY <2>4, <3>2, <3>3
    <3> QED BY <3>2, <3>3, <3>4
  <2>8. CASE pos < s[n]
    <3>1. PICK i \in 0 .. n - 1 :
            /\ s[i] <= pos /\ pos < s[i + 1]
            /\ found = [entry |-> Contents(buffer)[i + 1], offset |-> pos - s[i]]
      BY <2>6, <2>8
    <3>2. EndToEnd[pos + 1][1] = i + 1 /\ EndToEnd[pos + 1][2] = pos - s[i]
      BY <3>1, <2>7
    <3> QED BY <3>1, <3>2, <2>4, <2>8 DEF found
  <2>9. CASE ~(pos < s[n])
    BY <2>4, <2>6, <2>9 DEF found
  <2> QED BY <2>8, <2>9
<1> QED BY <1>1, TypeCorrect, RingCorrect, PTL
=============================================================================
