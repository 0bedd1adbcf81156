------------------------ MODULE CircularBufferLemmas ------------------------
(***************************************************************************)
(* Facts about the operators of CircularBuffer, for every capacity and     *)
(* every set E of entries: what the indices may be, and what adding an     *)
(* entry does to the sequence a buffer stands for.                         *)
(***************************************************************************)
EXTENDS CircularBuffer, SequenceTheorems, WellFoundedInduction, TLAPS

(* A buffer struct whose flag and indices agree. *)
RingShape(b, E) ==
  /\ b \in [entry    : [Slots -> E],
            in_offs  : Slots,
            out_offs : Slots,
            full     : BOOLEAN]
  /\ b.full => b.in_offs = b.out_offs
  /\ ~b.full => b.out_offs = 0

(* An index taken round the end of the array at most once. *)
Wrap(x) == IF x < MaxOps THEN x ELSE x - MaxOps

(* One wrap of an index is a subtraction: the % of peek in terms the       *)
(* provers can compute with.                                               *)
LEMMA WrapOnce ==
  ASSUME NEW x \in 0 .. 2 * MaxOps - 1
  PROVE  x % MaxOps = Wrap(x)
  BY MaxOpsAssumption, Z3 DEF Wrap

(* next_idx stays inside the array: add_entry never writes out of bounds   *)
(* with an index it produced.                                              *)
LEMMA NextIdxInRange ==
  ASSUME NEW i \in Slots
  PROVE  /\ next_idx(i) \in Slots
         /\ next_idx(i) = IF i = MaxOps - 1 THEN 0 ELSE i + 1
  BY MaxOpsAssumption DEF next_idx, Slots

(* What add_entry does to each field, for an entry that is not empty.      *)
LEMMA AddEntryFields ==
  ASSUME NEW b, NEW e, e.size # 0
  PROVE  LET r == add_entry(b, e)
         IN  /\ r.buffer.entry = [b.entry EXCEPT ![b.in_offs] = e]
             /\ r.buffer.in_offs = next_idx(b.in_offs)
             /\ r.buffer.out_offs = IF b.full THEN next_idx(b.in_offs)
                                              ELSE b.out_offs
             /\ r.buffer.full = (b.full \/ next_idx(b.in_offs) = b.out_offs)
             /\ r.replaced = IF b.full THEN b.entry[b.in_offs].buffptr
                                       ELSE NULL
  BY DEF add_entry

(* The fields of a well-shaped buffer, one by one.                         *)
LEMMA RingFields ==
  ASSUME NEW E, NEW b, RingShape(b, E)
  PROVE  /\ b.entry \in [Slots -> E]
         /\ b.in_offs \in 0 .. MaxOps - 1
         /\ b.out_offs \in 0 .. MaxOps - 1
         /\ b.full \in BOOLEAN
         /\ b.full => b.in_offs = b.out_offs
         /\ ~b.full => b.out_offs = 0
  BY DEF RingShape, Slots

(* add_entry keeps flag and indices in agreement.                          *)
LEMMA AddEntryShape ==
  ASSUME NEW E, NEW b, RingShape(b, E), NEW e \in E, e.size # 0
  PROVE  RingShape(add_entry(b, e).buffer, E)
<1> DEFINE c == add_entry(b, e).buffer
<1>1. b.in_offs \in Slots /\ next_idx(b.in_offs) \in Slots
  BY NextIdxInRange DEF RingShape
<1>2. c \in [entry    : [Slots -> E], in_offs  : Slots,
             out_offs : Slots, full     : BOOLEAN]
  BY <1>1 DEF RingShape, add_entry
<1>3. (c.full => c.in_offs = c.out_offs) /\ (~c.full => c.out_offs = 0)
  <2>1. /\ c.in_offs = next_idx(b.in_offs)
        /\ c.out_offs = IF b.full THEN next_idx(b.in_offs) ELSE b.out_offs
        /\ c.full = (b.full \/ next_idx(b.in_offs) = b.out_offs)
    BY AddEntryFields
  <2> QED BY <2>1, RingFields
<1> QED BY <1>2, <1>3 DEF RingShape

(* Contents is a sequence of entries: Count(b) of them, the i-th at the    *)
(* slot i - 1 places behind out_offs.                                      *)
LEMMA ContentsIsSeq ==
  ASSUME NEW E, NEW b, RingShape(b, E)
  PROVE  /\ Count(b) \in 0 .. MaxOps
         /\ Contents(b) \in Seq(E)
         /\ Len(Contents(b)) = Count(b)
         /\ \A i \in 1 .. Count(b) :
              Contents(b)[i] = b.entry[Wrap(b.out_offs + (i - 1))]
<1>1. Count(b) \in 0 .. MaxOps /\ b.out_offs \in Slots
  BY MaxOpsAssumption DEF RingShape, Count, Slots
<1>2. ASSUME NEW i \in 1 .. Count(b)
      PROVE  /\ peek(b, i - 1) \in E
             /\ peek(b, i - 1) = b.entry[Wrap(b.out_offs + (i - 1))]
  <2> DEFINE x == b.out_offs + (i - 1)
  <2>1. x \in 0 .. 2 * MaxOps - 1 /\ Wrap(x) \in Slots
    BY <1>1, MaxOpsAssumption DEF Slots, Wrap
  <2>2. x % MaxOps = Wrap(x)
    BY <2>1, WrapOnce
  <2>3. b.entry[Wrap(x)] \in E
    BY <2>1 DEF RingShape
  <2>4. peek(b, i - 1) = b.entry[Wrap(x)]
    BY <2>2 DEF peek
  <2> QED BY <2>3, <2>4
<1>3. Contents(b) \in [1 .. Count(b) -> E]
  BY <1>2 DEF Contents
<1>4. Contents(b) \in Seq(E)
  BY <1>1, <1>3, SeqDef
<1>5. Len(Contents(b)) = Count(b)
  BY <1>1, <1>3, <1>4, LenProperties
<1>6. \A i \in 1 .. Count(b) : Contents(b)[i] = peek(b, i - 1)
  BY DEF Contents
<1> QED BY <1>1, <1>2, <1>4, <1>5, <1>6

(* Adding to a buffer with room appends; adding to a full one drops the    *)
(* oldest entry first, and the pointer returned is that entry's.           *)
LEMMA AddEntryPushes ==
  ASSUME NEW E, NEW b, RingShape(b, E), NEW e \in E, e.size # 0
  PROVE  /\ Contents(add_entry(b, e).buffer) =
              IF Len(Contents(b)) < MaxOps
                THEN Append(Contents(b), e)
                ELSE Append(Tail(Contents(b)), e)
         /\ add_entry(b, e).replaced =
              IF Len(Contents(b)) < MaxOps
                THEN NULL
                ELSE Head(Contents(b)).buffptr
<1> DEFINE c == add_entry(b, e).buffer
           s == Contents(b)
           t == Contents(c)
<1>1. RingShape(c, E)
  BY AddEntryShape
<1>2. /\ s \in Seq(E) /\ Len(s) = Count(b)
      /\ t \in Seq(E) /\ Len(t) = Count(c)
  BY <1>1, ContentsIsSeq
<1>3. /\ b.in_offs \in Slots /\ b.out_offs \in Slots /\ b.full \in BOOLEAN
      /\ next_idx(b.in_offs) = IF b.in_offs = MaxOps - 1
                                 THEN 0 ELSE b.in_offs + 1
      /\ b.entry \in [Slots -> E]
  BY NextIdxInRange DEF RingShape
<1>4. \A i \in Slots : c.entry[i] = IF i = b.in_offs THEN e ELSE b.entry[i]
  <2>1. c.entry = [b.entry EXCEPT ![b.in_offs] = e]
    BY AddEntryFields
  <2> QED BY <1>3, <2>1
<1>5. add_entry(b, e).replaced =
        IF b.full THEN b.entry[b.in_offs].buffptr ELSE NULL
  BY DEF add_entry
<1>6. CASE ~b.full
  <2>1. Count(b) = b.in_offs /\ b.out_offs = 0 /\ Count(b) < MaxOps
    BY <1>6, RingFields, MaxOpsAssumption DEF Count
  <2>2. c.out_offs = 0 /\ Count(c) = b.in_offs + 1
    <3>1. c.full = (next_idx(b.in_offs) = b.out_offs)
          /\ c.in_offs = next_idx(b.in_offs)
          /\ c.out_offs = b.out_offs
      BY <1>6 DEF add_entry
    <3>2. CASE b.in_offs = MaxOps - 1
      <4>1. c.full
        BY <2>1, <3>1, <3>2, <1>3
      <4> QED BY <4>1, <2>1, <3>1, <3>2, MaxOpsAssumption DEF Count
    <3>3. CASE b.in_offs # MaxOps - 1
      <4>1. ~c.full
        <5>1. next_idx(b.in_offs) # b.out_offs
          BY <2>1, <3>3, RingFields, <1>3
        <5> QED BY <5>1, <3>1
      <4> QED BY <4>1, <2>1, <3>1, <3>3, <1>3 DEF Count
    <3> QED BY <3>2, <3>3
  <2>3. Append(s, e) \in Seq(E) /\ Len(Append(s, e)) = Len(t)
    BY <1>2, <2>1, <2>2
  <2>4. ASSUME NEW i \in 1 .. Len(t) PROVE t[i] = Append(s, e)[i]
    <3>1. i - 1 \in Slots /\ i \in 1 .. Count(c)
      <4>1. Len(t) = Count(c)
        BY <1>2
      <4>2. b.in_offs \in 0 .. MaxOps - 1 /\ Count(c) = b.in_offs + 1
        BY <1>3, <2>2 DEF Slots
      <4>3. i \in 1 .. b.in_offs + 1
        BY <4>1, <4>2
      <4> QED BY <4>1, <4>2, <4>3, MaxOpsAssumption DEF Slots
    <3>2. t[i] = c.entry[i - 1]
      <4>1. Wrap(0 + (i - 1)) = i - 1
        BY <3>1, MaxOpsAssumption DEF Slots, Wrap
      <4> QED BY <4>1, <1>1, <2>2, <3>1, ContentsIsSeq
    <3>3. CASE i - 1 = b.in_offs
      BY <3>1, <3>2, <3>3, <1>2, <1>4, <2>1
    <3>4. CASE i - 1 # b.in_offs
      <4>1. i \in 1 .. Count(b)
        BY <3>4, <3>1, <2>1, <2>2, <1>3 DEF Slots
      <4>2. s[i] = b.entry[i - 1]
        <5>1. Wrap(0 + (i - 1)) = i - 1
          BY <3>1, MaxOpsAssumption DEF Slots, Wrap
        <5> QED BY <5>1, <4>1, <2>1, ContentsIsSeq
      <4> QED BY <4>1, <4>2, <3>1, <3>2, <3>4, <1>2, <1>4
    <3> QED BY <3>3, <3>4
  <2>5. t = Append(s, e)
    BY <1>2, <2>3, <2>4, SeqEqual
  <2>6. add_entry(b, e).replaced = NULL
    BY <1>6, <1>5
  <2> QED BY <1>2, <2>1, <2>5, <2>6
<1>7. CASE b.full
  <2>1. Count(b) = MaxOps /\ b.out_offs = b.in_offs
    BY <1>7 DEF Count, RingShape
  <2>2. c.full /\ c.out_offs = next_idx(b.in_offs) /\ Count(c) = MaxOps
    BY <1>7, AddEntryFields DEF Count
  <2>3. MaxOps \in Nat \ {0} /\ Len(s) = MaxOps /\ Len(t) = MaxOps /\ s # <<>>
    BY <1>2, <2>1, <2>2, MaxOpsAssumption
  <2>4. Append(Tail(s), e) \in Seq(E) /\ Len(Append(Tail(s), e)) = Len(t)
    BY <1>2, <2>3
  <2>5. ASSUME NEW i \in 1 .. Len(t) PROVE t[i] = Append(Tail(s), e)[i]
    <3> DEFINE j == Wrap(c.out_offs + (i - 1))
    <3>1. t[i] = c.entry[j]
      BY <1>1, <2>2, <2>3, ContentsIsSeq
    <3>2. j \in Slots /\ j = Wrap(b.out_offs + i)
      BY <1>3, <2>1, <2>2, <2>3 DEF Slots, Wrap
    <3>3. CASE i = MaxOps
      <4>1. j = b.in_offs
        BY <3>2, <3>3, <1>3, <2>1, <2>3 DEF Slots, Wrap
      <4> QED BY <4>1, <3>1, <3>2, <3>3, <1>2, <1>4, <2>3
    <3>4. CASE i < MaxOps
      <4>1. j # b.in_offs
        BY <3>2, <3>4, <1>3, <2>1, <2>3 DEF Slots, Wrap
      <4>2. i + 1 \in 1 .. Count(b)
        BY <3>4, <2>1, <2>3
      <4>3. s[i + 1] = b.entry[Wrap(b.out_offs + ((i + 1) - 1))]
        BY <4>2, ContentsIsSeq
      <4>4. b.out_offs + ((i + 1) - 1) = b.out_offs + i
        BY <1>3 DEF Slots
      <4>5. s[i + 1] = b.entry[j]
        BY <4>3, <4>4, <3>2
      <4>6. Append(Tail(s), e)[i] = s[i + 1]
        BY <3>4, <1>2, <2>3
      <4> QED BY <4>1, <4>5, <4>6, <3>1, <3>2, <1>4
    <3> QED BY <3>3, <3>4, <2>3
  <2>6. t = Append(Tail(s), e)
    BY <1>2, <2>4, <2>5, SeqEqual
  <2>7. Head(s) = b.entry[b.in_offs]
    <3>1. Wrap(b.out_offs + (1 - 1)) = b.in_offs
      BY <1>3, <2>1, MaxOpsAssumption DEF Slots, Wrap
    <3>2. s[1] = b.entry[Wrap(b.out_offs + (1 - 1))]
      BY <2>1, <2>3, ContentsIsSeq
    <3> QED BY <3>1, <3>2, <1>2, <2>3
  <2>8. add_entry(b, e).replaced = Head(s).buffptr
    <3>1. add_entry(b, e).replaced = b.entry[b.in_offs].buffptr
      BY <1>7, <1>5
    <3> QED BY <2>7, <3>1
  <2> QED BY <2>3, <2>6, <2>8
<1> QED BY <1>3, <1>6, <1>7


-----------------------------------------------------------------------------
(* The search of aesd_circular_buffer_find_entry_offset_for_fpos. *)

(* Every nonempty set of natural numbers has a least element: the library  *)
(* states it for well-founded relations.                                   *)
LEMMA LeastNatural ==
  ASSUME NEW T, T \subseteq Nat, T # {}
  PROVE  \E n \in T : \A m \in T : n <= m
<1>1. \E x \in T : \A y \in T : ~(<<y, x>> \in OpToRel(<, Nat))
  BY NatLessThanWellFounded, WFMin
<1>2. \A x, y \in Nat : y < x => <<y, x>> \in OpToRel(<, Nat)
  BY DEF OpToRel
<1>3. \E x \in T : \A y \in T : ~(y < x)
  BY <1>1, <1>2, Zenon
<1> QED BY <1>3

(* Induction on a natural number, for a property given as a set.           *)
LEMMA SetInduction ==
  ASSUME NEW T, 0 \in T, NEW N \in Nat,
         \A n \in 0 .. N - 1 : n \in T => n + 1 \in T
  PROVE  \A n \in 0 .. N : n \in T
<1> SUFFICES ASSUME NEW k \in 0 .. N, k \notin T PROVE FALSE
  OBVIOUS
<1> DEFINE B == {n \in 0 .. N : n \notin T}
<1>1. B \subseteq Nat /\ B # {}
  OBVIOUS
<1>2. PICK n \in B : \A m \in B : n <= m
  BY <1>1, LeastNatural
<1>3. n # 0 /\ n - 1 \in 0 .. N - 1
  BY <1>2
<1>4. n - 1 \in T
  BY <1>2, <1>3
<1> QED BY <1>2, <1>3, <1>4

(* g lists the values a loop variable goes through in N rounds: it starts  *)
(* at z, and round i takes it to step[i] of what it was.                   *)
LoopTrace(g, N, z, step) ==
  g[0] = z /\ \A i \in 1 .. N : g[i] = step[i][g[i - 1]]

(* What a loop that runs N times computes exists: the values its variable  *)
(* goes through, each the step function's value at the one before.         *)
LEMMA LoopValues ==
  ASSUME NEW N \in Nat, NEW S, NEW z \in S, NEW step \in [1 .. N -> [S -> S]]
  PROVE  \E g \in [0 .. N -> S] : LoopTrace(g, N, z, step)
<1> DEFINE Upto(n) ==
             \E g \in [0 .. n -> S] :
               g[0] = z /\ \A i \in 1 .. n : g[i] = step[i][g[i - 1]]
           T == {n \in Nat : Upto(n)}
<1>1. 0 \in T
  <2> DEFINE g == [i \in 0 .. 0 |-> z]
  <2>1. g \in [0 .. 0 -> S] /\ g[0] = z
    OBVIOUS
  <2>2. \A i \in 1 .. 0 : g[i] = step[i][g[i - 1]]
    OBVIOUS
  <2> QED BY <2>1, <2>2
<1>2. ASSUME NEW n \in 0 .. N - 1, n \in T PROVE n + 1 \in T
  <2>1. PICK g \in [0 .. n -> S] :
          g[0] = z /\ \A i \in 1 .. n : g[i] = step[i][g[i - 1]]
    BY <1>2
  <2>2. step[n + 1][g[n]] \in S
    OBVIOUS
  <2> DEFINE h == [i \in 0 .. n + 1 |-> IF i = n + 1 THEN step[n + 1][g[n]]
                                                     ELSE g[i]]
  <2>3. h \in [0 .. n + 1 -> S]
    BY <2>2
  <2>4. h[0] = z
    BY <2>1
  <2>5. ASSUME NEW i \in 1 .. n + 1 PROVE h[i] = step[i][h[i - 1]]
    <3>1. /\ i - 1 \in 0 .. n + 1 /\ i - 1 # n + 1 /\ i \in 0 .. n + 1
          /\ n \in Nat
      OBVIOUS
    <3>2. h[i - 1] = g[i - 1]
      BY <3>1
    <3>3. CASE i = n + 1
      <4>1. i - 1 = n
        BY <3>3, <3>1
      <4> QED BY <4>1, <3>1, <3>2, <3>3
    <3>4. CASE i # n + 1
      <4>1. i \in 1 .. n
        BY <3>4, <3>1
      <4> QED BY <4>1, <3>1, <3>2, <3>4, <2>1
    <3> QED BY <3>3, <3>4
  <2>6. Upto(n + 1)
    BY <2>3, <2>4, <2>5
  <2> QED BY <2>6, SMTT(30)
<1>3. N \in T
  <2>1. \A n \in 0 .. N - 1 : n \in T => n + 1 \in T
    BY <1>2
  <2> HIDE DEF T
  <2>2. \A n \in 0 .. N : n \in T
    BY <1>1, <2>1, SetInduction
  <2> QED BY <2>2
<1> QED BY <1>3, Zenon DEF LoopTrace

(* Division with remainder is unique, which is what is needed of % .       *)
LEMMA RemainderUnique ==
  ASSUME NEW M \in Nat \ {0}, NEW a \in Int, NEW q \in Int,
         NEW r \in 0 .. M - 1, a = M * q + r
  PROVE  a % M = r
  OBVIOUS

(* Every integer is a multiple of M and its remainder.                     *)
LEMMA RemainderExists ==
  ASSUME NEW M \in Nat \ {0}, NEW a \in Int
  PROVE  a % M \in 0 .. M - 1 /\ \E q \in Int : a = M * q + (a % M)
<1>1. /\ a = M * (a \div M) + (a % M)
      /\ a \div M \in Int /\ a % M \in 0 .. M - 1
  OBVIOUS
<1> QED BY <1>1

(* The values of current_char_offset in the search, as in                  *)
(* find_entry_offset_for_fpos.                                             *)
Starts(b) ==
  LET start[i \in 0 .. MaxOps] ==
        IF i = 0 THEN 0
                 ELSE (start[i - 1] + peek(b, i - 1).size) % SizeMod
  IN  start

(* The last offset the slot i places behind out_offs covers.               *)
Last(b, i) == last_offset(Starts(b)[i], peek(b, i).size)

(* All slots hold an entry with a size.                                    *)
Sized(b) == \A i \in Slots : peek(b, i).size \in Nat

(* The definition of the search loop has a solution: current_char_offset   *)
(* starts at 0 and grows by the size of the entry, modulo 2^w.             *)
LEMMA StartsLoop ==
  ASSUME NEW b, Sized(b)
  PROVE  /\ Starts(b) \in [0 .. MaxOps -> 0 .. SizeMod - 1]
         /\ Starts(b)[0] = 0
         /\ \A i \in Slots :
              Starts(b)[i + 1] = (Starts(b)[i] + peek(b, i).size) % SizeMod
<1> DEFINE S == 0 .. SizeMod - 1
           step == [i \in 1 .. MaxOps |->
                      [v \in S |-> (v + peek(b, i - 1).size) % SizeMod]]
           Body(f) == [i \in 0 .. MaxOps |->
                         IF i = 0 THEN 0
                         ELSE (f[i - 1] + peek(b, i - 1).size) % SizeMod]
<1>1. MaxOps \in Nat /\ 0 \in S /\ SizeMod \in Nat \ {0}
  BY MaxOpsAssumption, SizeModAssumption
<1>2. ASSUME NEW i \in 1 .. MaxOps, NEW v \in S
      PROVE  (v + peek(b, i - 1).size) % SizeMod \in S
  <2>1. i - 1 \in Slots
    BY <1>1 DEF Slots
  <2>2. v + peek(b, i - 1).size \in Int
    BY <2>1, <1>1 DEF Sized
  <2> QED BY <2>2, <1>1, RemainderExists
<1>3. step \in [1 .. MaxOps -> [S -> S]]
  BY <1>2
<1>4. PICK g \in [0 .. MaxOps -> S] :
        g[0] = 0 /\ \A i \in 1 .. MaxOps : g[i] = step[i][g[i - 1]]
  <2>1. \E g \in [0 .. MaxOps -> S] : LoopTrace(g, MaxOps, 0, step)
    <3> HIDE DEF step, S
    <3> QED BY <1>1, <1>3, LoopValues
  <2> HIDE DEF step, S
  <2> QED BY <2>1, Zenon DEF LoopTrace
<1>5. g = Body(g)
  <2>1. ASSUME NEW i \in 1 .. MaxOps
        PROVE  g[i] = (g[i - 1] + peek(b, i - 1).size) % SizeMod
    <3>1. i - 1 \in 0 .. MaxOps /\ g[i - 1] \in S
      BY <1>1
    <3> QED BY <3>1, <1>4
  <2>2. ASSUME NEW i \in 0 .. MaxOps
        PROVE  g[i] = IF i = 0 THEN 0
                      ELSE (g[i - 1] + peek(b, i - 1).size) % SizeMod
    <3>1. i = 0 \/ i \in 1 .. MaxOps
      BY <1>1
    <3>2. CASE i = 0
      BY <3>2, <1>4
    <3>3. CASE i \in 1 .. MaxOps
      <4>1. i # 0
        BY <3>3
      <4> QED BY <3>3, <4>1, <2>1, Zenon
    <3> QED BY <3>1, <3>2, <3>3
  <2>3. g = [i \in 0 .. MaxOps |-> g[i]]
    OBVIOUS
  <2> QED BY <2>2, <2>3, Zenon
<1>6. Starts(b) = Body(Starts(b))
  <2>1. Starts(b) = CHOOSE f : f = Body(f)
    BY DEF Starts
  <2> HIDE DEF Body
  <2> QED BY <1>5, <2>1
<1> DEFINE s == Starts(b)
<1> HIDE DEF s
<1>7. s = Body(s)
  BY <1>6 DEF s
<1>8. s[0] = 0
  BY <1>7, <1>1
<1>9. \A i \in 1 .. MaxOps : s[i] = (s[i - 1] + peek(b, i - 1).size) % SizeMod
  BY <1>7, <1>1
<1>10. \A i \in 0 .. MaxOps : s[i] \in S
  <2> DEFINE T == {i \in Nat : s[i] \in S}
  <2>1. 0 \in T
    BY <1>8, <1>1
  <2>2. ASSUME NEW n \in 0 .. MaxOps - 1, n \in T PROVE n + 1 \in T
    <3>1. n + 1 \in 1 .. MaxOps /\ (n + 1) - 1 = n
      BY <1>1
    <3>2. s[n + 1] = (s[n] + peek(b, (n + 1) - 1).size) % SizeMod
      BY <3>1, <1>9
    <3>3. s[n + 1] \in S
      BY <3>1, <3>2, <2>2, <1>2
    <3> QED BY <3>3
  <2>3. \A n \in 0 .. MaxOps - 1 : n \in T => n + 1 \in T
    BY <2>2
  <2>4. \A n \in 0 .. MaxOps : n \in T
    <3> HIDE DEF T
    <3> QED BY <1>1, <2>1, <2>3, SetInduction
  <2> QED BY <2>4
<1>11. s \in [0 .. MaxOps -> S]
  <2>1. s = [i \in 0 .. MaxOps |-> s[i]]
    BY <1>7
  <2> QED BY <2>1, <1>10
<1>12. \A i \in Slots : s[i + 1] = (s[i] + peek(b, i).size) % SizeMod
  <2> SUFFICES ASSUME NEW i \in Slots
               PROVE  s[i + 1] = (s[i] + peek(b, i).size) % SizeMod
    OBVIOUS
  <2>1. i + 1 \in 1 .. MaxOps /\ (i + 1) - 1 = i
    BY <1>1 DEF Slots
  <2> QED BY <2>1, <1>9
<1> QED BY <1>8, <1>11, <1>12 DEF s

(* The search ends at the first slot whose last offset reaches the         *)
(* position, and answers with its entry and the distance from its start;   *)
(* it returns NULL only when there is none.                                *)
LEMMA FindStopsAtFirst ==
  ASSUME NEW b, NEW c
  PROVE  \/ /\ find_entry_offset_for_fpos(b, c) = NULL
            /\ is_empty(b) \/ \A i \in Slots : ~(Last(b, i) >= c)
         \/ /\ ~is_empty(b)
            /\ \E i \in Slots :
                 /\ Last(b, i) >= c
                 /\ \A j \in 0 .. i - 1 : ~(Last(b, j) >= c)
                 /\ find_entry_offset_for_fpos(b, c) =
                      [entry  |-> peek(b, i),
                       offset |-> (c - Starts(b)[i]) % SizeMod]
<1> DEFINE reach == {i \in Slots : Last(b, i) >= c}
           first == CHOOSE i \in reach : \A j \in reach : i <= j
<1>1. find_entry_offset_for_fpos(b, c) =
        IF is_empty(b) \/ reach = {}
          THEN NULL
          ELSE [entry  |-> peek(b, first),
                offset |-> (c - Starts(b)[first]) % SizeMod]
  BY DEF find_entry_offset_for_fpos, Last, Starts
<1>2. CASE is_empty(b) \/ reach = {}
  <2>1. find_entry_offset_for_fpos(b, c) = NULL
    BY <1>1, <1>2
  <2>2. reach = {} => \A i \in Slots : ~(Last(b, i) >= c)
    OBVIOUS
  <2> QED BY <1>2, <2>1, <2>2
<1>3. CASE ~is_empty(b) /\ reach # {}
  <2>1. reach \subseteq Nat
    BY MaxOpsAssumption DEF Slots
  <2>2. \E i \in reach : \A j \in reach : i <= j
    <3> HIDE DEF reach
    <3> QED BY <1>3, <2>1, LeastNatural
  <2>3. first \in reach /\ \A j \in reach : first <= j
    <3> HIDE DEF reach
    <3> QED BY <2>2
  <2>4. first \in Slots /\ Last(b, first) >= c
    BY <2>3
  <2>5. \A j \in 0 .. first - 1 : j \in Slots /\ ~(first <= j)
    <3> HIDE DEF first
    <3> QED BY <2>4, MaxOpsAssumption DEF Slots
  <2>6. \A j \in 0 .. first - 1 : ~(Last(b, j) >= c)
    BY <2>3, <2>5
  <2>7. find_entry_offset_for_fpos(b, c) =
          [entry  |-> peek(b, first),
           offset |-> (c - Starts(b)[first]) % SizeMod]
    BY <1>1, <1>3
  <2> HIDE DEF first, reach
  <2> QED BY <1>3, <2>4, <2>6, <2>7
<1> QED BY <1>2, <1>3

(* The slots of a ring whose entries have a size have one, whatever the    *)
(* place the search starts at.                                             *)
LEMMA RingIsSized ==
  ASSUME NEW E, NEW b, RingShape(b, E), \A e \in E : e.size \in Nat
  PROVE  Sized(b)
<1> SUFFICES ASSUME NEW i \in Slots PROVE peek(b, i).size \in Nat
  BY DEF Sized
<1>1. b.out_offs + i \in 0 .. 2 * MaxOps - 1
  <2>1. b.out_offs \in 0 .. MaxOps - 1
    BY RingFields
  <2> QED BY <2>1, MaxOpsAssumption DEF Slots
<1>2. Wrap(b.out_offs + i) \in Slots
  BY <1>1, MaxOpsAssumption DEF Wrap, Slots
<1>3. peek(b, i) = b.entry[Wrap(b.out_offs + i)]
  BY <1>1, WrapOnce DEF peek
<1> QED BY <1>2, <1>3, RingFields

(* Until the ring is full the search looks at the slots in array order.    *)
LEMMA PeekInOrder ==
  ASSUME NEW b, b.out_offs = 0, NEW i \in Slots
  PROVE  peek(b, i) = b.entry[i]
<1>1. 0 + i = i /\ i \in 0 .. 2 * MaxOps - 1 /\ Wrap(i) = i
  BY MaxOpsAssumption DEF Slots, Wrap
<1> QED BY <1>1, WrapOnce DEF peek

(* An entry of size 0 behind another one ends where that one ends: the     *)
(* size - 1 that wraps below zero is undone by the addition that wraps     *)
(* back, at every width of size_t.                                         *)
LEMMA EmptyEndsWithPrevious ==
  ASSUME NEW s \in 0 .. SizeMod - 1, NEW z \in Nat
  PROVE  last_offset((s + z) % SizeMod, 0) = last_offset(s, z)
<1> DEFINE M == SizeMod
           t == (s + z) % M
           u == (0 - 1) % M
           r == (t + u) % M
           w == (z - 1) % M
<1>1. M \in Nat \ {0}
  BY SizeModAssumption
<1> HIDE DEF M
<1>a. s + z \in Int /\ 0 - 1 \in Int /\ z - 1 \in Int
  BY <1>1 DEF M
<1>2. t \in 0 .. M - 1 /\ \E q \in Int : s + z = M * q + t
  BY <1>1, <1>a, RemainderExists
<1>3. u \in 0 .. M - 1 /\ \E q \in Int : 0 - 1 = M * q + u
  BY <1>1, <1>a, RemainderExists
<1>4. w \in 0 .. M - 1 /\ \E q \in Int : z - 1 = M * q + w
  BY <1>1, <1>a, RemainderExists
<1>5. r \in 0 .. M - 1 /\ \E q \in Int : t + u = M * q + r
  <2>1. t + u \in Int
    BY <1>1, <1>2, <1>3
  <2> QED BY <1>1, <2>1, RemainderExists
<1>6. PICK q1 \in Int : s + z = M * q1 + t
  BY <1>2
<1>7. PICK q2 \in Int : 0 - 1 = M * q2 + u
  BY <1>3
<1>8. PICK q3 \in Int : t + u = M * q3 + r
  BY <1>5
<1>9. PICK q4 \in Int : z - 1 = M * q4 + w
  BY <1>4
<1> HIDE DEF t, u, r, w
<1>10. s + w = M * (q1 + q2 + q3 - q4) + r
  <2>1. M * (q1 + q2 + q3 - q4) = M * q1 + M * q2 + M * q3 - M * q4
    BY <1>1
  <2>2. /\ M * q1 \in Int /\ M * q2 \in Int /\ M * q3 \in Int /\ M * q4 \in Int
    BY <1>1
  <2> QED BY <2>1, <2>2, <1>1, <1>2, <1>3, <1>4, <1>5, <1>6, <1>7, <1>8, <1>9
<1>11. (s + w) % M = r
  <2>1. s + w \in Int /\ q1 + q2 + q3 - q4 \in Int
    BY <1>1, <1>4 DEF M
  <2> QED BY <1>1, <1>5, <1>10, <2>1, RemainderUnique
<1> QED BY <1>11 DEF last_offset, t, u, r, w, M

(* What the search finds is an entry the buffer holds, never one of the    *)
(* zeroed slots of a buffer that is not full.                              *)
LEMMA FindsStoredEntry ==
  ASSUME NEW E, NEW b, RingShape(b, E), Sized(b), NEW c,
         \A i \in Slots : ~b.full /\ i >= b.in_offs => b.entry[i].size = 0,
         find_entry_offset_for_fpos(b, c) # NULL
  PROVE  \E i \in 1 .. Count(b) :
           find_entry_offset_for_fpos(b, c).entry = Contents(b)[i]
<1> DEFINE found == find_entry_offset_for_fpos(b, c)
<1>1. PICK i \in Slots : /\ Last(b, i) >= c
                         /\ \A j \in 0 .. i - 1 : ~(Last(b, j) >= c)
                         /\ found.entry = peek(b, i)
                         /\ ~is_empty(b)
  BY FindStopsAtFirst
<1>2. i + 1 \in 1 .. Count(b)
  <2>1. CASE b.full
    BY <2>1, MaxOpsAssumption DEF Count, Slots
  <2>2. CASE ~b.full
    <3>1. b.out_offs = 0 /\ b.in_offs \in 1 .. MaxOps - 1
      BY <1>1, <2>2, RingFields DEF is_empty
    <3>2. SUFFICES ASSUME i >= b.in_offs PROVE FALSE
      BY <2>2, <3>1 DEF Count, Slots
    <3>3. i - 1 \in Slots /\ i - 1 \in 0 .. i - 1 /\ (i - 1) + 1 = i
      BY <3>1, <3>2, MaxOpsAssumption DEF Slots
    <3>4. peek(b, i).size = 0
      BY <2>2, <3>1, <3>2, PeekInOrder
    <3>5. /\ Starts(b)[i - 1] \in 0 .. SizeMod - 1
          /\ Starts(b)[i] = (Starts(b)[i - 1] + peek(b, i - 1).size) % SizeMod
      <4>1. i - 1 \in 0 .. MaxOps
        BY <3>3, MaxOpsAssumption DEF Slots
      <4> QED BY <3>3, <4>1, StartsLoop
    <3>6. peek(b, i - 1).size \in Nat
      BY <3>3 DEF Sized
    <3>7. Last(b, i) = Last(b, i - 1)
      BY <3>4, <3>5, <3>6, EmptyEndsWithPrevious DEF Last
    <3> QED BY <1>1, <3>3, <3>7
  <2> QED BY <2>1, <2>2
<1>3. Contents(b)[i + 1] = peek(b, i)
  <2>1. (i + 1) - 1 = i
    BY MaxOpsAssumption DEF Slots
  <2> QED BY <1>2, <2>1 DEF Contents
<1> QED BY <1>1, <1>2, <1>3

(* The slot of the i-th entry, oldest first.                               *)
SlotOf(b, i) == Wrap(b.out_offs + (i - 1))

(* The entries a buffer holds are in slots that are in use, no two of them *)
(* in the same one.                                                        *)
LEMMA ContentsSlots ==
  ASSUME NEW E, NEW b, RingShape(b, E)
  PROVE  /\ \A i \in 1 .. Count(b) :
              /\ SlotOf(b, i) \in Slots
              /\ b.full \/ SlotOf(b, i) < b.in_offs
              /\ Contents(b)[i] = b.entry[SlotOf(b, i)]
         /\ \A i, j \in 1 .. Count(b) : SlotOf(b, i) = SlotOf(b, j) => i = j
<1>1. /\ b.out_offs \in 0 .. MaxOps - 1 /\ b.in_offs \in 0 .. MaxOps - 1
      /\ ~b.full => b.out_offs = 0
      /\ MaxOps \in Nat \ {0}
  BY RingFields, MaxOpsAssumption
<1>2. Count(b) \in 0 .. MaxOps /\ (~b.full => Count(b) = b.in_offs)
  BY ContentsIsSeq DEF Count
<1>3. ASSUME NEW i \in 1 .. Count(b)
      PROVE  SlotOf(b, i) \in Slots /\ (b.full \/ SlotOf(b, i) < b.in_offs)
  <2>1. i \in 1 .. MaxOps
    BY <1>1, <1>2
  <2>2. SlotOf(b, i) \in Slots
    BY <1>1, <2>1 DEF SlotOf, Wrap, Slots
  <2>3. CASE ~b.full
    <3>1. i <= b.in_offs
      BY <2>3, <1>1, <1>2
    <3> QED BY <3>1, <2>1, <2>2, <2>3, <1>1 DEF SlotOf, Wrap
  <2> QED BY <2>2, <2>3
<1>4. ASSUME NEW i \in 1 .. Count(b), NEW j \in 1 .. Count(b),
             SlotOf(b, i) = SlotOf(b, j)
      PROVE  i = j
  <2>1. i \in 1 .. MaxOps /\ j \in 1 .. MaxOps
    BY <1>1, <1>2
  <2> QED BY <1>1, <1>4, <2>1 DEF SlotOf, Wrap
<1>5. \A i \in 1 .. Count(b) : Contents(b)[i] = b.entry[SlotOf(b, i)]
  BY ContentsIsSeq DEF SlotOf
<1> QED BY <1>3, <1>4, <1>5

(* Adding an entry takes the slot at in_offs into use and no other, and    *)
(* leaves all slots but that one as they were.                             *)
LEMMA AddEntrySlots ==
  ASSUME NEW E, NEW b, RingShape(b, E), NEW e \in E, e.size # 0
  PROVE  LET c == add_entry(b, e).buffer
         IN  \A i \in Slots :
               /\ c.entry[i] = IF i = b.in_offs THEN e ELSE b.entry[i]
               /\ c.full \/ i < c.in_offs <=> b.full \/ i < b.in_offs \/ i = b.in_offs
<1> DEFINE c == add_entry(b, e).buffer
<1>1. /\ b.entry \in [Slots -> E] /\ b.in_offs \in 0 .. MaxOps - 1
      /\ b.out_offs \in 0 .. MaxOps - 1
      /\ ~b.full => b.out_offs = 0
      /\ MaxOps \in Nat \ {0}
  BY RingFields, MaxOpsAssumption
<1>2. next_idx(b.in_offs) = IF b.in_offs = MaxOps - 1 THEN 0 ELSE b.in_offs + 1
  BY <1>1, NextIdxInRange DEF Slots
<1>3. /\ c.entry = [b.entry EXCEPT ![b.in_offs] = e]
      /\ c.in_offs = next_idx(b.in_offs)
      /\ c.full = (b.full \/ next_idx(b.in_offs) = b.out_offs)
  BY AddEntryFields
<1> HIDE DEF c
<1>4. ASSUME NEW i \in Slots
      PROVE  c.entry[i] = IF i = b.in_offs THEN e ELSE b.entry[i]
  BY <1>1, <1>3
<1>5. ASSUME NEW i \in Slots
      PROVE  c.full \/ i < c.in_offs <=> b.full \/ i < b.in_offs \/ i = b.in_offs
  <2>1. CASE b.full
    BY <2>1, <1>3
  <2>2. CASE ~b.full /\ b.in_offs = MaxOps - 1
    <3>1. c.full
      BY <2>2, <1>1, <1>2, <1>3
    <3>2. i < b.in_offs \/ i = b.in_offs
      BY <2>2, <1>1 DEF Slots
    <3> QED BY <3>1, <3>2
  <2>3. CASE ~b.full /\ b.in_offs # MaxOps - 1
    <3>1. ~c.full /\ c.in_offs = b.in_offs + 1
      <4>1. next_idx(b.in_offs) = b.in_offs + 1 /\ b.out_offs = 0
        BY <2>3, <1>1, <1>2
      <4>2. next_idx(b.in_offs) # b.out_offs
        BY <4>1, <1>1
      <4> QED BY <4>1, <4>2, <2>3, <1>3
    <3>2. i < b.in_offs + 1 <=> i < b.in_offs \/ i = b.in_offs
      BY <1>1 DEF Slots
    <3> QED BY <2>3, <3>1, <3>2
  <2> QED BY <2>1, <2>2, <2>3
<1> QED BY <1>4, <1>5 DEF c

-----------------------------------------------------------------------------
(* The search, when all bytes together can be counted by a size_t. *)

(* No entry has more than Z bytes, and together they can be counted by a   *)
(* size_t.                                                                 *)
SizesBounded(b, Z) ==
  /\ Z \in Nat /\ MaxOps * Z < SizeMod
  /\ \A i \in Slots : peek(b, i).size \in 0 .. Z

(* As long as the bytes fit a size_t, current_char_offset never wraps: it  *)
(* is the number of bytes in front of the entry.                           *)
LEMMA StartsAreSums ==
  ASSUME NEW b, NEW Z, SizesBounded(b, Z)
  PROVE  /\ Sized(b)
         /\ Starts(b) \in [0 .. MaxOps -> 0 .. SizeMod - 1]
         /\ Starts(b)[0] = 0
         /\ \A i \in Slots : Starts(b)[i + 1] = Starts(b)[i] + peek(b, i).size
<1> DEFINE s == Starts(b)
           T == {i \in Nat : s[i] <= i * Z}
<1>2. ASSUME NEW i \in Slots PROVE peek(b, i).size \in 0 .. Z
  BY DEF SizesBounded
<1>3. Sized(b)
  BY <1>2 DEF Sized, SizesBounded
<1>4. /\ s \in [0 .. MaxOps -> 0 .. SizeMod - 1]
      /\ s[0] = 0
      /\ \A i \in Slots : s[i + 1] = (s[i] + peek(b, i).size) % SizeMod
  BY <1>3, StartsLoop
<1> HIDE DEF s
<1>5. MaxOps \in Nat /\ SizeMod \in Nat \ {0} /\ Z \in Nat
  BY MaxOpsAssumption, SizeModAssumption DEF SizesBounded
<1>6. ASSUME NEW i \in Slots, s[i] <= i * Z
      PROVE  /\ s[i + 1] = s[i] + peek(b, i).size
             /\ s[i + 1] <= (i + 1) * Z
  <2> DEFINE x == s[i] + peek(b, i).size
  <2>1. i \in 0 .. MaxOps - 1 /\ i \in 0 .. MaxOps
    BY <1>5 DEF Slots
  <2>2. s[i] \in Nat /\ peek(b, i).size \in 0 .. Z
    BY <2>1, <1>2, <1>4, <1>5
  <2>3. (i + 1) * Z = i * Z + Z /\ i * Z \in Nat
    BY <2>1, <1>5
  <2>4. (i + 1) * Z <= MaxOps * Z
    BY <2>1, <1>5
  <2>5. x \in 0 .. SizeMod - 1 /\ x <= (i + 1) * Z
    <3>1. x <= i * Z + Z /\ x \in Nat
      BY <2>2, <2>3, <1>5, <1>6
    <3>2. MaxOps * Z < SizeMod /\ MaxOps * Z \in Nat
      BY <1>5 DEF SizesBounded
    <3> HIDE DEF x
    <3> QED BY <3>1, <3>2, <2>3, <2>4, <1>5
  <2>6. x % SizeMod = x
    <3>1. x = SizeMod * 0 + x /\ x \in Int
      BY <2>5, <1>5
    <3> HIDE DEF x
    <3> QED BY <3>1, <2>5, <1>5, RemainderUnique
  <2> QED BY <2>5, <2>6, <1>4
<1>7. \A i \in 0 .. MaxOps : i \in T
  <2>1. 0 \in T
    BY <1>4, <1>5
  <2>2. ASSUME NEW i \in 0 .. MaxOps - 1, i \in T PROVE i + 1 \in T
    <3>1. i \in Slots /\ s[i] <= i * Z /\ i + 1 \in Nat
      BY <2>2 DEF Slots
    <3> QED BY <3>1, <1>6
  <2>3. \A i \in 0 .. MaxOps - 1 : i \in T => i + 1 \in T
    BY <2>2
  <2> HIDE DEF T
  <2> QED BY <1>5, <2>1, <2>3, SetInduction
<1>8. ASSUME NEW i \in Slots PROVE s[i + 1] = s[i] + peek(b, i).size
  <2>1. i \in 0 .. MaxOps
    BY <1>5 DEF Slots
  <2> QED BY <2>1, <1>6, <1>7
<1> QED BY <1>3, <1>4, <1>8 DEF s

(* The slots in use are the ones that hold bytes.                          *)
UsedHaveBytes(b) ==
  \A i \in Slots : (b.full \/ i < b.in_offs) <=> b.entry[i].size # 0

(* An entry that counts as stored is not empty.                            *)
LEMMA StoredHaveBytes ==
  ASSUME NEW E, NEW b, RingShape(b, E), UsedHaveBytes(b)
  PROVE  \A i \in 0 .. Count(b) - 1 :
           /\ i \in Slots /\ i + 1 \in 1 .. Count(b)
           /\ peek(b, i).size # 0
           /\ Contents(b)[i + 1] = peek(b, i)
<1> SUFFICES ASSUME NEW i \in 0 .. Count(b) - 1
             PROVE  /\ i \in Slots /\ i + 1 \in 1 .. Count(b)
                    /\ peek(b, i).size # 0
                    /\ Contents(b)[i + 1] = peek(b, i)
  OBVIOUS
<1>1. Count(b) \in 0 .. MaxOps /\ MaxOps \in Nat
  BY ContentsIsSeq, MaxOpsAssumption
<1>2. i \in Slots /\ i + 1 \in 1 .. Count(b) /\ (i + 1) - 1 = i
  BY <1>1 DEF Slots
<1>3. Contents(b)[i + 1] = peek(b, i)
  BY <1>2 DEF Contents
<1>4. /\ SlotOf(b, i + 1) \in Slots
      /\ b.full \/ SlotOf(b, i + 1) < b.in_offs
      /\ Contents(b)[i + 1] = b.entry[SlotOf(b, i + 1)]
  BY <1>2, ContentsSlots
<1>5. b.entry[SlotOf(b, i + 1)].size # 0
  BY <1>4 DEF UsedHaveBytes
<1> QED BY <1>2, <1>3, <1>4, <1>5

(* The entries start one behind the other.                                 *)
LEMMA StartsIncrease ==
  ASSUME NEW E, NEW b, RingShape(b, E), UsedHaveBytes(b),
         NEW Z, SizesBounded(b, Z)
  PROVE  \A i, j \in 0 .. Count(b) : i < j => Starts(b)[i] < Starts(b)[j]
<1> DEFINE s == Starts(b)
           n == Count(b)
<1>1. n \in 0 .. MaxOps /\ MaxOps \in Nat /\ n \in Nat
  BY ContentsIsSeq, MaxOpsAssumption
<1>2. ASSUME NEW j \in 0 .. n - 1
      PROVE  s[j] \in Nat /\ s[j + 1] \in Nat /\ s[j] < s[j + 1]
  <2>1. j \in Slots /\ peek(b, j).size # 0 /\ j \in 0 .. MaxOps /\ j + 1 \in 0 .. MaxOps
    BY <1>1, StoredHaveBytes
  <2>2. s \in [0 .. MaxOps -> 0 .. SizeMod - 1] /\ Sized(b)
        /\ \A k \in Slots : s[k + 1] = s[k] + peek(b, k).size
    BY StartsAreSums
  <2>3. s[j + 1] = s[j] + peek(b, j).size /\ peek(b, j).size \in Nat
    BY <2>1, <2>2 DEF Sized
  <2> HIDE DEF s
  <2>4. s[j] \in Nat /\ s[j + 1] \in Nat
    BY <2>1, <2>2, SizeModAssumption
  <2> QED BY <2>1, <2>3, <2>4
<1> HIDE DEF s, n
<1> SUFFICES ASSUME NEW i \in 0 .. n
             PROVE  \A j \in 0 .. n : i < j => s[i] < s[j]
  BY DEF s, n
<1> DEFINE T == {j \in 0 .. n : i < j => s[i] < s[j]}
<1>3. 0 \in T
  BY <1>1
<1>4. ASSUME NEW j \in 0 .. n - 1, j \in T PROVE j + 1 \in T
  <2>1. j + 1 \in 0 .. n /\ (i < j + 1 => i < j \/ i = j)
    BY <1>1
  <2>2. s[j] \in Nat /\ s[j + 1] \in Nat /\ s[j] < s[j + 1]
    BY <1>2
  <2>3. CASE i = j
    BY <2>1, <2>2, <2>3
  <2>4. CASE i < j
    <3>1. i \in 0 .. n - 1
      BY <2>4, <1>1
    <3>2. s[i] \in Nat /\ s[i] < s[j]
      BY <3>1, <1>2, <1>4, <2>4
    <3> QED BY <2>1, <2>2, <3>2
  <2> QED BY <2>1, <2>3, <2>4
<1>5. \A j \in 0 .. n : j \in T
  <2>1. \A j \in 0 .. n - 1 : j \in T => j + 1 \in T
    BY <1>4
  <2> HIDE DEF T
  <2> QED BY <1>1, <1>3, <2>1, SetInduction
<1> QED BY <1>5

(* The search answers with the entry whose bytes are around the position,  *)
(* and with NULL behind the last byte.                                     *)
LEMMA FindsByPosition ==
  ASSUME NEW E, NEW b, RingShape(b, E), UsedHaveBytes(b),
         NEW Z, SizesBounded(b, Z), NEW pos \in Nat
  PROVE  IF pos < Starts(b)[Count(b)]
           THEN \E i \in 0 .. Count(b) - 1 :
                  /\ Starts(b)[i] <= pos /\ pos < Starts(b)[i + 1]
                  /\ find_entry_offset_for_fpos(b, pos) =
                       [entry  |-> Contents(b)[i + 1],
                        offset |-> pos - Starts(b)[i]]
           ELSE find_entry_offset_for_fpos(b, pos) = NULL
<1> DEFINE n == Count(b)
           s == Starts(b)
           z(i) == peek(b, i).size
           found == find_entry_offset_for_fpos(b, pos)
<1>1. n \in 0 .. MaxOps /\ MaxOps \in Nat \ {0} /\ SizeMod \in Nat \ {0}
  BY ContentsIsSeq, MaxOpsAssumption, SizeModAssumption
<1>2. /\ s \in [0 .. MaxOps -> 0 .. SizeMod - 1] /\ s[0] = 0 /\ Sized(b)
      /\ \A i \in Slots : s[i + 1] = s[i] + z(i) /\ z(i) \in Nat
  BY StartsAreSums DEF Sized
<1>3. \A i \in 0 .. n - 1 : i \in Slots /\ z(i) # 0 /\ Contents(b)[i + 1] = peek(b, i)
  BY StoredHaveBytes
<1>4. \A i, j \in 0 .. n : i < j => s[i] < s[j]
  BY StartsIncrease
<1>5. \/ /\ found = NULL
         /\ is_empty(b) \/ \A i \in Slots : ~(Last(b, i) >= pos)
      \/ /\ ~is_empty(b)
         /\ \E i \in Slots :
              /\ Last(b, i) >= pos
              /\ \A j \in 0 .. i - 1 : ~(Last(b, j) >= pos)
              /\ found = [entry |-> peek(b, i), offset |-> (pos - s[i]) % SizeMod]
  BY FindStopsAtFirst
<1>6. ASSUME NEW i \in 0 .. n - 1
      PROVE  /\ i \in Slots /\ i + 1 \in 0 .. n /\ n \in 0 .. n
             /\ s[i] \in 0 .. SizeMod - 1 /\ s[i + 1] \in 0 .. SizeMod - 1
             /\ s[n] \in 0 .. SizeMod - 1
             /\ z(i) \in Nat \ {0} /\ s[i + 1] = s[i] + z(i) /\ s[i + 1] <= s[n]
  <2>1. /\ i \in 0 .. MaxOps /\ i + 1 \in 0 .. MaxOps /\ n \in 0 .. MaxOps
        /\ i + 1 \in 0 .. n /\ n \in 0 .. n /\ i \in Slots
    BY <1>1, <1>3
  <2> HIDE DEF s, z, n
  <2>2. /\ s[i] \in 0 .. SizeMod - 1 /\ s[i + 1] \in 0 .. SizeMod - 1
        /\ s[n] \in 0 .. SizeMod - 1
    BY <2>1, <1>2
  <2>3. z(i) \in Nat \ {0} /\ s[i + 1] = s[i] + z(i)
    BY <2>1, <1>2, <1>3
  <2>4. s[i + 1] <= s[n]
    <3>1. i + 1 < n \/ i + 1 = n
      BY <1>1
    <3>2. CASE i + 1 < n
      BY <3>2, <2>1, <2>2, <1>1, <1>4
    <3>3. CASE i + 1 = n
      BY <3>3, <2>2, <1>1
    <3> QED BY <3>1, <3>2, <3>3
  <2> QED BY <2>1, <2>2, <2>3, <2>4
<1>7. ASSUME NEW i \in 0 .. n - 1 PROVE Last(b, i) = s[i + 1] - 1
  <2>1. PICK a \in 0 .. SizeMod - 1, e \in 0 .. SizeMod - 1, y \in Nat \ {0} :
          a = s[i] /\ y = z(i) /\ e = s[i + 1] /\ e = a + y
    BY <1>6
  <2>2. /\ y - 1 \in 0 .. SizeMod - 1 /\ a + (y - 1) \in 0 .. SizeMod - 1
        /\ a + (y - 1) = e - 1
    BY <2>1, <1>1
  <2>3. (y - 1) % SizeMod = y - 1
    <3>1. y - 1 = SizeMod * 0 + (y - 1) /\ y - 1 \in Int
      BY <1>1
    <3> QED BY <3>1, <2>2, <1>1, RemainderUnique
  <2>4. (a + (y - 1)) % SizeMod = a + (y - 1)
    <3>1. a + (y - 1) = SizeMod * 0 + (a + (y - 1)) /\ a + (y - 1) \in Int
      BY <1>1
    <3> QED BY <3>1, <2>2, <1>1, RemainderUnique
  <2>5. Last(b, i) = a + (y - 1)
    BY <2>1, <2>3, <2>4 DEF Last, last_offset
  <2> QED BY <2>1, <2>2, <2>5
<1>8. ASSUME NEW i \in Slots, ~is_empty(b), Last(b, i) >= pos,
             \A j \in 0 .. i - 1 : ~(Last(b, j) >= pos),
             found = [entry |-> peek(b, i), offset |-> (pos - s[i]) % SizeMod]
      PROVE  /\ i \in 0 .. n - 1 /\ pos < s[n]
             /\ s[i] <= pos /\ pos < s[i + 1]
             /\ found = [entry |-> Contents(b)[i + 1], offset |-> pos - s[i]]
  <2>1. i \in 0 .. n - 1
    <3>1. CASE b.full
      BY <3>1, <1>1 DEF Count, Slots
    <3>2. CASE ~b.full
      <4>1. b.out_offs = 0 /\ b.in_offs \in 1 .. MaxOps - 1
        BY <1>8, <3>2, RingFields DEF is_empty
      <4>2. SUFFICES ASSUME i >= b.in_offs PROVE FALSE
        BY <3>2, <4>1 DEF Count, Slots
      <4>3. /\ i - 1 \in Slots /\ i - 1 \in 0 .. i - 1 /\ (i - 1) + 1 = i
            /\ i - 1 \in 0 .. MaxOps /\ ~(i < b.in_offs)
        BY <4>1, <4>2, <1>1 DEF Slots
      <4>4. z(i) = 0
        <5>1. b.entry[i].size = 0
          BY <3>2, <4>3 DEF UsedHaveBytes
        <5> QED BY <4>1, <5>1, PeekInOrder
      <4>5. /\ s[i - 1] \in 0 .. SizeMod - 1 /\ z(i - 1) \in Nat
            /\ s[i] = (s[i - 1] + z(i - 1)) % SizeMod
        BY <4>3, <1>2, StartsLoop
      <4>6. Last(b, i) = Last(b, i - 1)
        BY <4>4, <4>5, EmptyEndsWithPrevious DEF Last
      <4> QED BY <1>8, <4>3, <4>6
    <3> QED BY <3>1, <3>2
  <2>2. PICK a \in 0 .. SizeMod - 1, e \in 0 .. SizeMod - 1, m \in 0 .. SizeMod - 1 :
          a = s[i] /\ e = s[i + 1] /\ m = s[n] /\ e <= m
    BY <2>1, <1>6
  <2>3. pos < e
    <3>1. Last(b, i) = e - 1
      BY <2>1, <2>2, <1>7
    <3> QED BY <3>1, <1>8, <1>1
  <2>4. a <= pos
    <3>1. CASE i = 0
      BY <3>1, <2>2, <1>2
    <3>2. CASE i # 0
      <4>1. /\ i - 1 \in 0 .. i - 1 /\ i - 1 \in 0 .. n - 1 /\ (i - 1) + 1 = i
        BY <3>2, <2>1, <1>1
      <4>2. ~(Last(b, i - 1) >= pos) /\ Last(b, i - 1) = s[(i - 1) + 1] - 1
        BY <4>1, <1>7, <1>8
      <4>3. ~(a - 1 >= pos)
        BY <4>1, <4>2, <2>2
      <4> QED BY <4>3, <1>1
    <3> QED BY <3>1, <3>2
  <2>5. (pos - a) % SizeMod = pos - a
    <3>1. pos - a = SizeMod * 0 + (pos - a) /\ pos - a \in 0 .. SizeMod - 1
      BY <2>3, <2>4, <1>1
    <3> QED BY <3>1, <1>1, RemainderUnique
  <2>6. pos < m
    BY <2>2, <2>3, <1>1
  <2> HIDE DEF found, s, n
  <2> QED BY <1>3, <1>8, <2>1, <2>2, <2>3, <2>4, <2>5, <2>6
<1>9. ASSUME found = NULL, is_empty(b) \/ \A i \in Slots : ~(Last(b, i) >= pos)
      PROVE  ~(pos < s[n])
  <2>1. CASE n = 0
    BY <2>1, <1>2
  <2>2. CASE n # 0
    <3>1. n - 1 \in 0 .. n - 1 /\ n - 1 \in Slots /\ (n - 1) + 1 = n
      BY <2>2, <1>1 DEF Slots
    <3>2. ~is_empty(b)
      BY <2>2, RingFields DEF is_empty, Count
    <3>3. ~(Last(b, n - 1) >= pos) /\ Last(b, n - 1) = s[(n - 1) + 1] - 1
      BY <3>1, <3>2, <1>7, <1>9
    <3>4. s[n] \in 0 .. SizeMod - 1
      BY <3>1, <1>6
    <3>5. ~(s[n] - 1 >= pos)
      BY <3>1, <3>3
    <3> QED BY <3>4, <3>5, <1>1
  <2> QED BY <2>1, <2>2
<1> HIDE DEF found, s, n
<1> QED BY <1>5, <1>8, <1>9 DEF found, s, n

(* Adding to a buffer with room moves no entry: each starts where it did.  *)
(* Adding to a full one takes the oldest entry away, and each of the other *)
(* ones starts earlier.                                                    *)
LEMMA StartsAfterAdd ==
  ASSUME NEW E, NEW b, RingShape(b, E), NEW e \in E, e.size # 0,
         NEW Z, SizesBounded(b, Z), SizesBounded(add_entry(b, e).buffer, Z)
  PROVE  LET c == add_entry(b, e).buffer
         IN  /\ ~b.full => /\ Count(c) = Count(b) + 1
                           /\ \A j \in 0 .. Count(b) : Starts(c)[j] = Starts(b)[j]
             /\ b.full => /\ Count(b) = MaxOps /\ Count(c) = MaxOps
                          /\ \A j \in 0 .. MaxOps - 1 :
                               Starts(c)[j] <= Starts(b)[j + 1]
<1> DEFINE c == add_entry(b, e).buffer
           s == Starts(b)
           t == Starts(c)
           k == Contents(b)
<1>1. RingShape(c, E)
  BY AddEntryShape
<1>2. /\ Count(b) \in 0 .. MaxOps /\ Count(c) \in 0 .. MaxOps
      /\ k \in Seq(E) /\ Len(k) = Count(b)
      /\ Contents(c) \in Seq(E) /\ Len(Contents(c)) = Count(c)
      /\ MaxOps \in Nat \ {0}
  BY <1>1, ContentsIsSeq, MaxOpsAssumption
<1>3. Contents(c) = IF Len(k) < MaxOps THEN Append(k, e) ELSE Append(Tail(k), e)
  BY AddEntryPushes
<1>4. /\ s \in [0 .. MaxOps -> 0 .. SizeMod - 1] /\ s[0] = 0
      /\ t \in [0 .. MaxOps -> 0 .. SizeMod - 1] /\ t[0] = 0
      /\ \A i \in Slots : s[i + 1] = s[i] + peek(b, i).size /\ peek(b, i).size \in Nat
      /\ \A i \in Slots : t[i + 1] = t[i] + peek(c, i).size /\ peek(c, i).size \in Nat
  BY StartsAreSums DEF Sized
<1>5. /\ \A i \in 0 .. Count(b) - 1 : peek(b, i) = k[i + 1]
      /\ \A i \in 0 .. Count(c) - 1 : peek(c, i) = Contents(c)[i + 1]
  <2>1. ASSUME NEW a, Count(a) \in 0 .. MaxOps, NEW i \in 0 .. Count(a) - 1
        PROVE  peek(a, i) = Contents(a)[i + 1]
    <3>1. i + 1 \in 1 .. Count(a) /\ (i + 1) - 1 = i
      BY <2>1, <1>2
    <3> QED BY <3>1 DEF Contents
  <2> QED BY <1>2, <2>1
<1> HIDE DEF s, t, c, k
<1>6. ASSUME ~b.full
      PROVE  /\ Count(c) = Count(b) + 1
             /\ \A j \in 0 .. Count(b) : t[j] = s[j]
  <2>1. PICK n \in Nat : n = Count(b) /\ n < MaxOps
    BY <1>2, <1>6, RingFields DEF Count
  <2>2. Contents(c) = Append(k, e) /\ Len(k) = n
    BY <1>2, <1>3, <2>1
  <2>3. /\ Len(Append(k, e)) = n + 1
        /\ \A i \in 1 .. n : Append(k, e)[i] = k[i]
    BY <1>2, <2>2, AppendProperties
  <2>4. Count(c) = n + 1
    BY <1>2, <2>2, <2>3
  <2> DEFINE T == {j \in 0 .. n : t[j] = s[j]}
  <2>5. 0 \in T
    BY <1>4, <2>1
  <2>6. ASSUME NEW j \in 0 .. n - 1, j \in T PROVE j + 1 \in T
    <3>1. /\ j \in Slots /\ j + 1 \in 1 .. n /\ j + 1 \in 0 .. n
          /\ j \in 0 .. (n + 1) - 1
      BY <2>1, <1>2 DEF Slots
    <3>2. peek(b, j) = k[j + 1] /\ peek(c, j) = Append(k, e)[j + 1]
      BY <3>1, <2>1, <2>2, <2>4, <1>5
    <3>3. peek(b, j) = peek(c, j)
      BY <3>1, <3>2, <2>3
    <3>4. t[j + 1] = s[j + 1]
      BY <3>1, <3>3, <2>6, <1>4
    <3> QED BY <3>1, <3>4
  <2>7. \A j \in 0 .. n : j \in T
    <3>1. \A j \in 0 .. n - 1 : j \in T => j + 1 \in T
      BY <2>6
    <3> HIDE DEF T
    <3> QED BY <2>1, <2>5, <3>1, SetInduction
  <2> QED BY <2>1, <2>4, <2>7
<1>7. ASSUME b.full
      PROVE  /\ Count(b) = MaxOps /\ Count(c) = MaxOps
             /\ \A j \in 0 .. MaxOps - 1 : t[j] <= s[j + 1]
  <2>1. PICK n \in Nat \ {0} : n = Count(b) /\ n = MaxOps
    BY <1>2, <1>7 DEF Count
  <2>2. Contents(c) = Append(Tail(k), e) /\ Len(k) = n
    BY <1>2, <1>3, <2>1
  <2>3. k # <<>> /\ k \in Seq(E)
    BY <1>2, <2>2, <2>1
  <2>4. /\ Tail(k) \in Seq(E) /\ Len(Tail(k)) = n - 1
        /\ \A i \in 1 .. n - 1 : Tail(k)[i] = k[i + 1]
    BY <2>2, <2>3, HeadTailProperties
  <2>5. /\ Len(Append(Tail(k), e)) = (n - 1) + 1
        /\ \A i \in 1 .. n - 1 : Append(Tail(k), e)[i] = Tail(k)[i]
    BY <2>4, AppendProperties
  <2>6. Count(c) = n
    <3>1. Count(c) = (n - 1) + 1
      BY <1>2, <2>2, <2>5
    <3> QED BY <3>1
  <2> DEFINE T == {j \in 0 .. n - 1 : t[j] <= s[j + 1]}
  <2>7. 0 \in T
    <3>1. s[1] \in 0 .. SizeMod - 1 /\ t[0] = 0
      <4>1. 1 \in 0 .. MaxOps
        BY <2>1
      <4> QED BY <1>4, <4>1
    <3> QED BY <3>1, <2>1, SizeModAssumption
  <2>8. ASSUME NEW j \in 0 .. (n - 1) - 1, j \in T PROVE j + 1 \in T
    <3>1. /\ j \in Slots /\ j + 1 \in Slots /\ j + 1 \in 1 .. n - 1
          /\ j + 1 \in 0 .. n - 1 /\ j \in 0 .. n - 1
          /\ j \in 0 .. MaxOps /\ j + 1 \in 0 .. MaxOps
      BY <2>1 DEF Slots
    <3>2. peek(c, j) = Append(Tail(k), e)[j + 1]
      BY <3>1, <2>1, <2>2, <2>6, <1>5
    <3>3. peek(b, j + 1) = k[(j + 1) + 1]
      BY <3>1, <2>1, <1>5
    <3>4. peek(c, j) = peek(b, j + 1)
      BY <3>1, <3>2, <3>3, <2>4, <2>5
    <3>5. PICK x \in Nat, y \in Nat, z \in Nat :
            x = t[j] /\ y = s[j + 1] /\ z = peek(c, j).size
      BY <3>1, <1>4, SizeModAssumption
    <3>6. t[j + 1] = x + z /\ s[(j + 1) + 1] = y + z
      BY <3>1, <3>4, <3>5, <1>4
    <3>7. x <= y
      BY <3>5, <2>8
    <3>8. t[j + 1] <= s[(j + 1) + 1]
      BY <3>6, <3>7
    <3> QED BY <3>1, <3>8
  <2>9. \A j \in 0 .. n - 1 : j \in T
    <3>1. \A j \in 0 .. (n - 1) - 1 : j \in T => j + 1 \in T
      BY <2>8
    <3>2. n - 1 \in Nat
      BY <2>1
    <3> HIDE DEF T
    <3> QED BY <3>2, <2>7, <3>1, SetInduction
  <2> QED BY <2>1, <2>6, <2>9
<1> QED BY <1>6, <1>7 DEF s, t, c
=============================================================================
