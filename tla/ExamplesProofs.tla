-------------------------- MODULE ExamplesProofs --------------------------
(***************************************************************************)
(* The threading example for any number of threads, and the finder         *)
(* application for any number of files and any string.                     *)
(***************************************************************************)
EXTENDS Examples, FiniteSetTheorems, SequenceTheorems, TLAPS

-----------------------------------------------------------------------------
(* Where the starter, the thread and the joiner of a block can be together. *)
BlockInv(t) ==
  /\ starter[t] = "none" => thread[t] = "none" /\ joined[t] = "no"
  /\ starter[t] = "pthread_create" =>
       thread[t] = "none" /\ joined[t] = "no" /\ thread_data[t].state = "allocated"
  /\ starter[t] = "set" =>
       thread[t] # "none" /\ joined[t] = "no" /\ thread_data[t].state = "allocated"
  /\ starter[t] = "true" =>
       /\ thread_data[t].thread_complete_success
       /\ joined[t] = "no" => thread_data[t].state = "allocated"
       /\ joined[t] # "no" => joined[t] = "true" /\ thread[t] = "returned"
  /\ starter[t] = "false" => thread[t] = "none" /\ joined[t] = "no"

ThreadsInv ==
  /\ starter \in [Threads -> {"none", "pthread_create", "set", "true", "false"}]
  /\ thread \in [Threads -> {"none", "obtain", "release", "returned"}]
  /\ thread_data \in [Threads -> [state : {"none", "allocated", "freed"},
                                  thread_complete_success : BOOLEAN]]
  /\ joined \in [Threads -> {"no", "true", "false"}]
  /\ \A t \in Threads : BlockInv(t)

(* Every step of every starter, thread and joiner keeps the invariant. *)
LEMMA ThreadsInductive ==
  ThreadsInv /\ [Thr!Next]_(Thr!vars) => ThreadsInv'
<1> SUFFICES ASSUME ThreadsInv, [Thr!Next]_(Thr!vars) PROVE ThreadsInv'
  OBVIOUS
<1>1. CASE UNCHANGED Thr!vars
  BY <1>1 DEF Thr!vars, ThreadsInv, BlockInv
<1>2. ASSUME NEW t \in Threads,
             Thr!start_thread_obtaining_mutex(t) \/ Thr!threadfunc_obtain(t)
               \/ Thr!Step(t)
      PROVE  ThreadsInv'
  <2> USE DEF ThreadsInv
  <2>1. CASE Thr!start_thread_obtaining_mutex(t)
    BY <2>1 DEF Thr!start_thread_obtaining_mutex, BlockInv
  <2>2. CASE Thr!pthread_create(t)
    BY <2>2 DEF Thr!pthread_create, BlockInv
  <2>3. CASE Thr!set_success(t)
    BY <2>3, ZenonT(60) DEF Thr!set_success, Thr!Started, BlockInv
  <2>4. CASE Thr!threadfunc_obtain(t)
    BY <2>4 DEF Thr!threadfunc_obtain, BlockInv
  <2>5. CASE Thr!threadfunc_release(t)
    BY <2>5 DEF Thr!threadfunc_release, Thr!Result, BlockInv
  <2>6. CASE Thr!join(t)
    BY <2>6 DEF Thr!join, BlockInv
  <2> QED BY <1>2, <2>1, <2>2, <2>3, <2>4, <2>5, <2>6 DEF Thr!Step
<1> QED BY <1>1, <1>2 DEF Thr!Next

(* A thread_data block is allocated whenever its starter, its thread or    *)
(* its joiner may use it, and the joiner is told that the thread           *)
(* succeeded: for any number of concurrent calls.                          *)
THEOREM BlocksOwned == ExamplesSpec => []DataOwned
<1>1. ExamplesInit => ThreadsInv
  BY DEF ExamplesInit, Thr!Init, ThreadsInv, BlockInv
<1>2. ThreadsInv /\ [ExamplesNext]_examples_vars => ThreadsInv'
  <2>1. [ExamplesNext]_examples_vars => [Thr!Next]_(Thr!vars)
    BY DEF ExamplesNext, examples_vars, thr_vars, Thr!vars
  <2> QED BY <2>1, ThreadsInductive
<1>3. ThreadsInv => DataOwned
  BY DEF ThreadsInv, BlockInv, DataOwned, Thr!DataOwned
<1> QED BY <1>1, <1>2, <1>3, PTL DEF ExamplesSpec

-----------------------------------------------------------------------------
(* The directory when writer has written the files before the n-th. *)
Filled(n) == [f \in Fin!Files |-> IF f < n THEN WRITESTR ELSE NULL]

(* Both counts are right, or some file was passed over. *)
Counted ==
  \E a, b \in 0 .. NUMFILES :
    output = <<a, b>> /\ (~failed <=> a = NUMFILES /\ b = NUMFILES)

(* The script up to its exit. *)
ScriptInv ==
  /\ script \in {"rm", "mkdir", "writer"} => ~failed
  /\ script \in {"rm", "mkdir"} => i = 1 /\ written = {}
  /\ script = "mkdir" => dir = NULL
  /\ script = "writer" =>
       /\ i \in 1 .. NUMFILES + 1 /\ written = 1 .. i - 1
       /\ dir = Filled(i) \/ (dir = NULL /\ i = 1)
  /\ script = "save" => dir = Filled(NUMFILES + 1)
  /\ script \in {"save", "cleanup", "compare"} => written = Fin!Files /\ Counted
  /\ script = "exited" =>
       (status = 0 <=> ~failed) /\ (status = 0 => written = Fin!Files)

(* writer on a file that does not exist: the string, or a failure. *)
LEMMA WriterOutcome ==
  ASSUME NEW run \in Fin!writer(NULL)
  PROVE  \/ run.code = 0 /\ run.file = WRITESTR /\ run.n = Len(WRITESTR)
         \/ run.code = 255 /\ run.n # Len(WRITESTR)
<1>1. PICK Chars : WRITESTR \in Seq(Chars)
  BY FinderAssumption
<1>2. Len(WRITESTR) \in Nat \ {0}
  BY <1>1, EmptySeq, FinderAssumption
<1>3. CASE \E f \in FinderFaults \cap {"open"} :
             run = [code |-> 255, file |-> NULL, n |-> 0]
  BY <1>2, <1>3
<1>4. CASE \E n \in 0 .. Len(WRITESTR) :
             run = [code |-> Fin!ExitCode(n), file |-> Fin!Overwrite(<<>>, n), n |-> n]
  <2>1. PICK n \in 0 .. Len(WRITESTR) :
          run = [code |-> Fin!ExitCode(n), file |-> Fin!Overwrite(<<>>, n), n |-> n]
    BY <1>4
  <2>2. CASE n = Len(WRITESTR)
    <3>1. SubSeq(WRITESTR, 1, n) = WRITESTR
      BY <1>1, <1>2, <2>2
    <3>2. SubSeq(<<>>, n + 1, Len(<<>>)) = <<>>
      BY <1>2, <2>2
    <3>3. WRITESTR \o <<>> = WRITESTR
      BY <1>1, ConcatEmptySeq
    <3> QED BY <2>1, <2>2, <3>1, <3>2, <3>3 DEF Fin!ExitCode, Fin!Overwrite
  <2>3. CASE n # Len(WRITESTR)
    BY <2>1, <2>3 DEF Fin!ExitCode
  <2> QED BY <2>2, <2>3
<1> QED BY <1>2, <1>3, <1>4 DEF Fin!writer

(* FinderApp counts as FiniteSets does. *)
LEMMA SameCardinality == \A S : Fin!Cardinality(S) = Cardinality(S)
BY DEF Fin!Cardinality, Cardinality

(* finder.sh, when every file holds the string and nothing else, finds one *)
(* line in each file it can read.                                          *)
LEMMA FinderCounts ==
  ASSUME NEW d, \A f \in Fin!Files : d[f] = WRITESTR,
         NEW unread \in SUBSET Fin!Files
  PROVE  \E a \in 0 .. NUMFILES :
           /\ Cardinality({l[1] : l \in Fin!MatchingLines(d, unread)}) = a
           /\ Cardinality(Fin!MatchingLines(d, unread)) = a
           /\ a = NUMFILES <=> unread = {}
<1> DEFINE read == Fin!Files \ unread
<1>1. PICK Chars : WRITESTR \in Seq(Chars)
  BY FinderAssumption
<1>2. Len(WRITESTR) \in Nat \ {0} /\ NUMFILES \in Nat
  BY <1>1, EmptySeq, FinderAssumption
<1>3. PICK line : Fin!Matches(WRITESTR) = {line}
  <2>1. {k \in 1 .. Len(WRITESTR) - Len(WRITESTR) + 1 :
           SubSeq(WRITESTR, k, k + Len(WRITESTR) - 1) = WRITESTR} = {1}
    <3>1. SubSeq(WRITESTR, 1, 1 + Len(WRITESTR) - 1) = WRITESTR
      BY <1>1, <1>2
    <3>2. 1 .. Len(WRITESTR) - Len(WRITESTR) + 1 = {1}
      BY <1>2
    <3> QED BY <3>1, <3>2
  <2>2. Fin!Matches(WRITESTR) =
          {Cardinality({j \in 1 .. k : WRITESTR[j] = NEWLINE}) : k \in {1}}
    BY <2>1, SameCardinality DEF Fin!Matches
  <2> QED BY <2>2
<1>4. Fin!MatchingLines(d, unread) = read \X {line}
  <2>1. {f \in Fin!Files \ unread : d[f] # NULL} = read
    BY FinderAssumption
  <2>2. Fin!MatchingLines(d, unread) = UNION {{f} \X {line} : f \in read}
    BY <1>3, <2>1 DEF Fin!MatchingLines
  <2> QED BY <2>2
<1>5. IsFiniteSet(Fin!Files) /\ Cardinality(Fin!Files) = NUMFILES
  BY <1>2, FS_Interval DEF Fin!Files
<1>6. /\ IsFiniteSet(read) /\ Cardinality(read) \in 0 .. NUMFILES
      /\ Cardinality(read) = NUMFILES <=> unread = {}
  <2>1. read \subseteq Fin!Files
    OBVIOUS
  <2>2. /\ IsFiniteSet(read) /\ Cardinality(read) <= NUMFILES
        /\ Cardinality(read) = NUMFILES => read = Fin!Files
    BY <1>5, <2>1, FS_Subset
  <2>3. Cardinality(read) \in Nat
    BY <2>2, FS_CardinalityType
  <2>4. read = Fin!Files <=> unread = {}
    OBVIOUS
  <2>5. Cardinality(read) = NUMFILES <=> unread = {}
    BY <1>5, <2>2, <2>4
  <2>6. Cardinality(read) \in 0 .. NUMFILES
    BY <1>2, <2>2, <2>3
  <2> QED BY <2>2, <2>5, <2>6
<1>7. {l[1] : l \in Fin!MatchingLines(d, unread)} = read
  <2>1. \A l \in read \X {line} : l[1] \in read
    OBVIOUS
  <2>2. \A f \in read : <<f, line>> \in read \X {line} /\ <<f, line>>[1] = f
    OBVIOUS
  <2> QED BY <1>4, <2>1, <2>2
<1>8. Cardinality(read \X {line}) = Cardinality(read)
  <2>1. IsFiniteSet({line}) /\ Cardinality({line}) = 1
    BY FS_Singleton
  <2>2. Cardinality(read \X {line}) = Cardinality(read) * 1
    BY <1>6, <2>1, FS_Product
  <2> QED BY <1>6, <2>2
<1> HIDE DEF read
<1> QED BY <1>4, <1>6, <1>7, <1>8

(* The comparison of the texts, for counts that are not too large. *)
LEMMA TextComparison ==
  ASSUME NEW a \in 0 .. NUMFILES, NEW b \in 0 .. NUMFILES
  PROVE  Fin!Expected(<<a, b>>) <=> a = NUMFILES /\ b = NUMFILES
<1>1. NUMFILES \in Nat \ {0} /\ a \in Nat /\ b \in Nat /\ b <= NUMFILES
  BY FinderAssumption
<1>2. ASSUME Fin!BeginsWith(b, NUMFILES) PROVE b = NUMFILES
  <2>1. PICK p \in 1 .. b : NUMFILES * p <= b
    BY <1>2 DEF Fin!BeginsWith
  <2>2. p \in Nat /\ p >= 1
    BY <1>1, <2>1
  <2>3. NUMFILES * p >= NUMFILES
    BY <1>1, <2>2
  <2>4. NUMFILES * p \in Nat
    BY <1>1, <2>2
  <2> QED BY <1>1, <2>1, <2>3, <2>4
<1>3. ASSUME b = NUMFILES PROVE Fin!BeginsWith(b, NUMFILES)
  <2>1. 1 \in 1 .. b /\ NUMFILES * 1 <= b /\ b < (NUMFILES + 1) * 1
    BY <1>1, <1>3
  <2> QED BY <2>1 DEF Fin!BeginsWith
<1> QED BY <1>2, <1>3 DEF Fin!Expected

(* Every command of the script keeps the invariant. *)
LEMMA ScriptInductive ==
  ScriptInv /\ [Fin!Next]_(Fin!vars) => ScriptInv'
<1> SUFFICES ASSUME ScriptInv, [Fin!Next]_(Fin!vars) PROVE ScriptInv'
  OBVIOUS
<1>0. NUMFILES \in Nat \ {0}
  BY FinderAssumption
<1>1. 1 \in Fin!Files /\ Fin!Files # {} /\ Fin!Files = 1 .. NUMFILES
  BY <1>0 DEF Fin!Files
<1>2. \A n : Filled(n) # NULL
  BY FinderAssumption DEF Filled, Fin!Files
<1>3. CASE UNCHANGED Fin!vars
  BY <1>3 DEF Fin!vars, ScriptInv, Counted
<1>4. CASE Fin!rm
  <2>1. CASE script' = "mkdir"
    BY <1>4, <2>1 DEF Fin!rm, Fin!Emptied, Fin!Succeeds, Fin!Fails, Fin!Exits, ScriptInv
  <2>2. CASE script' = "exited"
    BY <1>4, <2>2 DEF Fin!rm, Fin!Succeeds, Fin!Fails, Fin!Exits, ScriptInv
  <2> QED BY <1>4, <2>1, <2>2 DEF Fin!rm, Fin!Succeeds, Fin!Fails, Fin!Exits
<1>5. CASE Fin!mkdir
  <2> USE DEF Fin!Succeeds, Fin!Fails, Fin!Exits
  <2>1. i = 1 /\ written = {} /\ dir = NULL /\ script = "mkdir" /\ ~failed
    BY <1>5 DEF Fin!mkdir, ScriptInv
  <2>2. CASE script' = "exited"
    BY <1>5, <2>1, <2>2 DEF Fin!mkdir, ScriptInv
  <2>3. CASE script' = "writer"
    <3>1. Filled(1) = [f \in Fin!Files |-> NULL]
      BY <1>1 DEF Filled, Fin!Files
    <3>2. dir' = NULL \/ dir' = Filled(1)
      BY <1>5, <2>1, <2>3, <3>1 DEF Fin!mkdir
    <3>3. i' = 1 /\ written' = {} /\ ~failed'
      BY <1>5, <2>1, <2>3 DEF Fin!mkdir
    <3>4. 1 .. 1 - 1 = {}
      OBVIOUS
    <3>5. 1 \in 1 .. NUMFILES + 1
      BY <1>0
    <3> QED BY <2>3, <3>2, <3>3, <3>4, <3>5 DEF ScriptInv
  <2> QED BY <1>5, <2>2, <2>3 DEF Fin!mkdir
<1>6. CASE Fin!run_writer
  <2>1. /\ script = "writer" /\ i \in Fin!Files /\ i \in Nat /\ written = 1 .. i - 1
        /\ ~failed
        /\ dir = Filled(i) \/ (dir = NULL /\ i = 1)
    BY <1>1, <1>6 DEF Fin!run_writer, ScriptInv
  <2>2. written \cup {i} = 1 .. (i + 1) - 1
    <3>1. i \in Nat /\ i >= 1 /\ written = 1 .. i - 1
      BY <1>1, <2>1
    <3>2. \A n \in Int : n \in 1 .. i - 1 \/ n = i <=> n \in 1 .. (i + 1) - 1
      BY <3>1
    <3> QED BY <3>1, <3>2
  <2>3. CASE dir = NULL
    <3>1. script' = "exited" /\ status' = 255 /\ failed'
      BY <1>6, <2>3 DEF Fin!run_writer, Fin!Fails, Fin!Exits
    <3> QED BY <3>1 DEF ScriptInv
  <2>4. CASE dir # NULL
    <3>1. dir = Filled(i) /\ dir[i] = NULL
      BY <2>1, <2>4 DEF Filled
    <3>2. PICK run \in Fin!writer(NULL) :
            /\ dir' = [dir EXCEPT ![i] = run.file]
            /\ written' = IF run.n = Len(WRITESTR) THEN written \cup {i} ELSE written
            /\ IF run.code = 0 THEN i' = i + 1 /\ Fin!Succeeds("writer")
                               ELSE Fin!Fails(run.code) /\ UNCHANGED i
      BY <1>6, <2>4, <3>1 DEF Fin!run_writer
    <3>3. CASE run.code = 0 /\ run.file = WRITESTR /\ run.n = Len(WRITESTR)
      <4>1. [Filled(i) EXCEPT ![i] = WRITESTR] = Filled(i + 1)
        <5>1. \A f \in Fin!Files : f < i + 1 <=> f < i \/ f = i
          BY <1>1, <2>1
        <5> QED BY <2>1, <5>1 DEF Filled
      <4>2. dir' = Filled(i + 1) /\ i' = i + 1 /\ script' = "writer"
            /\ written' = 1 .. (i + 1) - 1
        BY <2>1, <2>2, <3>1, <3>2, <3>3, <4>1 DEF Fin!Succeeds
      <4>3. ~failed'
        BY <2>1, <3>2, <3>3 DEF Fin!Succeeds
      <4>4. i + 1 \in 1 .. NUMFILES + 1
        BY <1>0, <1>1, <2>1
      <4> QED BY <4>2, <4>3, <4>4 DEF ScriptInv
    <3>4. CASE run.code = 255 /\ run.n # Len(WRITESTR)
      <4>1. script' = "exited" /\ status' = 255 /\ failed'
        BY <3>2, <3>4 DEF Fin!Fails, Fin!Exits
      <4> QED BY <4>1 DEF ScriptInv
    <3> QED BY <3>3, <3>4, WriterOutcome
  <2> QED BY <2>3, <2>4
<1>7. CASE Fin!run_finder
  <2>1. /\ script = "writer" /\ i \in 1 .. NUMFILES + 1 /\ i > NUMFILES
        /\ written = 1 .. i - 1
        /\ dir = Filled(i) \/ (dir = NULL /\ i = 1)
    BY <1>7 DEF Fin!run_finder, ScriptInv
  <2>2. i = NUMFILES + 1 /\ written = Fin!Files /\ dir = Filled(NUMFILES + 1)
    BY <1>0, <1>1, <2>1
  <2>3. \A f \in Fin!Files : dir[f] = WRITESTR
    <3>1. \A f \in Fin!Files : f < NUMFILES + 1
      BY <1>0, <1>1
    <3> QED BY <2>2, <3>1 DEF Filled
  <2>4. PICK u1 \in Fin!Unreadable : \E u2 \in Fin!Unreadable :
          /\ output' = <<Cardinality({l[1] : l \in Fin!MatchingLines(dir, u1)}),
                         Cardinality(Fin!MatchingLines(dir, u2))>>
          /\ failed' = (u1 \cup u2 # {})
    BY <1>2, <1>7, <2>2, SameCardinality DEF Fin!run_finder
  <2>5. PICK u2 \in Fin!Unreadable :
          /\ output' = <<Cardinality({l[1] : l \in Fin!MatchingLines(dir, u1)}),
                         Cardinality(Fin!MatchingLines(dir, u2))>>
          /\ failed' = (u1 \cup u2 # {})
    BY <2>4
  <2>6. script' = "save" /\ dir' = dir /\ written' = written
    BY <1>2, <1>7, <2>2 DEF Fin!run_finder
  <2>7. u1 \in SUBSET Fin!Files /\ u2 \in SUBSET Fin!Files
    BY <2>4, <2>5 DEF Fin!Unreadable
  <2>8. PICK a \in 0 .. NUMFILES :
          /\ Cardinality({l[1] : l \in Fin!MatchingLines(dir, u1)}) = a
          /\ a = NUMFILES <=> u1 = {}
    BY <2>3, <2>7, FinderCounts
  <2>9. PICK b \in 0 .. NUMFILES :
          /\ Cardinality(Fin!MatchingLines(dir, u2)) = b
          /\ b = NUMFILES <=> u2 = {}
    BY <2>3, <2>7, FinderCounts
  <2>10. output' = <<a, b>> /\ (~failed' <=> a = NUMFILES /\ b = NUMFILES)
    BY <2>5, <2>8, <2>9
  <2>11. Counted'
    BY <2>10 DEF Counted
  <2> QED BY <2>2, <2>6, <2>11 DEF ScriptInv
<1>8. CASE Fin!save \/ Fin!cleanup
  <2> USE DEF Fin!Succeeds, Fin!Fails, Fin!Exits
  <2>1. /\ written = Fin!Files /\ Counted
        /\ written' = written /\ output' = output
    BY <1>8 DEF Fin!save, Fin!cleanup, ScriptInv
  <2>2. \/ script' \in {"cleanup", "compare"} /\ failed' = failed
        \/ script' = "exited" /\ status' = 1 /\ failed'
    BY <1>8 DEF Fin!save, Fin!cleanup
  <2>3. CASE script' \in {"cleanup", "compare"} /\ failed' = failed
    <3>1. Counted'
      BY <2>1, <2>3 DEF Counted
    <3> QED BY <2>1, <2>3, <3>1 DEF ScriptInv, Fin!Files
  <2>4. CASE script' = "exited" /\ status' = 1 /\ failed'
    BY <2>4 DEF ScriptInv
  <2> QED BY <2>2, <2>3, <2>4
<1>9. CASE Fin!compare
  <2>1. written' = Fin!Files /\ script' = "exited" /\ failed' = failed
        /\ status' = IF Fin!Expected(output) THEN 0 ELSE 1
    BY <1>9 DEF Fin!compare, Fin!Exits, ScriptInv
  <2>2. Fin!Expected(output) <=> ~failed
    <3>1. PICK a \in 0 .. NUMFILES, b \in 0 .. NUMFILES :
            output = <<a, b>> /\ (~failed <=> a = NUMFILES /\ b = NUMFILES)
      BY <1>9 DEF Fin!compare, ScriptInv, Counted
    <3> QED BY <3>1, TextComparison
  <2> QED BY <2>1, <2>2 DEF ScriptInv, Fin!Files
<1> QED BY <1>3, <1>4, <1>5, <1>6, <1>7, <1>8, <1>9 DEF Fin!Next

(* finder-test.sh exits with 0 exactly when nothing it did has failed, for *)
(* any number of files and any string on one line that grep takes          *)
(* literally; every file is written then, and what finder.sh has searched  *)
(* is the string alone, whatever the directory held before.                *)
THEOREM ScriptIsRight == ExamplesSpec => []SuccessIsEarned
<1>1. ExamplesInit => ScriptInv
  BY DEF ExamplesInit, Fin!Init, ScriptInv
<1>2. ScriptInv /\ [ExamplesNext]_examples_vars => ScriptInv'
  <2>1. [ExamplesNext]_examples_vars => [Fin!Next]_(Fin!vars)
    BY DEF ExamplesNext, examples_vars, fin_vars, Fin!vars
  <2> QED BY <2>1, ScriptInductive
<1>3. ScriptInv => SuccessIsEarned
  <2>1. \A f \in Fin!Files : f < NUMFILES + 1
    BY FinderAssumption DEF Fin!Files
  <2> QED BY <2>1 DEF ScriptInv, SuccessIsEarned, Fin!SuccessIsEarned, Filled
<1> QED BY <1>1, <1>2, <1>3, PTL DEF ExamplesSpec
=============================================================================
